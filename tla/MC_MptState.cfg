CONSTANTS
    A1 = A1
    A2 = A2
    K1 = K1
    H0 = H0
    H1 = H1
    NoHash = NoHash
    Accounts = {A1}
    Keys = {K1}
    Vals = {0, 1}
    Hashes <- MCHashes
    EmptyCodeHash = H0
    CodeSize <- MCSmallSizes
    BufSize = 4096
    CrashPoints = {"idle", "trie"}
    MaxCrashes = 1
    MaxTrieErrors = 1
SPECIFICATION Spec
INVARIANT CodesPresent
INVARIANT ReopenSucceeds
PROPERTY RefinesState
