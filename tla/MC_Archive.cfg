\* Serial Add calls by one writer, one injected statement failure.
CONSTANTS
    K1 = K1
    W1 = W1
    W2 = W2
    NoWriter = NoWriter
    Accounts = {1, 2}
    Keys <- MCKeys
    Fields = {"balance", "nonce", "code"}
    Vals = {1, 2}
    Zero = 0
    MaxBlock = 2
    Updates <- MCUpdates
    Writers <- MCWritersOne
    MaxFailures = 1
    MaxRestarts = 2
    StorageAfterCreate = TRUE
SPECIFICATION Spec
INVARIANT TypeOK
INVARIANT CommittedReadsStable
INVARIANT VerifySucceeds
PROPERTY RefinesHistory
