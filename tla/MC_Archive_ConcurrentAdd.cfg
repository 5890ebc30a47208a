\* Two writers call Add concurrently; no statement fails.
CONSTANTS
    K1 = K1
    W1 = W1
    W2 = W2
    NoWriter = NoWriter
    Accounts = {1, 2}
    Keys <- MCKeys
    Fields = {"balance", "nonce", "code"}
    Vals = {1, 2}
    Zero = 0
    MaxBlock = 2
    Updates <- MCUpdates
    Writers <- MCWritersTwo
    MaxFailures = 0
    MaxRestarts = 0
    StorageAfterCreate = TRUE
SPECIFICATION Spec
PROPERTY BlocksCommittedInOrder
