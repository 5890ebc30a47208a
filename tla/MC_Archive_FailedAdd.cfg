\* One writer; one statement of an Add fails with an I/O error.
CONSTANTS
    K1 = K1
    W1 = W1
    W2 = W2
    NoWriter = NoWriter
    Accounts = {1, 2}
    Keys <- MCKeys
    Fields = {"balance", "nonce", "code"}
    Vals = {1, 2}
    Zero = 0
    MaxBlock = 2
    Updates <- MCUpdates
    Writers <- MCWritersOne
    MaxFailures = 1
    MaxRestarts = 0
    StorageAfterCreate = TRUE
SPECIFICATION Spec
INVARIANT NoTransactionLeftOpen
