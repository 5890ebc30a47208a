\* Every call, three keys over a cache of two entries, one failing wrapped call.
CONSTANTS
    Keys = {k1, k2, k3}
    Capacity = 2
    Ops = {"GetOrAdd", "Get", "Contains", "GetStateHash", "Close"}
    MaxIoErrors = 1
SPECIFICATION Spec
\* Close ends the index: no call follows it.
CHECK_DEADLOCK FALSE
INVARIANT TypeOK
