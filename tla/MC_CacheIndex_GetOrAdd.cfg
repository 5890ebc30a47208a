\* Callers that only use GetOrAdd, with evictions.
CONSTANTS
    Keys = {k1, k2, k3, k4}
    Capacity = 2
    Ops = {"GetOrAdd", "GetStateHash", "Close"}
    MaxIoErrors = 0
SPECIFICATION Spec
\* Close ends the index: no call follows it.
CHECK_DEADLOCK FALSE
PROPERTY RefinesIndex
