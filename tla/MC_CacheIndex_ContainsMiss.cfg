\* Callers that ask Contains for keys evicted from the cache.
CONSTANTS
    Keys = {k1, k2, k3}
    Capacity = 2
    Ops = {"GetOrAdd", "Contains"}
    MaxIoErrors = 0
SPECIFICATION Spec
INVARIANT ContainsAgrees
