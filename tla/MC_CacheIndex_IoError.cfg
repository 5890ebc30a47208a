\* GetOrAdd callers; one call of the wrapped index fails with an I/O error.
CONSTANTS
    Keys = {k1, k2, k3}
    Capacity = 2
    Ops = {"GetOrAdd"}
    MaxIoErrors = 1
SPECIFICATION Spec
INVARIANT CachedIdsAgree
