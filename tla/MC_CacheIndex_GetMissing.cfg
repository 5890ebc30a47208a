\* Callers that look keys up with Get before adding them.
CONSTANTS
    Keys = {k1, k2, k3}
    Capacity = 2
    Ops = {"GetOrAdd", "Get"}
    MaxIoErrors = 0
SPECIFICATION Spec
INVARIANT IdsUnique
