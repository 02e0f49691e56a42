SPECIFICATION AsyncSpec
CONSTANTS
    Requests = {r1, r2}
    Closers = {k1, k2}
    MaxCalls = 4
    MaxInstances = 3
    None = None
SYMMETRY AsyncSymmetry
INVARIANTS OwnedOrLost CleanupIsComplete
PROPERTIES KeepsContract
CHECK_DEADLOCK FALSE
