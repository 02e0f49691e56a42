SPECIFICATION Spec
CONSTANTS
    Requests = {r1, r2}
    Closers = {k1, k2}
    MaxCalls = 3
    MaxInstances = 2
    None = None
SYMMETRY TransportSymmetry
CHECK_DEADLOCK FALSE
INVARIANTS
    RunsAtMostOnce
    OneOwner
    RetiredIsReady
    CloseIsComplete
PROPERTIES
    KeepsContract
