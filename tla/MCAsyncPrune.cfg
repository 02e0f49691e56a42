SPECIFICATION AsyncSpec
CONSTANTS
    Requests = {r1, r2}
    Closers = {}
    MaxCalls = 3
    MaxInstances = 3
    None = None
INVARIANT OneOwner
CHECK_DEADLOCK FALSE
