SPECIFICATION EitherFairSpec
CONSTANTS
    Requests = {r1, r2}
    Closers = {k1, k2}
    MaxInstances = 1
    MaxCalls = 3
    None = None
CHECK_DEADLOCK FALSE
PROPERTIES
    RequestsEnd
    ClosesEnd
    CleanupSurvivesWaiters
