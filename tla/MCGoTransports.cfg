SPECIFICATION EitherFairSpec
CONSTANTS
    Requests = {r1, r2, r3}
    Closers = {k1, k2}
    None = None
INVARIANTS OneRebuild NoSessionForgotten
PROPERTIES KeepsContract NoStaleFailure ComesToRest
CHECK_DEADLOCK FALSE
