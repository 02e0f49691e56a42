SPECIFICATION Spec
CONSTANTS
    RestartLimit = 3
    RestartWindow = 24
    Cooldown = 12
    FirstDelay = 1
    LongestDelay = 3
    Uptimes = {0, 1, 7, 24}
    Horizon = 75
INVARIANTS
    WindowIsExact
    RateIsBounded
CHECK_DEADLOCK FALSE
