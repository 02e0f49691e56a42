SPECIFICATION Spec
CONSTANTS
    Clients = {c1}
    MaxLaunches = 2
    HealthFailures = 1
    None = None
INVARIANTS
    OldChildExitedFirst
