SPECIFICATION Spec
CONSTANTS
    Clients = {c1}
    MaxLaunches = 1
    HealthFailures = 1
    None = None
INVARIANTS
    ShutdownReturnsClosed
