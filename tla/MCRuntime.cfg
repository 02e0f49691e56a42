SPECIFICATION FairSpec
CONSTANTS
    Clients = {c1, c2}
    MaxLaunches = 2
    HealthFailures = 2
    None = None
INVARIANTS
    TypeOK
    OneLiveChild
    RunningIsBacked
    ClosedIsQuiet
    ReplacedWithCause
    ReplacedInstanceIsGone
    ShutdownCompletes
PROPERTIES
    NoRevival
    ImplementsService
    StopLeadsToClosed
    DemandIsServed
    DeadInstanceIsWithdrawn
