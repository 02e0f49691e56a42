SPECIFICATION FairSpec
CHECK_DEADLOCK FALSE
INVARIANTS
    FatalWithReason
    GraceBeforeClose
PROPERTIES
    PublishedIsMine
    PipeEndsChild
    LaunchEnds
    StopEnds
