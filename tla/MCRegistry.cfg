SPECIFICATION FairSpec
CONSTANTS
    Sessions = {s1, s2}
    Handlers = {h1, h2}
    IdleTTL = 2
    MaxLag = 2
    None = None
INVARIANTS
    OneCloser
    SweepSparesActive
    KeptUntilExpiry
PROPERTIES
    AbandonedIsReaped
