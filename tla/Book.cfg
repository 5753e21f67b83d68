SPECIFICATION FairSpec
CONSTANTS
    MaxVersion = 6
    MaxWire = 2
    MaxCommits = 2
    Throttled = TRUE
    RestFails = TRUE
    Rotates = TRUE
    None = None
INVARIANT VersionLabelsBook
INVARIANT SubscribedIsHeard
PROPERTY HandOverWithoutHoles
PROPERTY BootstrapEnds
CHECK_DEADLOCK FALSE
