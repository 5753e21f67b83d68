SPECIFICATION FairSpec
CONSTANTS
    MaxEvents = 4
    MaxCount = 2
    Keys = {k1}
    Drainers = {loop, direct}
    Loop = loop
    BatchSize = 2
    RetryMax = 2
    FailThreshold = 2
    Crashes = TRUE
    Watched = 3
    None = None
INVARIANT OneSender
INVARIANT NothingForgotten
PROPERTY SettledIsFixed
PROPERTY CriticalSettles
CHECK_DEADLOCK FALSE
