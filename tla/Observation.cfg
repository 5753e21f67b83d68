SPECIFICATION Spec
CONSTANTS
    None = None
    Target = 2
    MaxFaults = 4
INVARIANT FinalizedOnce
INVARIANT UncleanUntilLeft
PROPERTY EntryPermitted
PROPERTY LoopReacts
CHECK_DEADLOCK FALSE
