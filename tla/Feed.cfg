SPECIFICATION Spec
CONSTANTS
    t1 = t1
    t2 = t2
    None = None
    Tasks = {t1, t2}
    Prices = {1, 2, 3, 4}
    MaxBuffer = 3
    TrimBlock = 2
    Burst = 1
    Tapes <- MCTapes
    MaxConnects = 3
    MaxSnapshots = 3
    MaxQueue = 1
    FetchFails = TRUE
INVARIANT BookMatchesChanges
PROPERTY TrimKeepsBest
SYMMETRY MCSymmetry
CHECK_DEADLOCK FALSE
