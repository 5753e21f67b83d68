SPECIFICATION FairSpec
CONSTANTS
    Symbols = {s1, s2}
    Callers = {c1, c2}
    Tasks = {t1, t2}
    MaxRetry = 1
    PostOutcomes = {"filled", "slipped", "none", "runtime", "error"}
    DirectOutcomes = {"filled", "none", "error"}
    DbFails = TRUE
    Cancels = TRUE
    None = None
INVARIANT SingleFlight
INVARIANT ClosedRowIsFlat
INVARIANT TruthfulAnswer
PROPERTY EveryCallAnswered
