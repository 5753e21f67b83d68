SPECIFICATION Spec
CONSTANTS
    Callers = {c1, c2, c3}
    Symbols = {s1, s2}
    IpLimit = 2
    SymbolLimit = 1
    EmergencyLimit = 1
    NormalLimit = 2
    Threshold = 2
    HalfOpenTestMax = 1
    PacerMax = 2
    TokenAnswers = {TRUE, FALSE}
    Answers = {"ok", "429", "error"}
    MaxTimeouts = 1
    MaxCancels = 1
    None = None
INVARIANT PermitsAccounted
INVARIANT CircuitSound
SYMMETRY MCSymmetry
CHECK_DEADLOCK FALSE
