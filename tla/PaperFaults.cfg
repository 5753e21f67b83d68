\* Two symbols share one slot; writes fail, the process dies, and the operator
\* takes back the stop after a finalize.
CONSTANTS
    Symbols = {btc, eth}
    MaxTime = 4
    MaxLag = 0
    CandleSec = 1
    AtrPeriod = 1
    CandleCap = 2
    MaxPositionsGlobal = 1
    MaxPositionsPerSymbol = 1
    StalePrice = 1
    InitialEquity = 10
    Slippage = 1
    SlDistances = {2}
    TpRMultiple = 2
    FeeTaker = 1
    FeeMaker = 0
    IncludeFunding = FALSE
    FundingPeriod = 2
    FundingRates = {0}
    Directions = {"LONG"}
    TickPrices = {10}
    Bars <- MCWideBar
    Faults = {"write", "crash", "resume"}
    None = None
SPECIFICATION Spec
INVARIANT MemoryBackedByDb
INVARIANT OpenRowsAreWatched
INVARIANT LimitSurvivesRestart
INVARIANT RecordsMatchRows
PROPERTY AccountSpec
SYMMETRY MCSymmetry
CHECK_DEADLOCK FALSE
