\* Two folds over two symbols that share one slot.
CONSTANTS
    btc = btc
    eth = eth
    SymbolOrder <- MCOrder
    TsTo = 14
    Rows <- MCRows
    NoRow = NoRow
    Unread = Unread
    TrainLen = 6
    TestLen = 4
    StepLen = 4
    CandleSec = 2
    CandleCap = 3
    AtrPeriod = 1
    MaxSlPct = 10
    MinSlPct = 5
    TpRMultiple = 2
    Slippage = 1
    InitialEquity = 3
    FeeTaker = 1
    FeeMaker = 0
    IncludeFunding = TRUE
    FundingPeriod = 4
    MaxPositionsPerSymbol = 1
    MaxPositionsGlobal = 1
    SweepLookback = 1
    WickPct = 20
    MssLookback = 1
    FvgMinBp = 5
    OteLookback = 1
    OteLow = 62
    OteHigh = 79
    Required = {"mss"}
    EntryWindow = 1
    Cooldown = 3
    MinWhaleTrust = 0
    DropCap = 3
    None = None
SPECIFICATION Spec
INVARIANT NoMissedExit
INVARIANT SignalsAccounted
INVARIANT FundingFollowsTape
INVARIANT ReportMatchesCurve
INVARIANT FoldsAccounted
PROPERTY AccountSteps
CHECK_DEADLOCK FALSE
