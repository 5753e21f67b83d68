\* One symbol, both directions, funding is charged, no faults.
CONSTANTS
    Symbols = {btc}
    MaxTime = 9
    MaxLag = 1
    CandleSec = 2
    AtrPeriod = 1
    CandleCap = 2
    MaxPositionsGlobal = 1
    MaxPositionsPerSymbol = 1
    StalePrice = 1
    InitialEquity = 10
    Slippage = 1
    SlDistances = {2}
    TpRMultiple = 2
    FeeTaker = 1
    FeeMaker = 0
    IncludeFunding = TRUE
    FundingPeriod = 3
    FundingRates = {1}
    Directions = {"LONG", "SHORT"}
    TickPrices = {0, 10}
    Bars <- MCRiseBars
    Faults = {}
    None = None
SPECIFICATION Spec
INVARIANT NoMissedExit
INVARIANT ExitAfterEntryBucket
INVARIANT DrainedIsFlat
CHECK_DEADLOCK FALSE
