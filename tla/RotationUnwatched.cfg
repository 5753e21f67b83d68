SPECIFICATION Spec
CONSTANTS
    btc = btc
    a = a
    b = b
    gold = gold
    None = None
    Symbols = {btc, a, b, gold}
    Excluded = {gold}
    Initial = {btc, gold}
    Configured <- MCConfigured
    Listed <- MCListed
    Markets <- MCMarkets
    MinOi = 2
    MinVolume = 1
    MinSpread = 1
    MaxSpread = 5
    FundingCap = 2
    TopN = 2
    WatchN = 3
    Hysteresis = 1
    FlapThreshold = 2
    FlapWindow = 6
    Steps <- MCSteps
    Stable = 3
    Gaps = {1}
    MaxTime = 10
    Traded = {a, b}
PROPERTY HeldStaysSubscribed
CHECK_DEADLOCK FALSE
