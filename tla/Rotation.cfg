SPECIFICATION Spec
CONSTANTS
    btc = btc
    a = a
    b = b
    gold = gold
    None = None
    Symbols = {btc, a, b, gold}
    Excluded = {gold}
    Initial = {btc, gold}
    Configured <- MCConfigured
    Listed <- MCListed
    Markets <- MCMarkets
    MinOi = 2
    MinVolume = 1
    MinSpread = 1
    MaxSpread = 5
    FundingCap = 2
    TopN = 2
    WatchN = 2
    Hysteresis = 2
    FlapThreshold = 2
    FlapWindow = 3
    Steps <- MCSteps
    Stable = 1
    Gaps = {1, 2}
    MaxTime = 15
    Traded = {a}
INVARIANT ListensAsDecided
PROPERTY SubscriptionsFollowTop
PROPERTY QuarantineDeserved
CHECK_DEADLOCK FALSE
