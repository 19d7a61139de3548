CONSTANTS
    Source <- MCSource
    Rate <- MCRate
    Capacity <- MCCapacity
    Cost = 2
    None = None
    Session = {s1, s2}
    Crypto = {btc}
    Equity = {}
    Tool = {"quote", "candles", "orderbook"}
    HasKey = FALSE
    QuoteTTL = 1
    Outages = TRUE
    RedisFails = FALSE
    MaxWindow = 5
    Threshold = 2
    ResetAfter = 2
    AgeCap = 4
    s1 = s1
    s2 = s2
    btc = btc
SPECIFICATION BudgetSpec
SYMMETRY SessionSymmetry
INVARIANTS
    BudgetTypeOK
    BreakerConsistent
    NeverOverBudget
    NothingForfeited
    UpstreamWithinBudget
PROPERTIES
    ImplementsRateWindow
