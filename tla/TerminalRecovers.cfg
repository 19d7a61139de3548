CONSTANTS
    Source <- MCSource
    Rate <- MCRate
    Capacity <- MCCapacity
    Cost = 1
    None = None
    Session = {s1, s2}
    Auto = {s1}
    RefreshEvery = 1
    Crypto = {btc}
    Equity = {}
    Tool = {"candles", "orderbook"}
    HasKey = FALSE
    QuoteTTL = 0
    Outages = FALSE
    RedisFails = FALSE
    Threshold = 5
    ResetAfter = 3
    AgeCap = 1
    s1 = s1
    s2 = s2
    btc = btc
SPECIFICATION FairSpec
PROPERTIES
    CircuitRecovers
