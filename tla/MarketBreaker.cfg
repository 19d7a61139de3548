CONSTANTS
    Source <- MCSource
    Rate <- MCRate
    Capacity <- MCCapacity
    Cost = 1
    None = None
    Session = {s1, s2}
    Crypto = {btc}
    Equity = {}
    Tool = {"quote", "candles", "orderbook"}
    HasKey = FALSE
    QuoteTTL = 1
    Outages = TRUE
    RedisFails = TRUE
    Threshold = 3
    ResetAfter = 2
    AgeCap = 2
    s1 = s1
    s2 = s2
    btc = btc
SPECIFICATION FairSpec
INVARIANTS
    OpenedByFailures
    ConsecutiveFailuresOpen
PROPERTIES
    QuotesRecover
