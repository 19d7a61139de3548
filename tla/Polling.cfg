SPECIFICATION PollingSpec
CONSTANTS
    Crypto = {btc}
    Equity = {aapl}
    Fast = 1
    Slow = 2
    Price = {0, 1}
    MaxHistory = 2
    MaxPolls = 4
    MaxCuts = 2
    None = None
INVARIANTS
    SeriesKeepUp
    SignalsAreTheCrosses
CHECK_DEADLOCK FALSE
