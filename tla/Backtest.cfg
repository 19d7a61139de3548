CONSTANTS
    Fast = 2
    Slow = 3
    OrderSize = 1
    Price <- MCPrice
    MaxTrades = 6
    None = None
    MaxShown = 4
    Time <- MCTime
SPECIFICATION ReplaySpec
CHECK_DEADLOCK FALSE
INVARIANTS
    Exposure
    FillsAreTheCrosses
    PageAgrees
    ReplayedInTime
