CONSTANTS
    MaxTrade = 3
    MaxBurst = 2
    Attempts = 1
    Crashes = TRUE
    None = None
    Second <- MCSecond
    MaxPoints = 2
    MaxShown = 2
SPECIFICATION FairSpec
INVARIANTS
    TypeOK
    GaplessWhileLive
    NeverGoesBack
    ListInOrder
PROPERTIES
    TicksAreShown
    ComesBack
