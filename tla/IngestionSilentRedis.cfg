CONSTANTS
    MaxTrade = 2
    MaxBurst = 2
    Attempts = 1
    Crashes = FALSE
    None = None
SPECIFICATION FairSpec
CHECK_DEADLOCK FALSE
PROPERTIES
    SettlesWithoutRedis
