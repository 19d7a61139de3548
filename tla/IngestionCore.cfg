CONSTANTS
    MaxTrade = 3
    MaxBurst = 2
    Attempts = 2
    Crashes = TRUE
    None = None
SPECIFICATION FairSpec
INVARIANTS
    TypeOK
    FeedInOrder
    PipelineOrder
    Accounted
PROPERTIES
    HistoryIsALog
    Settles
