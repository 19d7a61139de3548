CONSTANTS
    MaxTrade = 3
    MaxMessage = 2
    MaxBackoff = 5
    MaxDrops = 4
    Attempts = 1
    Crashes = TRUE
    None = None
SPECIFICATION FairServiceSpec
INVARIANTS
    TypeOK
    NoGapInSubscription
    BackoffSchedule
    ReceivedIsAccounted
PROPERTIES
    QueueIsALog
    ImplementsCore
    Resubscribes
