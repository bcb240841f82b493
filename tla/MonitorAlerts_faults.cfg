CONSTANTS
    home = home
    shop = shop
    Monitors <- OneMonitor
    Thresholds <- TwoThresholds
    Delayed <- BothDelayed
    Events <- AllEvents
    MaxFailures = 2
    MaxAlerts = 3

SPECIFICATION Spec

INVARIANTS
    TypeOK
    PendingTellsStoredStatus
    SentAtMostOnce
    SnapshotIsFresh
    DownIsNotifiedByMessage
PROPERTY
    ClaimedIsNotForgotten
