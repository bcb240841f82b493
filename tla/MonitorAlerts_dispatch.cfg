CONSTANTS
    home = home
    shop = shop
    Monitors <- TwoMonitors
    Thresholds <- OneThreshold
    Delayed <- NoDelay
    Events <- OnlyProbing
    MaxFailures = 2
    MaxAlerts = 3

SPECIFICATION PartSpec

INVARIANTS
    NoTransitionUntold
    InFlightIsCurrent
PROPERTY
    DelayedIsSettled
