CONSTANTS
    home = home
    shop = shop
    Monitors <- OneMonitor
    Thresholds <- JustOne
    Delayed <- BothDelayed
    Events <- NoEvents
    MaxFailures = 2
    MaxAlerts = 2

SPECIFICATION Spec

INVARIANT
    NoTransitionUntold
