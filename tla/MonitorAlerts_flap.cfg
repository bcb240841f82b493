CONSTANTS
    home = home
    shop = shop
    Monitors <- OneMonitor
    Thresholds <- OneThreshold
    Delayed <- BothDelayed
    Events <- NoEvents
    MaxFailures = 2
    MaxAlerts = 2

SPECIFICATION Spec

PROPERTY
    RecoveryCancelledByOutage
