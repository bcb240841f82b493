CONSTANTS
    shop = shop
    FailureThreshold = 2
    RecoveryThreshold = 2
    Limit = 2
    Interval = 2
    IncidentInterval = 1
    Monitors <- OneMonitor
    Scenarios <- OutageAndDisable
    MaxTime = 5
    MaxChecks = 5
    MaxSamples = 3
    MaxRestarts = 1

SPECIFICATION Spec
CHECK_DEADLOCK FALSE

PROPERTY SuppressedOnlyWhileWatched
