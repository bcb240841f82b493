CONSTANTS
    shop = shop
    FailureThreshold = 2
    RecoveryThreshold = 2
    Limit = 2
    Interval = 2
    IncidentInterval = 1
    Monitors <- OneMonitor
    Scenarios <- RowAndGuard
    MaxTime = 5
    MaxChecks = 5
    MaxSamples = 3
    MaxRestarts = 1
    Backends <- BothBackends
    Policies <- TwoPolicies
    Outcomes <- ManyOutcomes
    Minute = 2
    Hour = 2
    Day = 4
    MaxProbes = 3
    LastTime = 7
    MaxLate = 1

SPECIFICATION PartSpec
CHECK_DEADLOCK FALSE

INVARIANTS
    TypeOK
    StatusTellsChecks
    IncidentsTellStatus
    GuardTellsSamples
    RollupTypeOK
    CountedOnce
    RunsAreKept
    WindowCountsAreClose
