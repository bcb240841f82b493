CONSTANTS
    MonitorIncidents <- OneEach
    ObserverIncidents <- TheOther
    Providers <- TwoProviders
    Configurations <- TwoConfigurations
    Events <- AllEvents
    MaxFaults = 2

SPECIFICATION FairSpec
CHECK_DEADLOCK FALSE

INVARIANTS
    TypeOK
    AttemptsAreRecorded
    AttemptsAreNumbered
    ActionableIsUntold
PROPERTIES
    FailureIsSettled
    ImplementsDelivery
