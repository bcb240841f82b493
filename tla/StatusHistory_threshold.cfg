CONSTANTS
    MaxFailures = 2
    Threshold = 2
    Scenarios <- AbsencesOrUpgrade
    MaxWindows = 1
    DayLengths <- TwoDays

SPECIFICATION Spec
CHECK_DEADLOCK FALSE

INVARIANTS
    DowntimeReachesThreshold
