CONSTANTS
    s1 = s1
    s2 = s2
    b1 = b1
    b2 = b2
    Saves <- TwoSaves
    Backfills <- TwoBackfills
    Beginnings <- FreshOrOld
    MaxFailures = 2
    Threshold = 2
    MaxProbes = 3
    MaxReloads = 1

SPECIFICATION Spec
SYMMETRY Symmetry
CHECK_DEADLOCK FALSE

INVARIANTS
    TypeOK
    NoWaitCycle
    RebuildNeverConflicts
PROPERTY
    CommitsAreAtomic
