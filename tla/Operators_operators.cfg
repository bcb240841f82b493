SPECIFICATION Spec
SYMMETRY Symmetric
CONSTANTS
    p = p
    q = q
    a = a
    b = b
    Openers <- Two
    None = None
    Operators <- Two
    Pids <- TwoOthers
    Configurations <- Pages
    Invalid = Invalid
    MaxEdits = 2
    MaxCommands = 2
    NoFile = NoFile
    Unreadable = Unreadable
    Planners <- Two
    Watched <- OneMonitor
    MaxTime = 3
    MaxPlanned = 2
    NoMonitor = NoMonitor
    Movers <- Two
    Adders <- OneAdder
    Tenants <- TwoOthers
    NoTenant = NoTenant
    MaxWrites = 2
INVARIANTS
    TypeOK
    OpenedStoreIsCurrent
    DaemonIsNamed
    ReloadIsApplied
    OverlapIsRaced
    MigrationIsWhole
CHECK_DEADLOCK FALSE
