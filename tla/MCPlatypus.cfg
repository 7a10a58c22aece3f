SPECIFICATION Spec
CONSTANTS
    k1 = k1
    k2 = k2
    c1 = c1
    Keys <- MCOneKey
    Routed <- MCOneKey
    Conns <- MCOneConn
    NoTask = NoTask
    Signals <- MCTerm
    MaxVersion = 2
    TaskSize = 2
    ValueSize = 1
    MaxBytes = 2
    Expiry = 0
    MaxKeys = 1
    MaxJobs = 2
    MaxTime = 0
    MaxFaults = 0
INVARIANTS
    TypeOK
    JoinedExitLosesNothing
    TargetNeverGoesBack
PROPERTIES
    WriterUsedAsSpecified
CHECK_DEADLOCK FALSE
