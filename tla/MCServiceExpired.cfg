SPECIFICATION Spec
CONSTANTS
    k1 = k1
    k2 = k2
    c1 = c1
    c2 = c2
    Keys <- MCOneKey
    Routed <- MCOneKey
    Conns <- MCConns
    NoTask = NoTask
    MaxVersion = 2
    TaskSize = 2
    ValueSize = 1
    MaxBytes = 4
    Expiry = 1
    MaxKeys = 1
    MaxJobs = 3
    MaxTime = 2
PROPERTIES
    ExpiredNotServed
CHECK_DEADLOCK FALSE
