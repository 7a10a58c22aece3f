SPECIFICATION FairSpec
CONSTANTS
    k1 = k1
    k2 = k2
    c1 = c1
    c2 = c2
    Keys <- MCOneKey
    Routed <- MCOneKey
    Conns <- MCOneConn
    NoTask = NoTask
    MaxVersion = 2
    TaskSize = 2
    ValueSize = 1
    MaxBytes = 4
    Expiry = 0
    MaxKeys = 1
    MaxJobs = 2
    MaxTime = 0
PROPERTIES
    RefreshedInBackground
CHECK_DEADLOCK FALSE
