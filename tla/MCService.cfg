SPECIFICATION FairSpec
CONSTANTS
    k1 = k1
    k2 = k2
    c1 = c1
    c2 = c2
    Keys <- MCKeys
    Routed <- MCOneKey
    Conns <- MCConns
    NoTask = NoTask
    MaxVersion = 2
    TaskSize = 2
    ValueSize = 1
    MaxBytes = 2
    Expiry = 0
    MaxKeys = 2
    MaxJobs = 2
    MaxTime = 1
INVARIANTS
    TypeOK
    Inv
    CacheMatchesLastJob
    JobsNeverGoBack
PROPERTIES
    FreshReadsRefined
    MonotonicReads
    EveryCommandAnswered
CHECK_DEADLOCK FALSE
