SPECIFICATION Spec
CONSTANTS
    Second = 3
    Month = 2
    Ttls <- MCTtls
    Expiry = 3
    MaxLatency = 1
    MaxDelay = 1
    MaxQueue = 2
    MaxVersion = 2
    MaxTime = 12
INVARIANTS
    TypeOK
    StaleForTtlOnly
    UnusedIsForgotten
PROPERTY SourceIsSpared
CHECK_DEADLOCK FALSE
