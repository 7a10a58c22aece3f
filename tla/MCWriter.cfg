SPECIFICATION FairSpec
CONSTANTS
    k1 = k1
    k2 = k2
    Keys <- MCKeys
    MaxVersion = 1
    MaxJobs = 3
    MaxFaults = 2
INVARIANTS
    TypeOK
    TargetIsLastApplied
    DoneMeansDrained
    ReconnectCostsOneJob
PROPERTIES
    DeliveryRefined
    EveryJobAttempted
    ShutdownCompletes
CHECK_DEADLOCK FALSE
