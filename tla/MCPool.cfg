SPECIFICATION FairSpec
CONSTANTS
    Connections <- MCConnections
    Threads <- MCThreads
    MaxSize <- MCMaxSize
    MinIdle <- MCMinIdle
    MaxCalls = 4
INVARIANTS
    Accounted
    NeverShort
PROPERTY GetReturns
CHECK_DEADLOCK FALSE
