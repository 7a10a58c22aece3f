SPECIFICATION FairSpec
CONSTANTS
    Keys <- MCKeys
    Configs <- MCConfigs
    Answers <- MCAnswers
    IsUrl <- MCIsUrl
    JsonOf <- MCJsonOf
    MaxTemplate = 6
    Matches <- MCMatches
    Captures <- MCCaptures
    NoRoute = NoRoute
    Paths <- MCPathsSeen
    MaxLookups = 2
INVARIANTS
    GroupDecides
    MergedIsStanding
    AskedIsExpansion
PROPERTY MergeFinishes
CHECK_DEADLOCK FALSE
