SPECIFICATION FairSpec
CONSTANTS
    Numbers <- MCNumbers
    Flags <- MCFlags
    Requests <- MCRequests
    MaxSent = 3
    MaxReplies = 4
INVARIANTS
    TypeOK
    OneReplyEach
    RefusedPacketBlocks
PROPERTIES
    ConversationKept
    LinesGetThrough
CHECK_DEADLOCK FALSE
