SPECIFICATION FairSpec
CONSTANTS
    Me <- MCMe
    Commands <- MCCommands
    MaxTyped = 4
    Replies <- MCReplies
    MaxLines = 1
    MaxLosses = 1
INVARIANTS
    TypeOK
    OneReader
    SentInOrder
    WelcomedFirst
    ReadAsTyped
PROPERTY
    LeavesWithClient
CHECK_DEADLOCK FALSE
