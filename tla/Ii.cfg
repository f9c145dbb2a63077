SPECIFICATION FairSpec
CONSTANTS
    Names <- MCNames
    Master = ""
    ServerLines = {"plain", "PING", "bob", "EOF"}
    MaxWrites = 2
    MaxReplies = 2
    MaxIdle = 2
    Capacity = 1
INVARIANTS
    TypeOK
    ListWalkable
    SentAsWritten
    PrintedWhereNamed
PROPERTY
    InputRead
CHECK_DEADLOCK FALSE
