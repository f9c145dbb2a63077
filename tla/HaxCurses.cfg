SPECIFICATION FairSpec
CONSTANTS
    Programs = {"haxcurses", "hyay3"}
    Cols = 30
    Lines = 3
    Width <- MCWidth
    FormTokens = {"host", "6667"}
    MaxForm = 5
    ChatTokens = {"/query", " bob"}
    Spaced = {" bob", " eve", " me"}
    MaxInput = 2
    MaxEnters = 2
    Me <- MCMe
    Posts <- MCPosts
    MaxPosts = 2
    Known <- MCKnown
    Capacity = 1
INVARIANTS
    TypeOK
    IndicesInBounds
    PromptTruthful
    ConversationsComplete
PROPERTIES
    SentWherePromptSaid
    ReceivedIsHandled
CHECK_DEADLOCK FALSE
