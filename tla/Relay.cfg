SPECIFICATION FairSpec
CONSTANTS
    Bot <- MCBot
    Users <- MCUsers
    Words <- MCWords
INVARIANT
    NoEcho
PROPERTY
    Bridged
CHECK_DEADLOCK FALSE
