SPECIFICATION Spec
CONSTANTS
    Bot <- MCBot
    Users <- MCUsers
    Words <- MCWords
INVARIANT
    JoinsBridged
CHECK_DEADLOCK FALSE
