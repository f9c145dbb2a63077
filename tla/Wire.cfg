SPECIFICATION Spec
CONSTANTS
    Inputs <- MCInputs
    Me <- MCMe
    Passwords <- MCPasswords
    ChannelNames <- MCChannels
INVARIANTS
    TypeOK
    NoSeparatorSent
    ClientsAgree
    NothingHeldBack
PROPERTY
    ImplementsLineStream
