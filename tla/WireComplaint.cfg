SPECIFICATION Spec
CONSTANTS
    Inputs <- MCRawInputs
    Me <- MCMe
    Passwords <- MCPasswords
    ChannelNames <- MCChannels
INVARIANT ComplaintReadable
