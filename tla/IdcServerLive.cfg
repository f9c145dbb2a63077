SPECIFICATION FairSpec
CONSTANTS
    c1 = c1
    c2 = c2
    c3 = c3
    alice = alice
    bob = bob
    hackers = hackers
    None = None
    Clients <- MCTalkers
    Users <- MCUsers
    Channels = {hackers}
    Members <- MCMembers
    MaxLines <- MCLiveLines
    MaxLeaves = 2
PROPERTIES
    QueueDrained
    HandlerReturns
