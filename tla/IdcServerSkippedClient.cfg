SPECIFICATION Spec
CONSTANTS
    c1 = c1
    c2 = c2
    c3 = c3
    alice = alice
    bob = bob
    hackers = hackers
    None = None
    Clients <- MCClients
    Users <- MCUsers
    Channels = {hackers}
    Members <- MCMembers
    MaxLines <- MCMaxLines
    MaxLeaves = 1
INVARIANT SentToAllConnectedClients
