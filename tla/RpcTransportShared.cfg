\* A client that may reboot and one that does not compete for a server process.
SPECIFICATION Spec
CONSTANTS
    c1 = c1
    c2 = c2
    None = None
    Clients <- TwoClients
    NumServers = 1
    MaxID = 2
    MaxBoots = 2
    Unstable <- OneClient
    MaxTries = 2
    MaxServerAge = 1
    NetBound = 1
    Broadcasters <- OneClient
    NegAcks = FALSE
    ServersMaxed = FALSE
INVARIANTS TypeOK RequestStable
PROPERTY AtMostOnceCalls
CHECK_DEADLOCK FALSE
