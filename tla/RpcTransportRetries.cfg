\* One client whose calls and retransmissions may reach two server processes.
SPECIFICATION FairSpec
CONSTANTS
    c1 = c1
    c2 = c2
    None = None
    Clients <- OneClient
    NumServers = 2
    MaxID = 2
    MaxBoots = 1
    Unstable <- NoClients
    MaxTries = 2
    MaxServerAge = 3
    NetBound = 2
    Broadcasters <- NoClients
    NegAcks = TRUE
    ServersMaxed = TRUE
PROPERTIES AtMostOnceCalls CallReturns
CHECK_DEADLOCK FALSE
