\* One client: a retransmission meets the process that was busy before; no close probes.
SPECIFICATION Spec
CONSTANTS
    c1 = c1
    c2 = c2
    None = None
    Clients <- OneClient
    NumServers = 2
    MaxID = 2
    MaxBoots = 1
    Unstable <- NoClients
    MaxTries = 3
    MaxServerAge = 2
    NetBound = 2
    Broadcasters <- NoClients
    NegAcks = TRUE
    ServersMaxed = FALSE
INVARIANT NewIDIsNewCall
CHECK_DEADLOCK FALSE
