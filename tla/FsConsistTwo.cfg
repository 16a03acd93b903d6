\* Three opens by two workstations, one of which may crash or answer late.
SPECIFICATION FairSpec
CONSTANTS
    c1 = c1
    c2 = c2
    p1 = p1
    p2 = p2
    None = None
    Server = Server
    Clients = {c1, c2}
    Procs = {p1, p2}
    Host <- TwoHosts
    MaxOpens = 3
    Crashes = {c2}
    Slow = {c2}
    DiskFull = TRUE
INVARIANTS
    TypeOK
    NoSharedCaching
    DirtyIsRemembered
    NoLostUpdate
    ReadsLatest
    UseCountsMatch
PROPERTY OpenReturnsOrCycle
CHECK_DEADLOCK FALSE
