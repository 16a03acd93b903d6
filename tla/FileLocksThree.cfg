\* Three processes on two workstations, one of which may crash.
SPECIFICATION FairSpec
CONSTANTS
    p1 = p1
    p2 = p2
    p3 = p3
    c1 = c1
    c2 = c2
    None = None
    Procs = {p1, p2, p3}
    Clients = {c1, c2}
    Host <- MCHost
    MaxLocks = 3
    Crashes = {c1}
INVARIANTS
    TypeOK
    NoLostWakeup
    MutualExclusion
    OwnersMatchFlags
PROPERTY LockReturns
CHECK_DEADLOCK FALSE
