\* No crash: a close breaks one of two shared locks.
SPECIFICATION Spec
CONSTANTS
    p1 = p1
    p2 = p2
    p3 = p3
    c1 = c1
    c2 = c2
    None = None
    Procs = {p1, p2, p3}
    Clients = {c1, c2}
    Host <- MCHost
    MaxLocks = 3
    Crashes = {}
INVARIANT ExclusiveWaitsForShared
CHECK_DEADLOCK FALSE
