\* No failures: a last writer that only reads is told to invalidate.
SPECIFICATION Spec
CONSTANTS
    c1 = c1
    c2 = c2
    p1 = p1
    p2 = p2
    None = None
    Server = Server
    Clients = {c1, c2}
    Procs = {p1, p2}
    Host <- TwoHosts
    MaxOpens = 3
    Crashes = {}
    Slow = {}
    DiskFull = FALSE
INVARIANT DirtyDataSurvives
CHECK_DEADLOCK FALSE
