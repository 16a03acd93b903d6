\* A peer with three incarnations: a client of this kernel, or its file server.
SPECIFICATION FairSpec
CONSTANTS
    s1 = s1
    s2 = s2
    h1 = h1
    h2 = h2
    u1 = u1
    u2 = u2
    Servers = {s1}
    Handles = {h1}
    Users = {u1}
    MaxBoots = 3
    MaxTimeouts = 1
INVARIANTS TypeOK FlagsAccounted
PROPERTIES ServedAfterCleanup ServerResumes HandlesRecovered WaitersReleased
CHECK_DEADLOCK FALSE
