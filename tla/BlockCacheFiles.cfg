\* Two processes, three operations, two failed reads or writes.
SPECIFICATION Spec
CONSTANTS
    f1 = f1
    d1 = d1
    p1 = p1
    p2 = p2
    b1 = b1
    b2 = b2
    Nil = Nil
    Server = Server
    Procs = {p1, p2}
    Files = {f1, d1}
    Meta = {d1}
    Keys <- MCKeys
    Blocks = {b1, b2}
    MaxCleaners = 1
    MinAvail = 0
    MinBlocks = 0
    Calls <- MCCalls
    MaxFaults = 2
    MaxOps = 3
SYMMETRY MCAlike
INVARIANTS TypeOK CountsExact NothingLost SleepersWoken
CHECK_DEADLOCK FALSE
