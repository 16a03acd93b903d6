SPECIFICATION Spec
CONSTANTS
    u1 = u1
    u2 = u2
    k1 = k1
    f1 = f1
    s1 = s1
    s2 = s2
    m1 = m1
    m2 = m2
    m3 = m3
    m4 = m4
    Nil = Nil
    Users = {u1, u2}
    Consist = {k1}
    Walkers = {k1}
    Files = {f1}
    Streams = {s1, s2}
    Handles = {m1, m2, m3, m4}
    InitialLimit = 2
    LimitInc = 1
    MaxLimit = 3
SYMMETRY Alike
INVARIANTS TypeOK TableSound RefsAccounted SleepersAccounted
CHECK_DEADLOCK FALSE
