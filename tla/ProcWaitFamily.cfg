SPECIFICATION Spec
CONSTANTS
    r1 = r1
    p1 = p1
    a1 = a1
    Nil = Nil
    Procs = {r1, p1, a1}
    Roots = {r1}
    Away = {a1}
    MaxNotes = 2
SYMMETRY Alike
INVARIANTS TypeOK FamilySound NoLostExit
CHECK_DEADLOCK FALSE
