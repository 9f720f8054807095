CONSTANTS
    Procs = {p1, p2}
    Actions = {a1, a2}
    Outputs = {o1, o0}
    o1 = o1
    o0 = o0
    OutSize <- MCOutSize
    MaxCrashes = 1
    None = None
    Absent = Absent
    Garbage = Garbage
SPECIFICATION Spec
INVARIANT ServableWithoutCrash
PROPERTY EveryRequestAnswered
