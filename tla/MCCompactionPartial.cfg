CONSTANTS
    a1 = a1  a2 = a2  o1 = o1  o2 = o2  w1 = w1  w2 = w2
    Actions = {a1, a2}
    Outputs = {o1, o2}
    OutSize <- MCOutSize
    Workers = {w1, w2}
    AtLeastAdd = 1
    Faults = FALSE
    Closing = TRUE
    None = None
    Absent = Absent
INIT MCConsistentInit
NEXT Next
INVARIANT KeepsLiveEntries
CHECK_DEADLOCK FALSE
