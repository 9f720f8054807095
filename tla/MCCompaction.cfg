CONSTANTS
    a1 = a1  a2 = a2  o1 = o1  o2 = o2  w1 = w1  w2 = w2
    Actions = {a1, a2}
    Outputs = {o1, o2}
    OutSize <- MCOutSize
    Workers = {w1, w2}
    AtLeastAdd = 1
    Faults = TRUE
    Closing = TRUE
    None = None
    Absent = Absent
SPECIFICATION Spec
INVARIANT TypeOK
INVARIANT DoneClean
INVARIANT NoSendOnClosedChannel
PROPERTY ArchiveSealed
PROPERTY JobTerminates
CHECK_DEADLOCK FALSE
