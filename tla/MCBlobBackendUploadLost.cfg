\* One Put and Close: is the upload of a Put that returned success ever
\* turned away by Close?
CONSTANTS
    Procs = {p1}
    Actions = {a1}
    Outputs = {o1, o0}
    o1 = o1
    o2 = o2
    o0 = o0
    a1 = a1
    a2 = a2
    PutOutputs <- MCAnyOutput
    OutSize <- MCOutSize
    PoolSize = 1
    GetActions = {a1}
    Tiers <- MCEmpty
    None = None
    Absent = Absent
SPECIFICATION Spec
INVARIANT NoUploadDropped
