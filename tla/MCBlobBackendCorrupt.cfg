\* Two Puts of one ActionID with a non-empty and an empty body: is every
\* object the uploads store well formed?
CONSTANTS
    Procs = {p1, p2}
    Actions = {a1}
    Outputs = {o1, o0}
    o1 = o1
    o2 = o2
    o0 = o0
    a1 = a1
    a2 = a2
    PutOutputs <- MCAnyOutput
    OutSize <- MCOutSize
    PoolSize = 1
    GetActions = {a1}
    Tiers <- MCEmpty
    None = None
    Absent = Absent
SPECIFICATION Spec
INVARIANT RemoteWellFormed
SYMMETRY MCSymmetry
