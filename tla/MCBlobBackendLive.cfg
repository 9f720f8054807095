\* Two goroutines, two ActionIDs, one upload worker, Close.  Puts of a1 and
\* a2 carry the same non-empty body; Gets ask for a1.  The upload of one
\* ActionID waits in the pool's queue while the other's runs.  a1 starts
\* in the archive only or in the bucket only.
CONSTANTS
    Procs = {p1, p2}
    Actions = {a1, a2}
    Outputs = {o1, o0}
    o1 = o1
    o2 = o2
    o0 = o0
    a1 = a1
    a2 = a2
    PutOutputs <- MCOneOutput
    OutSize <- MCOutSize
    PoolSize = 1
    GetActions = {a1}
    Tiers <- MCOneTier
    None = None
    Absent = Absent
SPECIFICATION Spec
INVARIANT TypeOK
PROPERTY EveryCallReturns
PROPERTY FlightsEnd
