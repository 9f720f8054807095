\* One keyspace, a get, a bucket and a disk that may hold a good or a
\* broken archive, one new archive from this machine's compaction or from
\* another machine, failing calls, and two stats timers.
CONSTANTS
    Keyspaces = {k1}
    Getters = {g1}
    v0 = v0
    vb = vb
    v1 = v1
    v2 = v2
    Versions = {v0, vb, v1, v2}
    Broken = {vb}
    InitRemote = {v0, vb}
    InitLocal = {v0, vb}
    Faults = TRUE
    Timers = {t1, t2}
    None = None
SPECIFICATION Spec
INVARIANT TypeOK
PROPERTY ArchiveMapRefined
INVARIANT ServedReaderOpen
INVARIANT PendingTimerLive
PROPERTY DeferredSaveRuns
CHECK_DEADLOCK FALSE
