\* No faults: a compaction replaces the reader while a get holds an entry.
CONSTANTS
    Keyspaces = {k1}
    Getters = {g1}
    v0 = v0
    vb = vb
    v1 = v1
    v2 = v2
    Versions = {v0, vb, v1, v2}
    Broken = {vb}
    InitRemote = {v0}
    InitLocal = {v0}
    Faults = FALSE
    Timers = {t1, t2}
    None = None
SPECIFICATION Spec
INVARIANT EntryUsable
CHECK_DEADLOCK FALSE
