\* Two progs and a restart, an initial daemon or none, four daemon
\* processes (one per spawn and the initial one), failing Open and stats
\* saves, and the clients' timeouts.
CONSTANTS
    c1 = c1  c2 = c2  c3 = c3  d1 = d1  d2 = d2  d3 = d3  d4 = d4
    Clients = {c1, c2, c3}
    Kind <- MCKind
    Daemons = {d1, d2, d3, d4}
    Reqs = 1
    Faults = TRUE
    Timeouts = TRUE
    None = None
SPECIFICATION Spec
INVARIANT ExclusiveWorkDir
PROPERTY CommandsReturn
CHECK_DEADLOCK FALSE
