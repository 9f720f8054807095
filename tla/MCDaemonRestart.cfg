\* A daemon restart of a serving daemon, with no faults and no timeouts.
CONSTANTS
    c1 = c1  c2 = c2  c3 = c3  d1 = d1  d2 = d2  d3 = d3  d4 = d4
    Clients = {c1}
    Kind <- MCRestartKind
    Daemons = {d1, d2}
    Reqs = 1
    Faults = FALSE
    Timeouts = FALSE
    None = None
SPECIFICATION Spec
INVARIANT RestartSucceeds
CHECK_DEADLOCK FALSE
