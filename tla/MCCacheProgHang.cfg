\* A put handler that returns without reading its body (daemon unreachable,
\* client timeout, server rejecting the request): does Run still return?
CONSTANTS
    Input <- MCInput
    ReadErrors = FALSE
    GoExits = FALSE
    EarlyReturn = TRUE
    None = None
SPECIFICATION Spec
CHECK_DEADLOCK FALSE
PROPERTY RunReturns
