\* Every fault on: stdin reads may fail, the Go command may exit, and a put
\* handler may return before reading its body.  Run stops by design once it
\* has returned, and readLoop may block for good, so deadlock is not an error.
CONSTANTS
    Input <- MCInput
    ReadErrors = TRUE
    GoExits = TRUE
    EarlyReturn = TRUE
    None = None
SPECIFICATION Spec
CHECK_DEADLOCK FALSE
INVARIANT TypeOK
INVARIANT AnsweredBeforeReturn
PROPERTY EveryRequestAnswered
PROPERTY RunReturnsUnlessAbandoned
PROPERTY NoHandlerAfterReturn
