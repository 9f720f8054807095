----------------------------- MODULE MCCacheProg -----------------------------
EXTENDS CacheProg

\* put 1 with a body of two lines, a get, an unknown command, put 4 with
\* an empty body, then close.
MCInput == <<[cmd |-> "put", id |-> 1, chunks |-> 2],
             [cmd |-> "get", id |-> 2, chunks |-> 0],
             [cmd |-> "unknown", id |-> 3, chunks |-> 0],
             [cmd |-> "put", id |-> 4, chunks |-> 0],
             [cmd |-> "close", id |-> 5, chunks |-> 0]>>
=============================================================================
