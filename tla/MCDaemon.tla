------------------------------ MODULE MCDaemon ------------------------------
EXTENDS Daemon

CONSTANTS c1, c2, c3, d1, d2, d3, d4

\* two go commands running prog, and an operator running daemon restart
MCKind == [c \in Clients |-> IF c = c3 THEN "restart" ELSE "prog"]

\* a lone daemon restart
MCRestartKind == [c \in Clients |-> "restart"]
=============================================================================
