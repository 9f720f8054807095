---------------------------- MODULE MCLocalCache ----------------------------
EXTENDS LocalCache, TLC

CONSTANTS o1, o0

\* o1 carries a two-byte body, so a crash can leave it one byte short;
\* o0 is an empty body, served from data/_empty.output.
MCOutSize == (o1 :> 2) @@ (o0 :> 0)

MCSymmetry == Permutations(Procs) \cup Permutations(Actions)
=============================================================================
