---------------------------- MODULE MCCompaction ----------------------------
EXTENDS Compaction, TLC

CONSTANTS a1, a2, o1, o2, w1, w2

\* o1 is an empty output (served by the archive fast path), o2 one byte
MCOutSize == (o1 :> 0) @@ (o2 :> 1)

\* a disk store that agrees with the bucket: every action file on disk holds
\* the EntryMeta of the bucket's object, and every body is whole
MCConsistentInit ==
    /\ Init
    /\ \A a \in Actions : ent[a] \in {Absent, obj[a]}
    /\ \A o \in Outputs : flen[o] \in {Absent, OutSize[o]}

MCSymmetry == Permutations({w1, w2})
=============================================================================
