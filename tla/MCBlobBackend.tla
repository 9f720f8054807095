---------------------------- MODULE MCBlobBackend ----------------------------
EXTENDS BlobBackend, TLC

CONSTANTS o1, o2, o0, a1, a2

\* two different bodies of one length, and the empty body
MCOutSize == [o \in Outputs |-> IF o = o0 THEN 0 ELSE 1]

Nothing == [a \in Actions |-> Absent]

\* an empty bucket and no archive
MCEmpty == {[remote |-> Nothing, ar |-> Nothing]}

\* a1 is only in the archive, or only in the bucket
MCOneTier == {[remote |-> Nothing, ar |-> [Nothing EXCEPT ![a1] = Honest(o1)]],
              [remote |-> [Nothing EXCEPT ![a1] = Honest(o1)], ar |-> Nothing]}

\* a Put of any ActionID may carry any body
MCAnyOutput == [a \in Actions |-> Outputs]

\* every Put carries the non-empty body
MCOneOutput == [a \in Actions |-> {o1}]

\* goroutines are interchangeable
MCSymmetry == Permutations(Procs)
=============================================================================
