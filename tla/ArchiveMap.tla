----------------------------- MODULE ArchiveMap -----------------------------
(***************************************************************************)
(* What the archive store promises its users (spec section 4.4): per      *)
(* keyspace, the archive served to readers is swapped atomically for      *)
(* another archive that opened successfully and was offered to the store  *)
(* (it was in the bucket, on local disk, or handed to ingestNewArchive);  *)
(* a keyspace once served is never unserved.  The bucket's archive        *)
(* changes independently (last writer wins).                              *)
(***************************************************************************)
CONSTANTS Keyspaces, Versions, Broken, None

VARIABLES current, remote, offered

vars == <<current, remote, offered>>

Init ==
    /\ current = [k \in Keyspaces |-> None]
    /\ offered \in [Keyspaces -> SUBSET Versions]
    /\ remote \in [Keyspaces -> Versions \cup {None}]
    /\ \A k \in Keyspaces : remote[k] # None => remote[k] \in offered[k]

\* an archive is handed to the store, or appears in the bucket
Offer(k, v) ==
    /\ offered' = [offered EXCEPT ![k] = @ \cup {v}]
    /\ UNCHANGED <<current, remote>>

Publish(k, v) ==
    /\ remote' = [remote EXCEPT ![k] = v]
    /\ offered' = [offered EXCEPT ![k] = @ \cup {v}]
    /\ UNCHANGED current

\* readers now get archive v of keyspace k
Install(k, v) ==
    /\ v \in offered[k] \ Broken
    /\ current' = [current EXCEPT ![k] = v]
    /\ UNCHANGED <<remote, offered>>

Next == \E k \in Keyspaces, v \in Versions : Offer(k, v) \/ Publish(k, v) \/ Install(k, v)

Spec == Init /\ [][Next]_vars
=============================================================================
