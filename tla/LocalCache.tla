----------------------------- MODULE LocalCache -----------------------------
(***************************************************************************)
(* The on-disk cache of internal/cache/backends/local/local.go.            *)
(*                                                                         *)
(* The disk holds one action file per ActionID (the EntryMeta) and one     *)
(* output file per OutputID (the body).  Get and Put run in many           *)
(* goroutines (one per HTTP request, or per blob-backend call); each is    *)
(* de-duplicated by ActionID in its own single-flight group, so a Get and *)
(* a Put of the same ActionID run concurrently.  Every file-system call    *)
(* that another goroutine can observe is one step: store.get reads the     *)
(* action file, stats the output, and on a bad output removes the files;  *)
(* store.put renames the body into place, then the action file.           *)
(*                                                                         *)
(* No fsync is ever issued (local.go:264), so a machine crash may leave a  *)
(* renamed file short or missing; Crash models that restart.               *)
(***************************************************************************)
EXTENDS Naturals, FiniteSets

CONSTANTS
    Procs,        \* goroutines calling LocalBackend.Get / Put
    Actions,      \* ActionIDs
    Outputs,      \* OutputIDs
    OutSize,      \* OutSize[o]: length of the body whose OutputID is o
    MaxCrashes,   \* bound on machine crashes
    None,         \* model value: no goroutine / no OutputID
    Absent,       \* model value: no file at the path
    Garbage       \* model value: an action file EntryMeta cannot decode

VARIABLES
    actionFile,   \* actionFile[a]: EntryMeta record, Absent or Garbage
    outputFile,   \* outputFile[o]: length of the file on disk, or Absent
    closed,       \* LocalBackend.closed
    sfGet,        \* sfGet[a]: goroutine running store.get(a), or None
    sfPut,        \* sfPut[a]: goroutine running store.put(a), or None
    pc,           \* pc[p]: where goroutine p is
    req,          \* req[p]: the request p serves: [act, out]
    meta,         \* meta[p]: the EntryMeta store.get read from the action file
    resp,         \* resp[p]: the last response p returned
    committed,    \* ActionIDs whose Put returned success since the last crash
    crashes

vars == <<actionFile, outputFile, closed, sfGet, sfPut, pc, req, meta, resp,
          committed, crashes>>

EmptyPath == "empty"             \* data/_empty.output
FileLen == 0 .. (CHOOSE m \in {OutSize[o] : o \in Outputs} :
                        \A o \in Outputs : OutSize[o] <= m)
Meta == [out : Outputs, size : FileLen]
Resp == [kind : {"hit", "miss", "ok", "err", "none"},
         out : Outputs \cup {None}, size : FileLen, path : Outputs \cup {EmptyPath, None}]
R(k, o, s, pa) == [kind |-> k, out |-> o, size |-> s, path |-> pa]
NoResp == R("none", None, 0, None)
\* the path a response names for a body of size s with OutputID o
PathOf(o, s) == IF s = 0 THEN EmptyPath ELSE o

Init ==
    /\ actionFile = [a \in Actions |-> Absent]
    /\ outputFile = [o \in Outputs |-> Absent]
    /\ closed = FALSE
    /\ sfGet = [a \in Actions |-> None]
    /\ sfPut = [a \in Actions |-> None]
    /\ pc = [p \in Procs |-> "idle"]
    /\ req = [p \in Procs |-> [act |-> None, out |-> None]]
    /\ meta = [p \in Procs |-> None]
    /\ resp = [p \in Procs |-> NoResp]
    /\ committed = {}
    /\ crashes = 0

NoReq == [act |-> None, out |-> None]

(* Mutant: the group wakes only the goroutine that ran the call.          *)
EndFlightLeaderOnly(p, sf, joined, r) ==
    /\ pc' = [pc EXCEPT ![p] = "idle"]
    /\ resp' = [resp EXCEPT ![p] = r]
    /\ req' = [req EXCEPT ![p] = NoReq]
    /\ meta' = [meta EXCEPT ![p] = None]
    /\ sf' = [sf EXCEPT ![req[p].act] = None]

(* The flight of p ends: p and every goroutine that joined it return r.   *)
(* The single-flight group hands the one result to all callers.           *)
EndFlight(p, sf, joined, r) ==
    LET members == {p} \cup {q \in Procs : pc[q] = joined /\ req[q].act = req[p].act}
    IN /\ pc' = [q \in Procs |-> IF q \in members THEN "idle" ELSE pc[q]]
       /\ resp' = [q \in Procs |-> IF q \in members THEN r ELSE resp[q]]
       /\ req' = [q \in Procs |-> IF q \in members THEN NoReq ELSE req[q]]
       /\ meta' = [meta EXCEPT ![p] = None]
       /\ sf' = [sf EXCEPT ![req[p].act] = None]

(* A call starts: the goroutine's previous response is consumed.          *)
Begin(p, a, o, sf, joined, first) ==
    \/ /\ closed
       /\ resp' = [resp EXCEPT ![p] = R("err", None, 0, None)]
       /\ UNCHANGED <<pc, req, sf>>
    \/ /\ ~closed /\ sf[a] # None
       /\ pc' = [pc EXCEPT ![p] = joined]
       /\ req' = [req EXCEPT ![p] = [act |-> a, out |-> o]]
       /\ resp' = [resp EXCEPT ![p] = NoResp]
       /\ UNCHANGED sf
    \/ /\ ~closed /\ sf[a] = None
       /\ sf' = [sf EXCEPT ![a] = p]
       /\ pc' = [pc EXCEPT ![p] = first]
       /\ req' = [req EXCEPT ![p] = [act |-> a, out |-> o]]
       /\ resp' = [resp EXCEPT ![p] = NoResp]

-----------------------------------------------------------------------------
(* LocalBackend.Get (local.go:87-104): rejected when closed, joins a      *)
(* running flight for the ActionID, or leads a new one.                    *)
StartGet(p) ==
    /\ pc[p] = "idle"
    /\ \E a \in Actions : Begin(p, a, None, sfGet, "getJoined", "getOpen")
    /\ UNCHANGED <<actionFile, outputFile, closed, sfPut, meta, committed, crashes>>

(* store.get, local.go:141-168: open and decode the action file.  A       *)
(* missing file is a miss; an undecodable one an error, which Get turns   *)
(* into a miss; a zero-size entry is a hit on the shared empty output.    *)
GetOpen(p) ==
    LET a == req[p].act
        m == actionFile[a]
    IN /\ pc[p] = "getOpen"
       /\ \/ /\ m \in {Absent, Garbage}
             /\ EndFlight(p, sfGet, "getJoined", R("miss", None, 0, None))
          \/ /\ m \in Meta /\ m.size = 0
             /\ EndFlight(p, sfGet, "getJoined", R("hit", m.out, 0, EmptyPath))
          \/ /\ m \in Meta /\ m.size > 0
             /\ meta' = [meta EXCEPT ![p] = m]
             /\ pc' = [pc EXCEPT ![p] = "getStat"]
             /\ UNCHANGED <<resp, req, sfGet>>
       /\ UNCHANGED <<actionFile, outputFile, closed, sfPut, committed, crashes>>

(* Mutant: any existing output is pruned, the length test of            *)
(* local.go:180 left out of the prune condition.                         *)
GetStatPruneAny(p) ==
    LET m == meta[p] IN
    /\ pc[p] = "getStat"
    /\ \/ /\ outputFile[m.out] = m.size
          /\ EndFlight(p, sfGet, "getJoined", R("hit", m.out, m.size, m.out))
       \/ /\ outputFile[m.out] = Absent
          /\ pc' = [pc EXCEPT ![p] = "getPruneAction"]
          /\ UNCHANGED <<resp, req, meta, sfGet>>
       \/ /\ outputFile[m.out] # Absent
          /\ pc' = [pc EXCEPT ![p] = "getPruneBoth"]
          /\ UNCHANGED <<resp, req, meta, sfGet>>
    /\ UNCHANGED <<actionFile, outputFile, closed, sfPut, committed, crashes>>

(* local.go:169-199: stat the output; a body of the recorded length is a  *)
(* hit (markRecentlyUsed only touches mtimes), anything else is pruned.   *)
GetStat(p) ==
    LET m == meta[p] IN
    /\ pc[p] = "getStat"
    /\ \/ /\ outputFile[m.out] = m.size
          /\ EndFlight(p, sfGet, "getJoined", R("hit", m.out, m.size, m.out))
       \/ /\ outputFile[m.out] = Absent
          /\ pc' = [pc EXCEPT ![p] = "getPruneAction"]
          /\ UNCHANGED <<resp, req, meta, sfGet>>
       \/ /\ outputFile[m.out] \notin {m.size, Absent}
          /\ pc' = [pc EXCEPT ![p] = "getPruneBoth"]
          /\ UNCHANGED <<resp, req, meta, sfGet>>
    /\ UNCHANGED <<actionFile, outputFile, closed, sfPut, committed, crashes>>

(* local.go:171-183: os.Remove of the action file, and of the output too  *)
(* when the stat found it with the wrong length.  The removal acts on the *)
(* paths, whatever they hold by now; the error reaches Get as a miss.     *)
GetPrune(p) ==
    LET m == meta[p] IN
    /\ pc[p] \in {"getPruneAction", "getPruneBoth"}
    /\ actionFile' = [actionFile EXCEPT ![req[p].act] = Absent]
    /\ outputFile' = IF pc[p] = "getPruneAction" THEN outputFile
                     ELSE [outputFile EXCEPT ![m.out] = Absent]
    /\ EndFlight(p, sfGet, "getJoined", R("miss", None, 0, None))
    /\ UNCHANGED <<closed, sfPut, committed, crashes>>

-----------------------------------------------------------------------------
(* LocalBackend.Put (local.go:106-125), with the same three outcomes as   *)
(* Get in its own single-flight group.  A goroutine that joins a running  *)
(* Put of the ActionID returns that Put's result; its own body is unread. *)
StartPut(p) ==
    /\ pc[p] = "idle"
    /\ \E a \in Actions, o \in Outputs : Begin(p, a, o, sfPut, "putJoined", "putBody")
    /\ UNCHANGED <<actionFile, outputFile, closed, sfGet, meta, committed, crashes>>

(* store.put, local.go:207-235: a non-empty body is copied to a temp file *)
(* and renamed onto the output path; a short copy or an IO error fails    *)
(* the Put.  An empty body reuses data/_empty.output.                     *)
PutBody(p) ==
    LET o == req[p].out IN
    /\ pc[p] = "putBody"
    /\ \/ /\ OutSize[o] > 0
          /\ outputFile' = [outputFile EXCEPT ![o] = OutSize[o]]
          /\ pc' = [pc EXCEPT ![p] = "putMeta"]
          /\ UNCHANGED <<resp, req, meta, sfPut>>
       \/ /\ OutSize[o] = 0
          /\ pc' = [pc EXCEPT ![p] = "putMeta"]
          /\ UNCHANGED <<outputFile, resp, req, meta, sfPut>>
       \/ /\ EndFlight(p, sfPut, "putJoined", R("err", None, 0, None))
          /\ UNCHANGED outputFile
    /\ UNCHANGED <<actionFile, closed, sfGet, committed, crashes>>

(* local.go:236-268: the EntryMeta is written to a temp file and renamed  *)
(* onto the action path; the Put returns the body's path.                 *)
PutMeta(p) ==
    LET a == req[p].act
        o == req[p].out
    IN /\ pc[p] = "putMeta"
       /\ \/ /\ actionFile' = [actionFile EXCEPT ![a] = [out |-> o, size |-> OutSize[o]]]
             /\ EndFlight(p, sfPut, "putJoined", R("ok", o, OutSize[o], PathOf(o, OutSize[o])))
             /\ committed' = committed \cup {a}
          \/ /\ EndFlight(p, sfPut, "putJoined", R("err", None, 0, None))
             /\ UNCHANGED <<actionFile, committed>>
       /\ UNCHANGED <<outputFile, closed, sfGet, crashes>>

(* LocalBackend.Close (local.go:73-77): later calls are rejected; calls   *)
(* already past the closed check run on.                                  *)
Close ==
    /\ ~closed
    /\ closed' = TRUE
    /\ UNCHANGED <<actionFile, outputFile, sfGet, sfPut, pc, req, meta, resp,
                   committed, crashes>>

(* A machine crash and daemon restart.  Renames were never synced, so a   *)
(* renamed file may come back shorter or not at all.  Every goroutine is  *)
(* gone, and the new daemon opens the store again.                        *)
Crash ==
    /\ crashes < MaxCrashes
    /\ \E af \in [Actions -> Meta \cup {Absent, Garbage}],
          of \in [Outputs -> FileLen \cup {Absent}] :
        /\ \A a \in Actions :
              af[a] \in IF actionFile[a] \in Meta
                        THEN {actionFile[a], Absent, Garbage} ELSE {actionFile[a]}
        /\ \A o \in Outputs :
              of[o] \in IF outputFile[o] = Absent
                        THEN {Absent} ELSE {Absent} \cup 0 .. outputFile[o]
        /\ actionFile' = af
        /\ outputFile' = of
    /\ closed' = FALSE
    /\ sfGet' = [a \in Actions |-> None]
    /\ sfPut' = [a \in Actions |-> None]
    /\ pc' = [p \in Procs |-> "idle"]
    /\ req' = [p \in Procs |-> NoReq]
    /\ meta' = [p \in Procs |-> None]
    /\ committed' = {}
    /\ resp' = [p \in Procs |-> NoResp]
    /\ crashes' = crashes + 1

-----------------------------------------------------------------------------
(* The steps a goroutine takes on its own once it leads a flight.         *)
Step(p) == GetOpen(p) \/ GetStat(p) \/ GetPrune(p) \/ PutBody(p) \/ PutMeta(p)

Next ==
    \/ \E p \in Procs : StartGet(p) \/ StartPut(p) \/ Step(p)
    \/ Close
    \/ Crash

(* Goroutines are scheduled by the Go runtime: a runnable one runs.       *)
(* Clients need not send requests and crashes need not happen.            *)
Spec == Init /\ [][Next]_vars /\ \A p \in Procs : WF_vars(Step(p))

-----------------------------------------------------------------------------
(* Every Get or Put that passed the closed check returns, the ones that   *)
(* joined another goroutine's flight included: the single-flight leader   *)
(* hands its result to every caller waiting on the ActionID.              *)
EveryRequestAnswered == \A p \in Procs : pc[p] # "idle" ~> pc[p] = "idle"

(* Read your writes: once a Put of an ActionID has returned success, the  *)
(* entry stays on disk and servable (action file present, body of the     *)
(* recorded length) until the machine crashes.  The spec promises that a  *)
(* later get sees a put's entry.                                          *)
CommittedEntryServable ==
    \A a \in committed :
        /\ actionFile[a] \in Meta
        /\ actionFile[a].size > 0 => outputFile[actionFile[a].out] = actionFile[a].size

(* On a machine that has not crashed, no interleaving of Gets and Puts    *)
(* loses an entry a Put committed: the prune of store.get (local.go:170-  *)
(* 184) only removes files a crash left short.                            *)
ServableWithoutCrash == crashes = 0 => CommittedEntryServable

=============================================================================
