----------------------------- MODULE BlobBackend -----------------------------
(***************************************************************************)
(* The blob backend of internal/cache/backends/blob (unnamed/part_002):    *)
(* the local disk store in front of a remote bucket, with an in-memory     *)
(* archive tier, background uploads through a pond pool de-duplicated by   *)
(* ActionID (sfUpload), and Close.                                         *)
(*                                                                         *)
(* The local store is taken at the granularity of its calls (LocalCache    *)
(* models its file steps), keeping what the blob backend depends on: its   *)
(* Put is single-flighted by ActionID, so a Put, an archive materialization*)
(* or a download that joins a running Put of the ActionID returns that     *)
(* Put's DiskPath.  A body is the OutputID whose bytes it holds, or None   *)
(* for no bytes.                                                           *)
(***************************************************************************)
EXTENDS Naturals, FiniteSets

CONSTANTS
    Procs,        \* goroutines calling BlobBackend.Get / Put
    Actions,      \* ActionIDs
    Outputs,      \* OutputIDs
    PutOutputs,   \* PutOutputs[a]: the OutputIDs a Put of a may carry
    GetActions,   \* the ActionIDs a Get may ask for
    OutSize,      \* OutSize[o]: length of the body of o
    PoolSize,     \* UploadConcurrency: workers of the upload pool
    Tiers,        \* the bucket and archive contents [remote, ar] the daemon may
                  \* start from: other daemons' uploads and compactions
    None,
    Absent

VARIABLES
    disk,         \* disk[a]: the local action file [out, size], or Absent
    file,         \* file[o]: the bytes at the local output path of o, or Absent
    remote,       \* remote[a]: the object b/XX/<a>: [out, size, body], or Absent
    ar,           \* ar[a]: the archive entry of a, or Absent
    closed,       \* BlobBackend.closed
    localClosed,  \* diskStore closed (by Close)
    bucketClosed, \* bucket closed (by Close)
    cancelled,    \* the lifecycle context is cancelled
    poolStopped,  \* uploadQueue.StopAndWait has been called
    closePc,      \* where Close is
    sfGet,        \* sfGet[a]: goroutine running store.get(a), or None
    lput,         \* lput[a]: goroutine running the disk store's put(a), or None
    up,           \* up[a]: the sfUpload flight of a, or None
    pc, req, cont, lreq, lres, arEntry, meta, resp,
    dropped       \* ActionIDs whose upload task the stopped pool rejected

vars == <<disk, file, remote, ar, closed, localClosed, bucketClosed, cancelled,
          poolStopped, closePc, sfGet, lput, up, pc, req, cont, lreq, lres,
          arEntry, meta, resp, dropped>>

EmptyPath == "empty"
Content == Outputs \cup {None}
Len(c) == IF c = None THEN 0 ELSE OutSize[c]
Sizes == {OutSize[o] : o \in Outputs}
PathOf(o) == IF OutSize[o] = 0 THEN EmptyPath ELSE o
FileAt(path) == IF path = EmptyPath THEN None ELSE file[path]
Entry == [out : Outputs, size : Sizes, body : Content]
\* the entry an honest Put of o stores
Honest(o) == [out |-> o, size |-> OutSize[o], body |-> IF OutSize[o] = 0 THEN None ELSE o]
Result == [kind : {"hit", "miss", "ok", "err", "none"}, out : Outputs \cup {None},
           size : Sizes, path : Outputs \cup {EmptyPath, None}]
Res(k, o, s, pa) == [kind |-> k, out |-> o, size |-> s, path |-> pa]
NoRes == Res("none", None, 0, None)
\* pos: the place of a queued task in the pool's FIFO queue, 0 when not queued
Flight == [out : Outputs, size : Sizes, path : Outputs \cup {EmptyPath},
           st : {"submit", "queued", "running"}, pos : 0 .. Cardinality(Actions)]
Running == {a \in Actions : up[a] # None /\ up[a].st = "running"}
InPool == {a \in Actions : up[a] # None /\ up[a].st \in {"queued", "running"}}
Queued == {a \in Actions : up[a] # None /\ up[a].st = "queued"}

TypeOK ==
    /\ disk \in [Actions -> [out : Outputs, size : Sizes] \cup {Absent}]
    /\ file \in [Outputs -> Content \cup {Absent}]
    /\ remote \in [Actions -> Entry \cup {Absent}]
    /\ ar \in [Actions -> Entry \cup {Absent}]
    /\ {closed, localClosed, bucketClosed, cancelled, poolStopped} \subseteq BOOLEAN
    /\ closePc \in {"open", "waiting", "cancelling", "done"}
    /\ sfGet \in [Actions -> Procs \cup {None}]
    /\ lput \in [Actions -> Procs \cup {None}]
    /\ up \in [Actions -> Flight \cup {None}]
    /\ pc \in [Procs -> {"idle", "gJoined", "gAr", "gDisk", "gRemote", "lput", "lputJoined",
                         "gSlowDone", "gDlDone", "pUpload"}]
    /\ resp \in [Procs -> Result]
    /\ dropped \subseteq Actions

Init ==
    /\ disk = [a \in Actions |-> Absent]
    /\ file = [o \in Outputs |-> Absent]
    /\ \E t \in Tiers : remote = t.remote /\ ar = t.ar
    /\ closed = FALSE /\ localClosed = FALSE /\ bucketClosed = FALSE
    /\ cancelled = FALSE /\ poolStopped = FALSE /\ closePc = "open"
    /\ sfGet = [a \in Actions |-> None]
    /\ lput = [a \in Actions |-> None]
    /\ up = [a \in Actions |-> None]
    /\ pc = [p \in Procs |-> "idle"]
    /\ req = [p \in Procs |-> [act |-> None, out |-> None]]
    /\ cont = [p \in Procs |-> None]
    /\ lreq = [p \in Procs |-> None]
    /\ lres = [p \in Procs |-> None]
    /\ arEntry = [p \in Procs |-> Absent]
    /\ meta = [p \in Procs |-> Absent]
    /\ resp = [p \in Procs |-> NoRes]
    /\ dropped = {}

store == <<disk, file, remote, ar>>
life == <<closed, localClosed, bucketClosed, cancelled, poolStopped, closePc>>
frame == <<req, cont, lreq, lres, arEntry, meta>>

-----------------------------------------------------------------------------
(* The end of store.get(a) led by p: Get turns every error into a miss,   *)
(* and the single-flight group hands the result to the goroutines that    *)
(* joined.                                                                *)
EndGet(p, r) ==
    LET a == req[p].act
        members == {p} \cup {q \in Procs : pc[q] = "gJoined" /\ req[q].act = a}
    IN /\ pc' = [q \in Procs |-> IF q \in members THEN "idle" ELSE pc[q]]
       /\ resp' = [q \in Procs |-> IF q \in members THEN r ELSE resp[q]]
       /\ sfGet' = [sfGet EXCEPT ![a] = None]
       /\ arEntry' = [arEntry EXCEPT ![p] = Absent]
       /\ meta' = [meta EXCEPT ![p] = Absent]
       /\ lres' = [lres EXCEPT ![p] = None]

Miss == Res("miss", None, 0, None)

(* diskStore.Put (local.go:106-125): rejected once the disk store is      *)
(* closed; joins a running put of the ActionID, or leads one.  The caller *)
(* resumes at k with the result in lres.                                  *)
LPutCall(p, r, k) ==
    \/ /\ localClosed
       /\ lres' = [lres EXCEPT ![p] = "err"]
       /\ pc' = [pc EXCEPT ![p] = k]
       /\ UNCHANGED <<lput, lreq, cont>>
    \/ /\ ~localClosed /\ lput[r.act] # None
       /\ pc' = [pc EXCEPT ![p] = "lputJoined"]
       /\ lreq' = [lreq EXCEPT ![p] = r]
       /\ cont' = [cont EXCEPT ![p] = k]
       /\ UNCHANGED <<lput, lres>>
    \/ /\ ~localClosed /\ lput[r.act] = None
       /\ lput' = [lput EXCEPT ![r.act] = p]
       /\ pc' = [pc EXCEPT ![p] = "lput"]
       /\ lreq' = [lreq EXCEPT ![p] = r]
       /\ cont' = [cont EXCEPT ![p] = k]
       /\ UNCHANGED lres

(* Mutant: the goroutines that joined the put are never woken.           *)
LPutLeaderOnly(p) ==
    LET r == lreq[p]
        members == {p}
        Finish(res) ==
            /\ pc' = [q \in Procs |-> IF q \in members THEN cont[q] ELSE pc[q]]
            /\ lres' = [q \in Procs |-> IF q \in members THEN res ELSE lres[q]]
            /\ lreq' = [q \in Procs |-> IF q \in members THEN None ELSE lreq[q]]
            /\ cont' = [q \in Procs |-> IF q \in members THEN None ELSE cont[q]]
            /\ lput' = [lput EXCEPT ![r.act] = None]
    IN /\ pc[p] = "lput"
       /\ \/ /\ r.size > 0 /\ Len(r.body) = r.size
             /\ file' = [file EXCEPT ![r.out] = r.body]
             /\ disk' = [disk EXCEPT ![r.act] = [out |-> r.out, size |-> r.size]]
             /\ Finish(r.out)
          \/ /\ r.size = 0
             /\ disk' = [disk EXCEPT ![r.act] = [out |-> r.out, size |-> 0]]
             /\ Finish(EmptyPath)
             /\ UNCHANGED file
          \/ /\ Finish("err")
             /\ UNCHANGED <<disk, file>>
       /\ UNCHANGED <<remote, ar, life, sfGet, up, req, arEntry, meta, resp, dropped>>

(* store.put run by p (local.go:202-269): the body is copied and renamed, *)
(* failing when its length is not BodySize; then the action file.  Every  *)
(* goroutine that joined the put resumes with p's result.                 *)
LPut(p) ==
    LET r == lreq[p]
        members == {p} \cup {q \in Procs : pc[q] = "lputJoined" /\ lreq[q].act = r.act}
        Finish(res) ==
            /\ pc' = [q \in Procs |-> IF q \in members THEN cont[q] ELSE pc[q]]
            /\ lres' = [q \in Procs |-> IF q \in members THEN res ELSE lres[q]]
            /\ lreq' = [q \in Procs |-> IF q \in members THEN None ELSE lreq[q]]
            /\ cont' = [q \in Procs |-> IF q \in members THEN None ELSE cont[q]]
            /\ lput' = [lput EXCEPT ![r.act] = None]
    IN /\ pc[p] = "lput"
       /\ \/ /\ r.size > 0 /\ Len(r.body) = r.size
             /\ file' = [file EXCEPT ![r.out] = r.body]
             /\ disk' = [disk EXCEPT ![r.act] = [out |-> r.out, size |-> r.size]]
             /\ Finish(r.out)
          \/ /\ r.size = 0
             /\ disk' = [disk EXCEPT ![r.act] = [out |-> r.out, size |-> 0]]
             /\ Finish(EmptyPath)
             /\ UNCHANGED file
          \/ /\ Finish("err")
             /\ UNCHANGED <<disk, file>>
       /\ UNCHANGED <<remote, ar, life, sfGet, up, req, arEntry, meta, resp, dropped>>

-----------------------------------------------------------------------------
(* BlobBackend.Get (part_002:153-170): rejected when closed, joins a      *)
(* running get of the ActionID, or leads one.                              *)
StartGet(p) ==
    /\ pc[p] = "idle"
    /\ \E a \in GetActions :
         \/ /\ closed
            /\ resp' = [resp EXCEPT ![p] = Res("err", None, 0, None)]
            /\ UNCHANGED <<pc, req, sfGet>>
         \/ /\ ~closed /\ sfGet[a] # None
            /\ pc' = [pc EXCEPT ![p] = "gJoined"]
            /\ req' = [req EXCEPT ![p] = [act |-> a, out |-> None]]
            /\ resp' = [resp EXCEPT ![p] = NoRes]
            /\ UNCHANGED sfGet
         \/ /\ ~closed /\ sfGet[a] = None
            /\ sfGet' = [sfGet EXCEPT ![a] = p]
            /\ pc' = [pc EXCEPT ![p] = "gAr"]
            /\ req' = [req EXCEPT ![p] = [act |-> a, out |-> None]]
            /\ resp' = [resp EXCEPT ![p] = NoRes]
    /\ UNCHANGED <<store, life, lput, up, cont, lreq, lres, arEntry, meta, dropped>>

(* store.get, part_002:179-194: the archive entry is looked up once; an   *)
(* empty one is served from the shared empty output.                      *)
GetArchive(p) ==
    LET e == ar[req[p].act] IN
    /\ pc[p] = "gAr"
    /\ \/ /\ e # Absent /\ e.size = 0
          /\ EndGet(p, Res("hit", e.out, 0, EmptyPath))
       \/ /\ ~(e # Absent /\ e.size = 0)
          /\ arEntry' = [arEntry EXCEPT ![p] = e]
          /\ pc' = [pc EXCEPT ![p] = "gDisk"]
          /\ UNCHANGED <<resp, sfGet, meta, lres>>
    /\ UNCHANGED <<store, life, lput, up, req, cont, lreq, dropped>>

(* part_002:196-235: diskStore.Get (local.go:87-104, 140-199), atomic at  *)
(* this level: a hit is returned; a miss, with the entry pruned when its  *)
(* body is missing or of the wrong length, falls through to the archive   *)
(* entry read before (slow path: opened and put through the disk store,   *)
(* or an open error), else to the remote download.                        *)
GetDisk(p) ==
    LET a == req[p].act
        m == disk[a]
        e == arEntry[p]
        bodyOk == m # Absent /\ file[m.out] # Absent /\ Len(file[m.out]) = m.size
    IN /\ pc[p] = "gDisk"
       /\ \/ /\ localClosed
             /\ EndGet(p, Miss)
             /\ UNCHANGED <<disk, file, lput, cont, lreq>>
          \/ /\ ~localClosed /\ m # Absent /\ m.size = 0
             /\ EndGet(p, Res("hit", m.out, 0, EmptyPath))
             /\ UNCHANGED <<disk, file, lput, cont, lreq>>
          \/ /\ ~localClosed /\ m # Absent /\ m.size > 0 /\ bodyOk
             /\ EndGet(p, Res("hit", m.out, m.size, m.out))
             /\ UNCHANGED <<disk, file, lput, cont, lreq>>
          \/ /\ ~localClosed /\ ~(m # Absent /\ (m.size = 0 \/ bodyOk))
             /\ disk' = [disk EXCEPT ![a] = Absent]
             /\ file' = IF m # Absent /\ file[m.out] # Absent
                        THEN [file EXCEPT ![m.out] = Absent] ELSE file
             /\ \/ /\ e # Absent
                   /\ LPutCall(p, [act |-> a, out |-> e.out, size |-> e.size, body |-> e.body],
                               "gSlowDone")
                   /\ UNCHANGED <<resp, sfGet, arEntry, meta>>
                \/ /\ e # Absent
                   /\ EndGet(p, Miss)
                   /\ UNCHANGED <<lput, cont, lreq>>
                \/ /\ e = Absent
                   /\ pc' = [pc EXCEPT ![p] = "gRemote"]
                   /\ UNCHANGED <<resp, sfGet, arEntry, meta, lres, lput, cont, lreq>>
       /\ UNCHANGED <<remote, ar, life, up, req, dropped>>

(* part_002:221-234: the archive entry's body is now on disk.                 *)
GetSlowDone(p) ==
    /\ pc[p] = "gSlowDone"
    /\ EndGet(p, IF lres[p] = "err" THEN Miss
                 ELSE Res("hit", arEntry[p].out, arEntry[p].size, lres[p]))
    /\ UNCHANGED <<store, life, lput, up, req, cont, lreq, dropped>>

(* part_002:237-277: NewReader, ReadEntryMeta and the ActionID check; a  *)
(* missing object, a closed bucket, a cancelled lifecycle, a timeout or a *)
(* read error is a miss.  The rest of the stream is put to disk.          *)
GetRemote(p) ==
    LET a == req[p].act
        o == remote[a]
    IN /\ pc[p] = "gRemote"
       /\ \/ /\ EndGet(p, Miss)
             /\ UNCHANGED <<lput, cont, lreq>>
          \/ /\ o # Absent /\ ~bucketClosed /\ ~cancelled
             /\ meta' = [meta EXCEPT ![p] = o]
             /\ LPutCall(p, [act |-> a, out |-> o.out, size |-> o.size, body |-> o.body], "gDlDone")
             /\ UNCHANGED <<resp, sfGet, arEntry>>
       /\ UNCHANGED <<store, life, up, req, dropped>>

(* part_002:275-294: the downloaded entry is now on disk.                 *)
GetDlDone(p) ==
    /\ pc[p] = "gDlDone"
    /\ EndGet(p, IF lres[p] = "err" THEN Miss
                 ELSE Res("hit", meta[p].out, meta[p].size, lres[p]))
    /\ UNCHANGED <<store, life, lput, up, req, cont, lreq, dropped>>

-----------------------------------------------------------------------------
(* BlobBackend.Put (part_002:297-306): rejected when closed; the entry is *)
(* written through the disk store first.                                  *)
StartPut(p) ==
    /\ pc[p] = "idle"
    /\ \E a \in Actions : \E o \in PutOutputs[a] :
         \/ /\ closed
            /\ resp' = [resp EXCEPT ![p] = Res("err", None, 0, None)]
            /\ UNCHANGED <<pc, req, lput, lreq, cont, lres>>
         \/ /\ ~closed
            /\ req' = [req EXCEPT ![p] = [act |-> a, out |-> o]]
            /\ resp' = [resp EXCEPT ![p] = NoRes]
            /\ LPutCall(p, [act |-> a, out |-> o, size |-> OutSize[o], body |-> Honest(o).body],
                        "pUpload")
    /\ UNCHANGED <<store, life, sfGet, up, arEntry, meta, dropped>>

(* Mutant: the upload is started although the disk put failed.          *)
PutUploadIgnoreErr(p) ==
    LET a == req[p].act
        o == req[p].out
    IN /\ pc[p] = "pUpload"
       /\ \/ /\ lres[p] = "err"
             /\ resp' = [resp EXCEPT ![p] = Res("err", None, 0, None)]
             /\ UNCHANGED up
          \/ /\ TRUE
             /\ up' = IF up[a] = None
                      THEN [up EXCEPT ![a] = [out |-> o, size |-> OutSize[o], path |-> lres[p],
                                              st |-> "submit", pos |-> 0]]
                      ELSE up
             /\ resp' = [resp EXCEPT ![p] = Res("ok", o, OutSize[o], lres[p])]
       /\ pc' = [pc EXCEPT ![p] = "idle"]
       /\ req' = [req EXCEPT ![p] = [act |-> None, out |-> None]]
       /\ lres' = [lres EXCEPT ![p] = None]
       /\ UNCHANGED <<store, life, sfGet, lput, cont, lreq, arEntry, meta, dropped>>

(* part_002:304-319: on success, sfUpload.DoChan starts an upload flight  *)
(* for the ActionID unless one is running, with this Put's request and    *)
(* the DiskPath the disk store returned; Put returns without waiting.     *)
PutUpload(p) ==
    LET a == req[p].act
        o == req[p].out
    IN /\ pc[p] = "pUpload"
       /\ \/ /\ lres[p] = "err"
             /\ resp' = [resp EXCEPT ![p] = Res("err", None, 0, None)]
             /\ UNCHANGED up
          \/ /\ lres[p] # "err"
             /\ up' = IF up[a] = None
                      THEN [up EXCEPT ![a] = [out |-> o, size |-> OutSize[o], path |-> lres[p],
                                              st |-> "submit", pos |-> 0]]
                      ELSE up
             /\ resp' = [resp EXCEPT ![p] = Res("ok", o, OutSize[o], lres[p])]
       /\ pc' = [pc EXCEPT ![p] = "idle"]
       /\ req' = [req EXCEPT ![p] = [act |-> None, out |-> None]]
       /\ lres' = [lres EXCEPT ![p] = None]
       /\ UNCHANGED <<store, life, sfGet, lput, cont, lreq, arEntry, meta, dropped>>

-----------------------------------------------------------------------------
(* The flight's goroutine submits the upload to the pool (part_002:310);  *)
(* a pool already stopped by Close fails the task, and task.Wait returns. *)
Submit(a) ==
    /\ up[a] # None /\ up[a].st = "submit"
    /\ IF poolStopped
         THEN up' = [up EXCEPT ![a] = None] /\ dropped' = dropped \cup {a}
         ELSE /\ up' = [up EXCEPT ![a].st = "queued", ![a].pos = Cardinality(Queued) + 1]
              /\ UNCHANGED dropped
    /\ UNCHANGED <<store, life, sfGet, lput, pc, frame, resp>>

\* the head of the queue leaves it to run, and the tasks behind move up
Dequeue(a) ==
    [b \in Actions |-> IF b = a THEN [up[a] EXCEPT !.st = "running", !.pos = 0]
                       ELSE IF b \in Queued THEN [up[b] EXCEPT !.pos = @ - 1]
                       ELSE up[b]]

(* Mutant: one worker too few.                                           *)
StartTaskNoWorker(a) ==
    /\ up[a] # None /\ up[a].st = "queued" /\ up[a].pos = 1
    /\ Cardinality(Running) + 1 < PoolSize
    /\ up' = Dequeue(a)
    /\ UNCHANGED <<store, life, sfGet, lput, pc, frame, resp, dropped>>

(* A free worker of the pool takes the task at the head of its queue.    *)
StartTask(a) ==
    /\ up[a] # None /\ up[a].st = "queued" /\ up[a].pos = 1
    /\ Cardinality(Running) < PoolSize
    /\ up' = Dequeue(a)
    /\ UNCHANGED <<store, life, sfGet, lput, pc, frame, resp, dropped>>

(* doBgUpload (part_002:322-387): the object is the EntryMeta of the Put's *)
(* request followed by whatever the DiskPath holds now; opening a missing *)
(* body, a closed bucket, a cancelled lifecycle or a failed upload only   *)
(* logs.  The task ends, and with it the flight.                          *)
Upload(a) ==
    LET f == up[a] IN
    /\ up[a] # None /\ up[a].st = "running"
    /\ \/ /\ f.size > 0 /\ FileAt(f.path) = Absent
          /\ UNCHANGED remote
       \/ /\ ~(f.size > 0 /\ FileAt(f.path) = Absent)
          /\ ~cancelled /\ ~bucketClosed
          /\ remote' = [remote EXCEPT ![a] = [out |-> f.out, size |-> f.size,
                                               body |-> IF f.size = 0 THEN None ELSE FileAt(f.path)]]
       \/ UNCHANGED remote
    /\ up' = [up EXCEPT ![a] = None]
    /\ UNCHANGED <<disk, file, ar, life, sfGet, lput, pc, frame, resp, dropped>>

-----------------------------------------------------------------------------
(* BlobBackend.Close (part_002:389-424): new calls are rejected and the   *)
(* pool is stopped; Close waits for the queued and running uploads.       *)
CloseBegin ==
    /\ closePc = "open"
    /\ closed' = TRUE /\ poolStopped' = TRUE /\ closePc' = "waiting"
    /\ UNCHANGED <<store, localClosed, bucketClosed, cancelled, sfGet, lput, up, pc, frame,
                   resp, dropped>>

(* fullyStopped: the deferred closes of the disk store and bucket run.    *)
CloseStopped ==
    /\ closePc \in {"waiting", "cancelling"} /\ InPool = {}
    /\ closePc' = "done" /\ localClosed' = TRUE /\ bucketClosed' = TRUE
    /\ UNCHANGED <<store, closed, cancelled, poolStopped, sfGet, lput, up, pc, frame, resp, dropped>>

(* cancelTimeout: only now is the lifecycle cancelled.                    *)
CloseCancel ==
    /\ closePc = "waiting"
    /\ cancelled' = TRUE /\ closePc' = "cancelling"
    /\ UNCHANGED <<store, closed, localClosed, bucketClosed, poolStopped, sfGet, lput, up, pc,
                   frame, resp, dropped>>

(* quitTimeout: Close returns with uploads still running.                 *)
CloseQuit ==
    /\ closePc = "cancelling"
    /\ closePc' = "done" /\ localClosed' = TRUE /\ bucketClosed' = TRUE
    /\ UNCHANGED <<store, closed, cancelled, poolStopped, sfGet, lput, up, pc, frame, resp, dropped>>

-----------------------------------------------------------------------------
Step(p) == \/ GetArchive(p) \/ GetDisk(p) \/ GetSlowDone(p) \/ GetRemote(p) \/ GetDlDone(p)
           \/ LPut(p) \/ PutUpload(p)
Task(a) == Submit(a) \/ StartTask(a) \/ Upload(a)
CloseSteps == CloseStopped \/ CloseCancel \/ CloseQuit

Next ==
    \/ \E p \in Procs : StartGet(p) \/ StartPut(p) \/ Step(p)
    \/ \E a \in Actions : Task(a)
    \/ CloseBegin \/ CloseSteps

(* Goroutines and pool workers run when runnable; Close's timers fire.    *)
(* Requests and Close itself are up to the callers.                       *)
Spec == Init /\ [][Next]_vars
        /\ \A p \in Procs : WF_vars(Step(p))
        /\ \A a \in Actions : WF_vars(Task(a))
        /\ WF_vars(CloseSteps)

-----------------------------------------------------------------------------
\* the goroutines are interchangeable: Init, every action and the fairness
\* treat them alike, so what holds of one holds of each
Watched == CHOOSE p \in Procs : TRUE

(* Every Get and Put returns, the ones that joined a get flight or a disk *)
(* put of another goroutine included.                                     *)
EveryCallReturns == pc[Watched] # "idle" ~> pc[Watched] = "idle"

(* Every upload flight ends, so that a later Put of the ActionID can      *)
(* upload again: a task queued behind another ActionID's upload gets the  *)
(* pool's worker in turn, or the stopped pool rejects it at submit (that  *)
(* lost upload is what NoUploadDropped is about).                         *)
FlightsEnd == \A a \in Actions : up[a] # None ~> up[a] = None

(* Every stored object is EntryMeta || Body with the meta's Size equal to *)
(* |Body| and the body the output the meta names (spec, data model).      *)
RemoteWellFormed ==
    \A a \in Actions : remote[a] # Absent => remote[a] = Honest(remote[a].out)

(* Spec section 4.6.4: Close waits up to CLOSE_TIMEOUT for in-flight     *)
(* upload tasks to drain; section 4.6.3: a Put submits its upload and     *)
(* returns.  So the upload of a Put that returned success is never turned *)
(* away by Close.  In the code the DoChan goroutine submits it after Put  *)
(* has returned (part_002:310), and a Close in between stops the pool.    *)
NoUploadDropped == dropped = {}

=============================================================================
