------------------------------ MODULE Compaction ------------------------------
(***************************************************************************)
(* The compaction job of one keyspace (part_001) in a BlobBackend that may *)
(* be closed meanwhile.  The job syncs the archive, lists the small       *)
(* objects, diffs them against the local archive, fetches every listed    *)
(* entry through BlobBackend.Get on a pool of workers that send hits into *)
(* a channel drained by one writer goroutine, then ingests the archive    *)
(* locally and uploads it.                                                *)
(*                                                                         *)
(* BlobBackend.Get and the ArStore calls are single steps here: their     *)
(* interleavings are checked in BlobBackend.tla and ArStore.tla.  An      *)
(* EntryMeta is [out, size]; a body on disk is its length; an archive     *)
(* maps ActionIDs to [out, size, len], len the length of its data.        *)
(***************************************************************************)
EXTENDS Naturals, Sequences, FiniteSets

CONSTANTS
    Actions,      \* ActionIDs of the keyspace
    Outputs,      \* OutputIDs
    OutSize,      \* OutSize[o]: the body length of o
    Workers,      \* the get pool (32 in the code)
    AtLeastAdd,   \* CompactionAtLeastAddFiles (10 in the code)
    Faults,       \* whether bucket and file-system calls may fail
    Closing,      \* whether BlobBackend.Close may run during the job
    None, Absent

VARIABLES
    obj,          \* small objects b/XX/<a> in the bucket: their EntryMeta
    ent,          \* the disk store's action files
    flen,         \* the disk store's body files: their length
    arCur,        \* the local archive served by ArStore
    arRemote,     \* blobar/<k>.zip in the bucket
    fresh,        \* lastSyncAt is recent: SyncFromRemote skips
    closed, cancelled, bucketClosed,  \* BlobBackend.Close's progress
    jpc,          \* the job's step
    failed,       \* work() returned an error
    planned,      \* plannedList: the listed size of each ActionID, or Absent
    queue,        \* get tasks submitted and not started
    wk,           \* the task each pool worker runs
    ch,           \* resultQueue
    chClosed,     \* close(resultQueue) has run
    wpc,          \* the writer goroutine: "off", "run", "exit"
    newAr,        \* the archive being written
    tmp,          \* the temporary archive file exists
    panicked,     \* a send on the closed resultQueue
    uploaded      \* IngestNewArchive's upload succeeded

vars == <<obj, ent, flen, arCur, arRemote, fresh, closed, cancelled, bucketClosed,
          jpc, failed, planned, queue, wk, ch, chClosed, wpc, newAr, tmp, panicked,
          uploaded>>
disk == <<ent, flen>>
life == <<closed, cancelled, bucketClosed>>
job == <<jpc, failed, planned, uploaded>>
pool == <<queue, wk, ch, chClosed, wpc, newAr, tmp, panicked>>

Sizes == {OutSize[o] : o \in Outputs}
MaxLen == CHOOSE n \in Sizes : \A m \in Sizes : m <= n
Meta == [out : Outputs, size : Sizes]
ArEntry == [out : Outputs, size : Sizes, len : 0..MaxLen]
MetaOf(o) == [out |-> o, size |-> OutSize[o]]
Archive == [Actions -> {Absent} \cup ArEntry]
NoArchive == [a \in Actions |-> Absent]
Result == [act : Actions, out : Outputs, size : Sizes]

TypeOK ==
    /\ obj \in [Actions -> {Absent} \cup Meta]
    /\ ent \in [Actions -> {Absent} \cup Meta]
    /\ flen \in [Outputs -> {Absent} \cup 0..MaxLen]
    /\ arCur \in Archive /\ arRemote \in Archive /\ newAr \in Archive
    /\ {fresh, closed, cancelled, bucketClosed, failed, chClosed, tmp, panicked,
        uploaded} \subseteq BOOLEAN
    /\ jpc \in {"sync", "list", "diff", "create", "stopWait", "writerWait", "ingest",
                "upload", "cleanUp", "done"}
    /\ planned \in [Actions -> {Absent} \cup Sizes]
    /\ queue \subseteq Actions
    /\ wk \in [Workers -> Actions \cup {None}]
    /\ ch \in Seq(Result)
    /\ wpc \in {"off", "run", "exit"}

ArEntryOf(m) == [out |-> m.out, size |-> m.size, len |-> m.size]

Init ==
    /\ obj \in [Actions -> {Absent} \cup {MetaOf(o) : o \in Outputs}]
    /\ ent \in [Actions -> {Absent} \cup {MetaOf(o) : o \in Outputs}]
    \* a body may be short after an earlier crash (see LocalCache)
    /\ flen \in [Outputs -> {Absent} \cup 0..MaxLen]
    /\ \A o \in Outputs : flen[o] # Absent => 0 < OutSize[o] /\ flen[o] <= OutSize[o]
    \* the bucket's archive was built from the objects by an earlier job,
    \* and some of them have expired since
    /\ arRemote \in {ar \in Archive : \A a \in Actions :
                        ar[a] \in {Absent} \cup IF obj[a] = Absent
                                                THEN {ArEntryOf(MetaOf(o)) : o \in Outputs}
                                                ELSE {ArEntryOf(obj[a])}}
    \* lastSyncAt is recent when the start-up sync installed the bucket's
    \* archive; otherwise the local archive may be older or missing
    /\ fresh \in BOOLEAN
    /\ arCur \in IF fresh THEN {arRemote} ELSE {NoArchive, arRemote}
    /\ closed = FALSE /\ cancelled = FALSE /\ bucketClosed = FALSE
    /\ jpc = "sync" /\ failed = FALSE
    /\ planned = [a \in Actions |-> Absent]
    /\ queue = {} /\ wk = [w \in Workers |-> None]
    /\ ch = <<>> /\ chClosed = FALSE
    /\ wpc = "off" /\ newAr = NoArchive /\ tmp = FALSE /\ panicked = FALSE
    /\ uploaded = FALSE

(***************************************************************************)
(* BlobBackend.Get for the compaction (IsInCompaction): the response of   *)
(* Get(a) and the disk store after it, as a set of <<resp, ent, flen>>.    *)
(* A response is an EntryMeta or Miss; Get's error when closed and get's   *)
(* own errors, which Get reports as misses (part_002:162-167), are all     *)
(* skipped alike by the task.                                              *)
(***************************************************************************)
Miss == [out |-> None, size |-> 0]

\* the length of the file a response's DiskPath names: an empty output is
\* the shared empty file (EnsureEmptyOutputFile), else the output's body
BodyLen(m) == IF m.size = 0 THEN 0 ELSE flen[m.out]

\* LocalBackend.get finds a whole entry for a
LocalHit(a) == ent[a] # Absent /\ BodyLen(ent[a]) = ent[a].size

GetOutcomes(a) ==
    IF closed THEN {<<Miss, ent, flen>>}
    ELSE IF arCur[a] # Absent /\ arCur[a].size = 0
    THEN {<<[out |-> arCur[a].out, size |-> 0], ent, flen>>}
    ELSE IF LocalHit(a) THEN {<<ent[a], ent, flen>>}
    ELSE LET \* a broken entry is pruned: the action file, and the body too
             \* when it exists with the wrong size
             e1 == [ent EXCEPT ![a] = Absent]
             f1 == IF ent[a] # Absent /\ BodyLen(ent[a]) # Absent
                   THEN [flen EXCEPT ![ent[a].out] = Absent] ELSE flen
             \* diskStore.Put of meta m with a body of length n
             Put(m, n) == IF n = m.size
                          THEN {<<m, [e1 EXCEPT ![a] = m],
                                  IF m.size = 0 THEN f1
                                  ELSE [f1 EXCEPT ![m.out] = m.size]>>}
                          ELSE {<<Miss, e1, f1>>}
             Fail == IF Faults THEN {<<Miss, e1, f1>>} ELSE {}
         IN IF arCur[a] # Absent
            THEN Put([out |-> arCur[a].out, size |-> arCur[a].size], arCur[a].len) \cup Fail
            ELSE IF obj[a] = Absent \/ cancelled THEN {<<Miss, e1, f1>>}
            ELSE Put(obj[a], obj[a].size) \cup Fail

(***************************************************************************)
(* work(): the job's steps                                                 *)
(***************************************************************************)
\* SyncFromRemote, errors only logged (the interleavings are in ArStore)
Sync ==
    /\ jpc = "sync"
    /\ \/ fresh /\ UNCHANGED <<arCur, fresh>>
       \/ ~fresh /\ arRemote = NoArchive /\ UNCHANGED <<arCur, fresh>>
       \/ ~fresh /\ arRemote # NoArchive /\ ~bucketClosed
          /\ arCur' = arRemote /\ fresh' = TRUE
       \/ ~fresh /\ arRemote # NoArchive /\ (Faults \/ bucketClosed)
          /\ UNCHANGED <<arCur, fresh>>
    /\ jpc' = "list"
    /\ UNCHANGED <<obj, disk, arRemote, life, failed, planned, uploaded, pool>>

\* step1, the listing: every small object whose key decodes
List ==
    /\ jpc = "list"
    /\ \/ /\ ~bucketClosed /\ ~cancelled
          /\ planned' = [a \in Actions |-> IF obj[a] = Absent THEN Absent ELSE obj[a].size]
          /\ jpc' = IF \A a \in Actions : obj[a] = Absent THEN "cleanUp" ELSE "diff"
          /\ UNCHANGED failed
       \/ /\ Faults \/ bucketClosed \/ cancelled
          /\ jpc' = "cleanUp" /\ failed' = TRUE /\ UNCHANGED planned
    /\ UNCHANGED <<obj, disk, arCur, arRemote, fresh, life, uploaded, pool>>

\* step1, the diff against GetArchive and the threshold
NewlyAdded == {a \in Actions : planned[a] # Absent /\ arCur[a] = Absent}
Diff ==
    /\ jpc = "diff"
    /\ jpc' = IF Cardinality(NewlyAdded) < AtLeastAdd THEN "cleanUp" ELSE "create"
    /\ UNCHANGED <<obj, disk, arCur, arRemote, fresh, life, failed, planned, uploaded, pool>>

\* step2 up to StopAndWait: the temp file, the writer goroutine, one get
\* task per listed item
Create ==
    /\ jpc = "create"
    /\ \/ /\ Faults
          /\ jpc' = "cleanUp" /\ failed' = TRUE /\ UNCHANGED <<queue, wpc, tmp>>
       \/ /\ tmp' = TRUE /\ wpc' = "run"
          /\ queue' = {a \in Actions : planned[a] # Absent}
          /\ jpc' = "stopWait" /\ UNCHANGED failed
    /\ UNCHANGED <<obj, disk, arCur, arRemote, fresh, life, planned, uploaded, wk, ch, chClosed,
                   newAr, panicked>>

\* mutant: resultQueue closed once the tasks are submitted, without waiting
\* for the running ones
StopWaitNoWait ==
    /\ jpc = "stopWait"
    /\ queue = {}
    /\ chClosed' = TRUE /\ jpc' = "writerWait"
    /\ UNCHANGED <<obj, disk, arCur, arRemote, fresh, life, failed, planned, uploaded, queue, wk,
                   ch, wpc, newAr, tmp, panicked>>

\* getQueue.StopAndWait(); close(resultQueue)
StopWait ==
    /\ jpc = "stopWait"
    /\ queue = {} /\ \A w \in Workers : wk[w] = None
    /\ chClosed' = TRUE /\ jpc' = "writerWait"
    /\ UNCHANGED <<obj, disk, arCur, arRemote, fresh, life, failed, planned, uploaded, queue, wk,
                   ch, wpc, newAr, tmp, panicked>>

\* mutant: step3 starts without <-arWriteFinish
WriterWaitNoWait ==
    /\ jpc = "writerWait"
    /\ jpc' = "ingest"
    /\ UNCHANGED <<obj, disk, arCur, arRemote, fresh, life, failed, planned, uploaded, pool>>

\* <-arWriteFinish
WriterWait ==
    /\ jpc = "writerWait" /\ wpc = "exit"
    /\ jpc' = "ingest"
    /\ UNCHANGED <<obj, disk, arCur, arRemote, fresh, life, failed, planned, uploaded, pool>>

\* mutant: a failing step3 returns without the deferred cleanUp
IngestNoCleanUp ==
    /\ jpc = "ingest"
    /\ \/ Faults /\ jpc' = "done" /\ failed' = TRUE /\ UNCHANGED arCur
       \/ arCur' = newAr /\ jpc' = "upload" /\ UNCHANGED failed
    /\ UNCHANGED <<obj, disk, arRemote, fresh, life, planned, uploaded, pool>>

\* step3: close the writer and the file, then IngestNewArchive's local Put
Ingest ==
    /\ jpc = "ingest"
    /\ \/ Faults /\ jpc' = "cleanUp" /\ failed' = TRUE /\ UNCHANGED arCur
       \/ arCur' = newAr /\ jpc' = "upload" /\ UNCHANGED failed
    /\ UNCHANGED <<obj, disk, arRemote, fresh, life, planned, uploaded, pool>>

\* IngestNewArchive's upload, under context.Background with a 10 s timeout
Upload ==
    /\ jpc = "upload"
    /\ \/ (Faults \/ bucketClosed) /\ failed' = TRUE /\ UNCHANGED <<arRemote, fresh, uploaded>>
       \/ ~bucketClosed /\ arRemote' = newAr /\ fresh' = TRUE /\ uploaded' = TRUE
          /\ UNCHANGED failed
    /\ jpc' = "cleanUp"
    /\ UNCHANGED <<obj, disk, arCur, life, planned, pool>>

\* the deferred cleanUp: the temp file is removed
CleanUp ==
    /\ jpc = "cleanUp"
    /\ tmp' = FALSE /\ jpc' = "done"
    /\ UNCHANGED <<obj, disk, arCur, arRemote, fresh, life, failed, planned, uploaded, queue, wk,
                   ch, chClosed, wpc, newAr, panicked>>

(***************************************************************************)
(* The get pool (pond, 32 workers, WithContext(lifecycle))                 *)
(***************************************************************************)
TaskStart(w) ==
    /\ wk[w] = None
    /\ \E a \in queue : wk' = [wk EXCEPT ![w] = a] /\ queue' = queue \ {a}
    /\ UNCHANGED <<obj, disk, arCur, arRemote, fresh, life, job, ch, chClosed, wpc,
                   newAr, tmp, panicked>>

\* the cancelled pool drops the tasks not started yet
Discard ==
    /\ cancelled /\ queue # {}
    /\ queue' = {}
    /\ UNCHANGED <<obj, disk, arCur, arRemote, fresh, life, job, wk, ch, chClosed, wpc,
                   newAr, tmp, panicked>>

\* mutant: the task sends the response without checking resp.Miss
TaskRunNoMissCheck(w) ==
    /\ wk[w] # None
    /\ \E o \in GetOutcomes(wk[w]) :
          /\ ent' = o[2] /\ flen' = o[3]
          /\ LET r == [act |-> wk[w], out |-> o[1].out, size |-> o[1].size]
             IN IF chClosed THEN panicked' = TRUE /\ UNCHANGED ch
                            ELSE ch' = Append(ch, r) /\ UNCHANGED panicked
    /\ wk' = [wk EXCEPT ![w] = None]
    /\ UNCHANGED <<obj, arCur, arRemote, fresh, life, job, queue, chClosed, wpc, newAr, tmp>>

\* the task body: BlobCache.Get, then resultQueue <- result on a hit
TaskRun(w) ==
    /\ wk[w] # None
    /\ \E o \in GetOutcomes(wk[w]) :
          /\ ent' = o[2] /\ flen' = o[3]
          /\ IF o[1] # Miss
             THEN LET r == [act |-> wk[w], out |-> o[1].out, size |-> o[1].size]
                  IN IF chClosed THEN panicked' = TRUE /\ UNCHANGED ch
                                 ELSE ch' = Append(ch, r) /\ UNCHANGED panicked
             ELSE UNCHANGED <<ch, panicked>>
    /\ wk' = [wk EXCEPT ![w] = None]
    /\ UNCHANGED <<obj, arCur, arRemote, fresh, life, job, queue, chClosed, wpc, newAr, tmp>>

(***************************************************************************)
(* The writer goroutine and ArWriter.Add                                   *)
(***************************************************************************)
\* ArWriter.Add(name, meta, data): refuses data whose length is not meta.Size
ArAdd(ar, a, m, n) ==
    IF n = m.size THEN [ar EXCEPT ![a] = [out |-> m.out, size |-> m.size, len |-> n]]
                  ELSE ar

\* one result: ReadFile, the two size checks, Add; every failure skips it
WriterStep ==
    /\ wpc = "run" /\ ch # <<>>
    /\ LET r == Head(ch)
           n == BodyLen(r)
       IN \/ /\ (n = Absent \/ Faults)                  \* ReadFile failed
             /\ UNCHANGED newAr
          \/ /\ n # Absent
             /\ IF n # r.size \/ r.size # planned[r.act]
                THEN UNCHANGED newAr                     \* corrupted: skipped
                ELSE \/ newAr' = ArAdd(newAr, r.act, [out |-> r.out, size |-> r.size], n)
                     \/ Faults /\ UNCHANGED newAr       \* Add failed
    /\ ch' = Tail(ch)
    /\ UNCHANGED <<obj, disk, arCur, arRemote, fresh, life, job, queue, wk, chClosed, wpc,
                   tmp, panicked>>

\* mutant: the writer receives without the ok check and keeps looping on
\* the zero value of the closed channel
WriterExitNoOk ==
    /\ wpc = "run" /\ ch = <<>> /\ chClosed
    /\ UNCHANGED vars

\* r, ok := <-resultQueue with !ok: close(arWriteFinish)
WriterExit ==
    /\ wpc = "run" /\ ch = <<>> /\ chClosed
    /\ wpc' = "exit"
    /\ UNCHANGED <<obj, disk, arCur, arRemote, fresh, life, job, queue, wk, ch, chClosed,
                   newAr, tmp, panicked>>

(***************************************************************************)
(* The environment: BlobBackend.Close (part_002:389-426) and the bucket's  *)
(* lifecycle rules                                                         *)
(***************************************************************************)
CloseFlag ==
    /\ Closing /\ ~closed
    /\ closed' = TRUE
    /\ UNCHANGED <<obj, disk, arCur, arRemote, fresh, cancelled, bucketClosed, job, pool>>

\* the drain timed out: lifecycleClose()
Cancel ==
    /\ closed /\ ~cancelled
    /\ cancelled' = TRUE
    /\ UNCHANGED <<obj, disk, arCur, arRemote, fresh, closed, bucketClosed, job, pool>>

\* the deferred bucket.Close()
BucketClose ==
    /\ closed /\ ~bucketClosed
    /\ bucketClosed' = TRUE
    /\ UNCHANGED <<obj, disk, arCur, arRemote, fresh, closed, cancelled, job, pool>>

Expire(a) ==
    /\ obj[a] # Absent
    /\ obj' = [obj EXCEPT ![a] = Absent]
    /\ UNCHANGED <<disk, arCur, arRemote, fresh, life, job, pool>>

Job == Sync \/ List \/ Diff \/ Create \/ StopWait \/ WriterWait \/ Ingest \/ Upload \/ CleanUp
Writer == WriterStep \/ WriterExit
Env == CloseFlag \/ Cancel \/ BucketClose \/ Discard \/ \E a \in Actions : Expire(a)

Next == Job \/ Writer \/ Env \/ \E w \in Workers : TaskStart(w) \/ TaskRun(w)

\* the job, the writer and every pool worker are goroutines the scheduler runs
Spec == /\ Init /\ [][Next]_vars
        /\ WF_vars(Job) /\ WF_vars(Writer)
        /\ \A w \in Workers : WF_vars(TaskStart(w)) /\ WF_vars(TaskRun(w))

(***************************************************************************)
(* Properties                                                              *)
(***************************************************************************)
\* resultQueue is closed only after StopAndWait: no get task sends on the
\* closed channel, which would panic the daemon (part_001:326-331)
NoSendOnClosedChannel == ~panicked

\* the archive file is sealed once step3 begins: the writer goroutine never
\* adds to it after <-arWriteFinish let the job close and ingest it
ArchiveSealed ==
    [][(jpc \in {"ingest", "upload", "cleanUp", "done"} => newAr' = newAr)]_vars

\* when work() has returned, the deferred cleanUp has removed the temp file
\* and no goroutine of the job (writer or get task) is left running
DoneClean ==
    jpc = "done" => ~tmp /\ wpc # "run" /\ \A w \in Workers : wk[w] = None

\* the job ends whatever the bucket, the disk and Close do
JobTerminates == <>(jpc = "done")

\* an uploaded archive keeps every listed entry whose small object is still
\* in the bucket (the entry is dropped only when the source blob no longer
\* exists, part_001:45-51), and Close cancels the job (spec 4.5)
KeepsLiveEntries ==
    uploaded => \A a \in Actions : planned[a] # Absent /\ obj[a] # Absent => newAr[a] # Absent
=============================================================================
