------------------------------- MODULE ArStore -------------------------------
(***************************************************************************)
(* The archive store (ar.go: ArStore; arlocalstore.go: ArLocalStore) as   *)
(* one BlobBackend process uses it.  NewArStore loads the local archive   *)
(* of every keyspace, then syncs every keyspace from the bucket; after    *)
(* that one compaction job per keyspace syncs again, holds the current    *)
(* reader while it diffs, and may ingest a new archive.  Gets look up an  *)
(* entry in the current reader and open it later.  Other machines upload  *)
(* archives to the bucket; time passes (a sync is skipped for 5 s after   *)
(* the last one); the garbage collector runs the finalizer of an          *)
(* unreachable ArReader, which closes its zip file.  The load goroutines  *)
(* and every sync that passes its interval check end with the deferred   *)
(* stats.Default.Persist(), whose rate limiter is the Stats module.      *)
(*                                                                         *)
(* An archive is a model value of Versions; Broken ones fail to open as a *)
(* zip.  A reader is a number: made[r] is the archive reader r opened.    *)
(***************************************************************************)
EXTENDS Naturals, Sequences, FiniteSets, Stats

CONSTANTS
    Keyspaces,    \* keyspaces; the compaction job of k is the process k
    Getters,      \* goroutines of BlobBackend.get
    Versions,     \* archive contents
    Broken,       \* the ones NewArReader rejects
    InitRemote,   \* archives the bucket may hold at start
    InitLocal,    \* archives a previous run may have left on disk
    Faults        \* whether bucket and file-system calls may fail

VARIABLES
    remoteAr,     \* blobar/<k>.zip in the bucket
    file,         \* ArchiveFilePath(workDir, k) on disk
    readers,      \* ArLocalStore.readers: the reader served for k, 0 if none
    made,         \* made[r]: the archive reader r was opened on
    closedR,      \* readers whose zip file is closed
    fresh,        \* lastSyncAt[k] is less than ArStoreMinSyncInterval ago
    phase,        \* NewArStore: "load", "sync", then "ready"
    loaded,       \* keyspaces whose LoadLocal has run
    synced,       \* keyspaces whose initial sync has run
    pc, arg,      \* per process: program counter and current ArStore call
    hold,         \* the *ArReader a process references (0 if none)
    entry,        \* the reader whose ArEntry a get holds (0 if none)
    used,         \* archives already ingested or uploaded by others
    seen          \* history: the archives of k that were offered to the store

arVars == <<remoteAr, file, readers, made, closedR, fresh, phase, loaded, synced,
            pc, arg, hold, entry, used, seen>>
vars == <<arVars, statsVars>>
store == <<remoteAr, file, readers, made, closedR, fresh>>
boot == <<phase, loaded, synced>>
hist == <<used, seen>>

Procs == Keyspaces \cup Getters
Ids == 1..Len(made)
Ver(r) == IF r = 0 THEN None ELSE made[r]
Calls == [op : {"load", "sync", "ingest"}, ks : Keyspaces, ver : Versions \cup {None}, cont : STRING]
NoCall == [op |-> "sync", ks |-> CHOOSE k \in Keyspaces : TRUE, ver |-> None, cont |-> "idle"]

TypeOK ==
    /\ remoteAr \in [Keyspaces -> Versions \cup {None}]
    /\ file \in [Keyspaces -> Versions \cup {None}]
    /\ made \in Seq(Versions)
    /\ readers \in [Keyspaces -> {0} \cup Ids]
    /\ closedR \subseteq Ids
    /\ fresh \in [Keyspaces -> BOOLEAN]
    /\ phase \in {"load", "sync", "ready"}
    /\ loaded \subseteq Keyspaces /\ synced \subseteq Keyspaces
    /\ arg \in [Procs -> Calls]
    /\ hold \in [Procs -> {0} \cup Ids]
    /\ entry \in [Procs -> {0} \cup Ids]
    /\ used \subseteq Versions
    /\ seen \in [Keyspaces -> SUBSET Versions]
    /\ StatsTypeOK(Procs)

Init ==
    /\ remoteAr \in [Keyspaces -> InitRemote \cup {None}]
    /\ file \in [Keyspaces -> InitLocal \cup {None}]
    /\ readers = [k \in Keyspaces |-> 0]
    /\ made = <<>> /\ closedR = {}
    /\ fresh = [k \in Keyspaces |-> FALSE]
    /\ phase = "load" /\ loaded = {} /\ synced = {}
    /\ pc = [p \in Procs |-> IF p \in Keyspaces THEN "init" ELSE "idle"]
    /\ arg = [p \in Procs |-> NoCall]
    /\ hold = [p \in Procs |-> 0]
    /\ entry = [p \in Procs |-> 0]
    /\ used = InitRemote \cup InitLocal
    /\ seen = [k \in Keyspaces |-> {remoteAr[k], file[k]} \ {None}]
    /\ StatsInit

\* a fresh reader opened on archive v, referenced by process p
Open(p, v) ==
    /\ made' = Append(made, v)
    /\ hold' = [hold EXCEPT ![p] = Len(made) + 1]

\* process p returns from its call
Leave(p) ==
    /\ pc' = [pc EXCEPT ![p] = arg[p].cont]
    /\ arg' = [arg EXCEPT ![p] = NoCall]

\* ... through the deferred Persist of SyncFromRemote
Return(p) ==
    IF arg[p].op = "sync"
    THEN pc' = [pc EXCEPT ![p] = "persist"] /\ UNCHANGED arg
    ELSE Leave(p)
-----------------------------------------------------------------------------
(* NewArStore, arlocalstore.go:41-56: LoadLocal of every keyspace.  A      *)
(* missing file is skipped; a stat error or a file that does not open as  *)
(* an archive is only logged; else the reader is set.                     *)
LoadLocal(k) ==
    /\ phase = "load" /\ k \notin loaded
    /\ loaded' = loaded \cup {k}
    /\ pc' = [pc EXCEPT ![k] = "persist"]
    /\ arg' = [arg EXCEPT ![k] = [op |-> "load", ks |-> k, ver |-> None, cont |-> "init"]]
    /\ \/ /\ file[k] \in Versions \ Broken
          /\ made' = Append(made, file[k])
          /\ readers' = [readers EXCEPT ![k] = Len(made) + 1]
       \/ /\ file[k] \notin Versions \ Broken \/ Faults
          /\ UNCHANGED <<made, readers>>
    /\ UNCHANGED <<remoteAr, file, closedR, fresh, phase, synced, hold, entry, hist>>

\* ar.go:169-190: the loads, with their deferred Persist, are waited for,
\* then every keyspace is synced
LoadDone ==
    /\ phase = "load" /\ loaded = Keyspaces
    /\ \A k \in Keyspaces : pc[k] = "init"
    /\ phase' = "sync"
    /\ UNCHANGED <<store, loaded, synced, pc, arg, hold, entry, hist>>

StartInitSync(k) ==
    /\ phase = "sync" /\ pc[k] = "init"
    /\ pc' = [pc EXCEPT ![k] = "syncCheck"]
    /\ arg' = [arg EXCEPT ![k] = [op |-> "sync", ks |-> k, ver |-> None, cont |-> "initDone"]]
    /\ UNCHANGED <<store, boot, hold, entry, hist>>

InitDone(k) ==
    /\ pc[k] = "initDone"
    /\ synced' = synced \cup {k}
    /\ pc' = [pc EXCEPT ![k] = "waitReady"]
    /\ UNCHANGED <<store, phase, loaded, arg, hold, entry, hist>>

\* NewArStore returns; BlobBackend.Open starts Compact (part_002:105-122)
SyncAllDone ==
    /\ phase = "sync" /\ synced = Keyspaces
    /\ phase' = "ready"
    /\ UNCHANGED <<store, loaded, synced, pc, arg, hold, entry, hist>>

-----------------------------------------------------------------------------
(* SyncFromRemote, ar.go:207-250.  Skipped while lastSyncAt is fresh; a    *)
(* missing archive is not an error; the stream is the bucket's archive at *)
(* NewReader time; only a successful local Put refreshes lastSyncAt.      *)
SyncCheck(p) ==
    /\ pc[p] = "syncCheck"
    /\ \/ fresh[arg[p].ks] /\ Leave(p)
       \/ ~fresh[arg[p].ks] /\ pc' = [pc EXCEPT ![p] = "syncOpen"] /\ UNCHANGED arg
    /\ UNCHANGED <<store, boot, hold, entry, hist>>

\* mutant: NotFound is not told apart from a found archive
SyncOpenNoNotFound(p) ==
    LET k == arg[p].ks IN
    /\ pc[p] = "syncOpen"
    /\ \/ Faults /\ Return(p)
       \/ /\ arg' = [arg EXCEPT ![p].ver = remoteAr[k]]
          /\ pc' = [pc EXCEPT ![p] = "putCopy"]
    /\ UNCHANGED <<store, boot, hold, entry, hist>>

SyncOpen(p) ==
    LET k == arg[p].ks IN
    /\ pc[p] = "syncOpen"
    /\ \/ remoteAr[k] = None /\ Return(p)
       \/ Faults /\ Return(p)
       \/ /\ remoteAr[k] # None
          /\ arg' = [arg EXCEPT ![p].ver = remoteAr[k]]
          /\ pc' = [pc EXCEPT ![p] = "putCopy"]
    /\ UNCHANGED <<store, boot, hold, entry, hist>>

SyncDone(p) ==
    /\ pc[p] = "syncDone"
    /\ fresh' = [fresh EXCEPT ![arg[p].ks] = TRUE]
    /\ Return(p)
    /\ UNCHANGED <<remoteAr, file, readers, made, closedR, boot, hold, entry, hist>>

-----------------------------------------------------------------------------
(* ArLocalStore.Put, arlocalstore.go:58-102: copy the stream to a unique   *)
(* temporary file, open it as an archive, rename it onto the archive path *)
(* (open readers keep the old file), then set the new reader.             *)
PutCopy(p) ==
    /\ pc[p] = "putCopy"
    /\ \/ Faults /\ Return(p)
       \/ pc' = [pc EXCEPT ![p] = "putOpen"] /\ UNCHANGED arg
    /\ UNCHANGED <<store, boot, hold, entry, hist>>

\* mutant: the temporary file is installed without opening it as an archive
PutOpenNoCheck(p) ==
    /\ pc[p] = "putOpen"
    /\ Open(p, arg[p].ver)
    /\ pc' = [pc EXCEPT ![p] = "putRename"]
    /\ UNCHANGED arg
    /\ UNCHANGED <<remoteAr, file, readers, closedR, fresh, boot, entry, hist>>

PutOpen(p) ==
    /\ pc[p] = "putOpen"
    /\ \/ /\ arg[p].ver \in Broken
          /\ Return(p)
          /\ UNCHANGED <<made, hold>>
       \/ /\ arg[p].ver \notin Broken
          /\ Open(p, arg[p].ver)
          /\ pc' = [pc EXCEPT ![p] = "putRename"]
          /\ UNCHANGED arg
    /\ UNCHANGED <<remoteAr, file, readers, closedR, fresh, boot, entry, hist>>

\* mutant: the failed rename closes the served reader instead of its own
PutRenameCloseServed(p) ==
    /\ pc[p] = "putRename"
    /\ \/ /\ Faults
          /\ closedR' = closedR \cup ({readers[arg[p].ks]} \ {0})
          /\ hold' = [hold EXCEPT ![p] = 0]
          /\ Return(p)
          /\ UNCHANGED file
       \/ /\ file' = [file EXCEPT ![arg[p].ks] = arg[p].ver]
          /\ pc' = [pc EXCEPT ![p] = "putSet"]
          /\ UNCHANGED <<closedR, hold, arg>>
    /\ UNCHANGED <<remoteAr, readers, made, fresh, boot, entry, hist>>

\* os.Rename fails: the new reader is closed and the temporary file removed
PutRename(p) ==
    /\ pc[p] = "putRename"
    /\ \/ /\ Faults
          /\ closedR' = closedR \cup {hold[p]}
          /\ hold' = [hold EXCEPT ![p] = 0]
          /\ Return(p)
          /\ UNCHANGED file
       \/ /\ file' = [file EXCEPT ![arg[p].ks] = arg[p].ver]
          /\ pc' = [pc EXCEPT ![p] = "putSet"]
          /\ UNCHANGED <<closedR, hold, arg>>
    /\ UNCHANGED <<remoteAr, readers, made, fresh, boot, entry, hist>>

\* set, arlocalstore.go:104-114: the old reader is left to its finalizer
PutSet(p) ==
    /\ pc[p] = "putSet"
    /\ readers' = [readers EXCEPT ![arg[p].ks] = hold[p]]
    /\ hold' = [hold EXCEPT ![p] = 0]
    /\ pc' = [pc EXCEPT ![p] = IF arg[p].op = "sync" THEN "syncDone" ELSE "ingestUpload"]
    /\ UNCHANGED <<remoteAr, file, made, closedR, fresh, boot, arg, entry, hist>>

\* IngestNewArchive, ar.go:253-285: after the local Put, upload (last
\* writer wins) and refresh lastSyncAt
IngestUpload(p) ==
    LET k == arg[p].ks IN
    /\ pc[p] = "ingestUpload"
    /\ \/ Faults /\ UNCHANGED <<remoteAr, fresh>>
       \/ /\ remoteAr' = [remoteAr EXCEPT ![k] = arg[p].ver]
          /\ fresh' = [fresh EXCEPT ![k] = TRUE]
    /\ Return(p)
    /\ UNCHANGED <<file, readers, made, closedR, boot, hold, entry, hist>>
-----------------------------------------------------------------------------
(* The compaction job of k (part_001:362-390): SyncFromRemote, then        *)
(* step1 holds GetArchive's reader while it diffs the listing against it, *)
(* then either stops (too few new blobs, a failed step) or ingests a new  *)
(* archive it has built.                                                  *)
JobStart(k) ==
    /\ pc[k] = "waitReady" /\ phase = "ready"
    /\ pc' = [pc EXCEPT ![k] = "syncCheck"]
    /\ arg' = [arg EXCEPT ![k] = [op |-> "sync", ks |-> k, ver |-> None, cont |-> "jobAr"]]
    /\ UNCHANGED <<store, boot, hold, entry, hist>>

JobAr(k) ==
    /\ pc[k] = "jobAr"
    /\ hold' = [hold EXCEPT ![k] = readers[k]]
    /\ pc' = [pc EXCEPT ![k] = "jobDiff"]
    /\ UNCHANGED <<store, boot, arg, entry, hist>>

JobDiff(k) ==
    /\ pc[k] = "jobDiff"
    /\ hold' = [hold EXCEPT ![k] = 0]
    /\ \/ /\ pc' = [pc EXCEPT ![k] = "done"]
          /\ UNCHANGED <<arg, hist>>
       \/ \E v \in Versions \ (used \cup Broken) :
            /\ used' = used \cup {v}
            /\ seen' = [seen EXCEPT ![k] = @ \cup {v}]
            /\ arg' = [arg EXCEPT ![k] = [op |-> "ingest", ks |-> k, ver |-> v, cont |-> "done"]]
            /\ pc' = [pc EXCEPT ![k] = "putCopy"]
    /\ UNCHANGED <<store, boot, entry>>

(* BlobBackend.get: GetBlob (ar.go:291-307) returns the entry of the       *)
(* current reader; the reader itself is not kept (part_002:179).  The      *)
(* entry is opened and read later (part_002:205-220).                      *)
GetBlob(g, k) ==
    /\ phase = "ready" /\ pc[g] = "idle"
    /\ readers[k] # 0
    /\ entry' = [entry EXCEPT ![g] = readers[k]]
    /\ pc' = [pc EXCEPT ![g] = "getUse"]
    /\ UNCHANGED <<store, boot, arg, hold, hist>>

GetUse(g) ==
    /\ pc[g] = "getUse"
    /\ entry' = [entry EXCEPT ![g] = 0]
    /\ pc' = [pc EXCEPT ![g] = "idle"]
    /\ UNCHANGED <<store, boot, arg, hold, hist>>

-----------------------------------------------------------------------------
\* ArStoreMinSyncInterval passes
Tick(k) ==
    /\ fresh[k]
    /\ fresh' = [fresh EXCEPT ![k] = FALSE]
    /\ UNCHANGED <<remoteAr, file, readers, made, closedR, boot, pc, arg, hold, entry, hist>>

\* another machine's compaction uploads its archive of k
Publish(k, v) ==
    /\ v \in Versions \ (used \cup Broken)
    /\ remoteAr' = [remoteAr EXCEPT ![k] = v]
    /\ used' = used \cup {v}
    /\ seen' = [seen EXCEPT ![k] = @ \cup {v}]
    /\ UNCHANGED <<file, readers, made, closedR, fresh, boot, pc, arg, hold, entry>>

\* the finalizer set in arlocalstore.go:106-108 runs once no *ArReader
\* references the reader: not the map, not a local variable
Finalize(r) ==
    /\ r \in Ids \ closedR
    /\ \A k \in Keyspaces : readers[k] # r
    /\ \A p \in Procs : hold[p] # r
    /\ closedR' = closedR \cup {r}
    /\ UNCHANGED <<remoteAr, file, readers, made, fresh, boot, pc, arg, hold, entry, hist>>

(* The deferred stats.Default.Persist() of a load goroutine (ar.go:170)  *)
(* and of SyncFromRemote past its interval check (ar.go:222), after which *)
(* the call returns.                                                       *)
PersistCall(p) ==
    /\ \/ pc[p] = "persist" /\ PersistSkip(p, tpc) /\ Leave(p)
       \/ /\ pc[p] = "persist" /\ PersistTake(p, tpc)
          /\ pc' = [pc EXCEPT ![p] = "persistSave"] /\ UNCHANGED arg
       \/ pc[p] = "persistSave" /\ PersistSave(p, tpc) /\ Leave(p)
    /\ UNCHANGED <<store, boot, hold, entry, hist>>

-----------------------------------------------------------------------------
\* the steps of an ArStore call made by process p
Call(p) ==
    \/ SyncCheck(p) \/ SyncOpen(p) \/ SyncDone(p)
    \/ PutCopy(p) \/ PutOpen(p) \/ PutRename(p) \/ PutSet(p) \/ IngestUpload(p)

Job(k) ==
    \/ /\ \/ StartInitSync(k) \/ InitDone(k) \/ JobStart(k) \/ JobAr(k) \/ JobDiff(k)
          \/ Call(k)
       /\ UNCHANGED statsVars
    \/ PersistCall(k)

Boot ==
    /\ LoadDone \/ SyncAllDone \/ \E k \in Keyspaces : LoadLocal(k)
    /\ UNCHANGED statsVars

\* the clock and the timers of the stats rate limiter
StatsTimers ==
    /\ StatsTick \/ \E t \in Timers : Fire(t) \/ TimerPersist(t)
    /\ UNCHANGED arVars

Next ==
    \/ Boot
    \/ \E k \in Keyspaces : Job(k)
    \/ /\ \/ \E g \in Getters : GetUse(g) \/ \E k \in Keyspaces : GetBlob(g, k)
          \/ \E k \in Keyspaces : Tick(k) \/ \E v \in Versions : Publish(k, v)
          \/ \E r \in Ids : Finalize(r)
       /\ UNCHANGED statsVars
    \/ StatsTimers

\* NewArStore's goroutines and each compaction job are scheduled, and so
\* are the Go runtime's timers, whose time passes; gets, other machines,
\* the 5 s sync interval and the collector need not act.
Spec ==
    /\ Init /\ [][Next]_vars
    /\ WF_vars(Boot)
    /\ \A k \in Keyspaces : WF_vars(Job(k))
    /\ WF_vars(StatsTick /\ UNCHANGED arVars)
    /\ \A t \in Timers : WF_vars(Fire(t) /\ UNCHANGED arVars)
                        /\ WF_vars(TimerPersist(t) /\ UNCHANGED arVars)

-----------------------------------------------------------------------------
(* ArLocalStore/ArStore implement ArchiveMap: the served reader of a       *)
(* keyspace changes only by set, to a reader of an archive that opened and *)
(* that the bucket, the disk or an ingest offered; it is never removed.    *)
AM == INSTANCE ArchiveMap WITH current <- [k \in Keyspaces |-> Ver(readers[k])],
                               remote <- remoteAr, offered <- seen
ArchiveMapRefined == AM!Spec

(* Spec section 5: installed readers are never closed while still       *)
(* mapped.  The reader that set installed for a keyspace is open, whatever *)
(* failed Puts (arlocalstore.go:93-95 closes the reader it just opened),  *)
(* syncs, ingests and the collector's finalizers did before.              *)
ServedReaderOpen == \A k \in Keyspaces : readers[k] # 0 => readers[k] \notin closedR

(* Spec section 4.4: a replaced reader is never closed while a consumer   *)
(* still uses it.  A get holds the ArEntry it looked up, and opens it     *)
(* after the disk lookup; its reader must not be closed meanwhile.        *)
EntryUsable == \A g \in Getters : entry[g] # 0 => entry[g] \notin closedR
=============================================================================
