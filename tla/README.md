# TLA+ models of gscache

gscache is a Go build cache. The Go toolchain talks to it through the
`GOCACHEPROG` protocol. A long-running daemon serves the requests from a
local disk cache, which can be backed by a remote blob store. This
directory holds TLA+ models of gscache's concurrent parts, and TLC
configurations that check them.

## The system's parts and how they interact

| Part | Source | State | Operations |
|------|--------|-------|------------|
| cacheprog engine | `internal/cacheprog/cacheprog.go`, `internal/util/linereader.go` | request reader, one `io.Pipe` per put body, a `WaitGroup` of handler goroutines, a response mutex | `readLoop`, `runAsync`, `writeResponse`, `Run` |
| HTTP client / server | `internal/client/base.go`, `unnamed/part_008`, `unnamed/part_009` | connections; the server's HTTP shutdown and `backend.Close` run in parallel | `CallPut`/`CallGet`, `handleCachePut`/`handleCacheGet`, `Run` |
| local disk cache | `internal/cache/backends/local/local.go` | `a/<ActionID>` files holding an `EntryMeta`, `o/<OutputID>` body files, `closed`, one single-flight group for Get and one for Put | `Get`, `Put`, `Close`, `get`, `put`, `markRecentlyUsed` |
| blob backend | `unnamed/part_002` | a local disk cache, an archive store, remote objects, an upload pool, an `sfUpload` group, a lifecycle context | `Open`, `Get` (archive, disk, remote tiers), `Put` (disk, then background upload), `Close`, `Compact` |
| archive store | `internal/cache/backends/blob/ar.go`, `arlocalstore.go` | one archive reader per keyspace, the last sync time | `NewArStore`, `SyncFromRemote`, `IngestNewArchive`, `GetBlob`; `ArLocalStore.Put`/`set` hot-swap readers |
| compaction job | `unnamed/part_001` | the object listing, the archive under construction | `step1` (list and diff), `step2` (32 workers fetch, one writer), `step3` (ingest), `cleanUp` |
| daemon life cycle | `cmd/gscache/daemon.go`, `prog.go`, `stats.go`, `unnamed/part_007`, `part_009` | the `.gscache_daemon.lock` work-dir lock, the listening port, one lifecycle context per daemon process | `ensureDaemonRunning`, `WaitServerAlive`, `ShutdownAndWait`, the `prog`/`daemon start`/`stop`/`restart` commands, `runAsServer`, `Server.Run`, the inactivity monitor |
| stats rate limiter | `internal/stats/persist.go`, `cmd/gscache/stats.go` | `Metrics.mu`, the last persist time, `pendingPersist` (an `AfterFunc` timer), `stats.json` | `Persist`, `ForcePersist`, `saveToFile`, the timer callback |
| EntryMeta codec | `internal/cache/entrymeta.go` | none | `WriteTo`, `ReadEntryMeta` |
| key codec | `internal/cache/backends/blob/key.go` | none | `CacheEntityKey`, `DecodeCacheEntityKey` |

The Go command sends requests over one pipe. The cacheprog engine runs
each `get`/`put` in its own goroutine and forwards it over HTTP to the
daemon. The daemon's handlers call a backend, local or blob. So each
request becomes a goroutine inside the backend, and many run at once.
Every `gscache prog` first makes sure a daemon runs: it pings the daemon,
and if nothing answers it spawns `gscache server` and waits until a ping
succeeds. A daemon takes a lock file in the work dir before it serves.
The blob backend also runs a compaction job per keyspace. The job packs
small remote blobs into a zip archive, which the archive store then
serves.

What makes the system hard:

- Get and Put of one ActionID are de-duplicated in *different*
  single-flight groups, so they run concurrently on the same files.
- Files are written to a temporary name and renamed, but nothing is
  fsynced. After a machine crash, a renamed file can be short or
  missing.
- A put body is streamed through an `io.Pipe`. The read loop blocks
  until the handler consumes the body.
- The blob backend uploads in a background pool. `Close` stops the pool,
  and cancels the lifecycle context only when closing times out.
- Archive readers are swapped while gets still hold the previous one. A
  finalizer, not `Close`, releases the old reader.
- Separate processes start, stop and restart the daemon, and they learn
  its state only through pings. The daemon stops answering pings long
  before it releases the work-dir lock.
- Compaction fetches through a pool of 32 goroutines that feed a
  buffered channel. A single writer drains it, and `Close` can interrupt
  any of these steps.

## Modules

### LocalCache (`LocalCache.tla`, `MCLocalCache.tla`)

Models `local.go`. State:

- `actionFile[a]`: the `EntryMeta` record `[out, size]` in `a/<a>`,
  `Absent`, or `Garbage` (a file `ReadEntryMeta` rejects);
- `outputFile[o]`: the length of `o/<o>`, or `Absent`;
- `closed`, and `sfGet`/`sfPut`: the leader of each single-flight call;
- per goroutine: `pc`, `req`, `meta` (the record `get` decoded) and
  `resp`;
- `committed`: a history variable holding the ActionIDs whose Put
  returned success since the last crash;
- `crashes`: the number of crashes so far.

Each action is one observable file-system step of a handler:

- `StartGet`/`StartPut` (`Get`/`Put`): rejected when closed. Otherwise
  the goroutine joins a running flight of the ActionID, or leads a new
  one.
- `GetOpen`: opens and decodes the action file.
  - A missing or undecodable file is a miss.
  - Size 0 is a hit on `_empty.output`.
  - Anything else continues to `GetStat`.
- `GetStat`: a body of the recorded length is a hit (the mtime touch of
  `markRecentlyUsed` is not observable). A missing body leads to
  removing the action file. A body of the wrong length leads to
  removing both files.
- `GetPrune`: the removals, then a miss.
- `PutBody`: the body is copied to a temporary file and renamed onto the
  output path, or the copy fails. An empty body reuses `_empty.output`.
- `PutMeta`: the EntryMeta is renamed onto the action path and the Put
  returns, or the step fails.
- `Close`.
- `Crash`: a restart. Every unsynced file can come back truncated or
  missing, and every goroutine is gone.

`EndFlight` hands the leader's result to every goroutine that joined the
flight, as `shardedsingleflight` does.

Data is abstracted:

- ActionIDs and OutputIDs are model values.
- A body is its length.
- The EntryMeta is `[out, size]`; the code never reads the timestamp
  back.

### CacheProg (`CacheProg.tla`, `MCCacheProg.tla`)

Models `cacheprog.go`: `Run`, `readLoop`, the handler goroutines and
`writeResponse`. State:

- `pos`: the position in the request stream `Input`. `Input` is a
  sequence of records `[id, cmd, chunks]`, with the put body cut into
  chunks.
- `rl` and `chunk`: the read loop's program counter and chunk count.
- `pipe`: one per request, with the `pending` chunk and the writer side
  (`open`, `eof` or `err`).
- `h[i]`: the state of each handler.
- `cause`: the first cause of the lifecycle cancel.
- `run`: `Run`'s own progress, and `result`.
- `out`: the response log.
- `goExited`: the Go command closed its end, so reads see EOF and writes
  fail.

Actions:

- `SendCapability`, `RunWait`, `RunReturn`: `Run` writes the capability
  line and waits for the read loop to cancel the context. It then waits
  for the `WaitGroup` (`Running`) and returns.
- `LoopTop`, `ReadRecord`, `ReadBody`, `BodyWritten`, `Exit`: the read
  loop.
  - A record is EOF, a read error, `close`, a get, an unknown command,
    or a put. Gets and unknown commands are dispatched at once.
  - A put's body is then written chunk by chunk into the pipe.
    `pipeWrite.Write` blocks until the handler takes the chunk.
  - The pipe is closed once the body is written.
- `HandleGet`, `PutReadChunk`, `PutReturn`: the handlers. A put handler
  may return before reading its whole body, on a backend error
  (constant `EarlyReturn`).
- `GoExit`: the Go command exits.
- `WriteResponse`: cancels with an error when the response cannot be
  written.

### BlobBackend (`BlobBackend.tla`, `MCBlobBackend.tla`)

Models `BlobBackend` (`unnamed/part_002`) composed with the disk store.
State:

- the disk store's action entries `disk` and bodies `file`;
- the remote objects `remote` and the archive entries `ar`, both
  `[out, size, body]`;
- the close flags and `closePc`;
- the get flight leaders `sfGet`, and the disk-put flights `lput`;
- the upload flights `up[a]`: `[out, size, path, st, pos]`, with `st`
  in `submit`, `queued`, `running`, and `pos` the task's place in the
  pool's FIFO queue (0 when not queued);
- per goroutine: `pc`, `req`, the continuation `cont` after a disk put,
  its request `lreq` and result `lres`, the archive entry `arEntry` read
  at the start of `get`, the downloaded `meta`, and the response `resp`;
- `dropped`: a history of the uploads the stopped pool rejected.

Actions:

- `StartGet`, `EndGet`, `GetArchive`, `GetDisk`, `GetSlowDone`,
  `GetRemote`, `GetDlDone`: the four tiers of `get`.
  - The disk store's `Get` is one atomic step; its races are
    LocalCache's subject.
  - Its `Put` is a flight (`LPutCall`, `LPut`), because goroutines of
    different kinds join it by ActionID: a Put, the archive slow path,
    and a download.
- `StartPut`, `PutUpload`: the disk put, then `sfUpload.DoChan`. DoChan
  starts a flight in its own goroutine (`Submit`) and returns at once.
- `Submit`, `StartTask`, `Upload`: the pool. A submit to a stopped pool
  fails. A submitted task joins the back of the queue, and a free worker
  takes the task at its head (`Dequeue`), as pond's queue does. `Upload` stores the EntryMeta followed by the body read from
  the DiskPath.
- `CloseBegin`, `CloseStopped`, `CloseCancel`, `CloseQuit`: `Close`.

The constants say what the environment offers:

- `Tiers`: the `[remote, ar]` contents the bucket and the archive may
  start from. Another daemon sharing the bucket may have written them.
- `PutOutputs[a]`: the OutputIDs a Put of `a` may carry.
- `GetActions`: the ActionIDs a Get may ask for.

### ArchiveMap and ArStore (`ArchiveMap.tla`, `ArStore.tla`, `MCArStore.tla`)

`ArchiveMap` is what the archive store promises (spec section 4.4):

- Per keyspace, the archive served to readers (`current`) changes only
  to an archive that opens and was offered to the store. An archive is
  offered when it is found in the bucket, left on disk, or handed to
  `IngestNewArchive`.
- A keyspace that is served is never unserved.
- The bucket's archive (`remote`) changes independently.

`ArStore` models `ar.go` and `arlocalstore.go` as one daemon uses them:

- `LoadLocal`, `LoadDone`, `StartInitSync`, `InitDone`, `SyncAllDone`:
  `NewArStore` loads every keyspace's local file, then syncs every
  keyspace.
- `SyncCheck`, `SyncOpen`, `SyncDone`: `SyncFromRemote`.
  - It is skipped within `ArStoreMinSyncInterval` of the last sync
    (`fresh`).
  - A `NotFound` ends it quietly.
  - Otherwise it does a local `Put`.
- `PutCopy`, `PutOpen`, `PutRename`, `PutSet`: `ArLocalStore.Put`. It
  copies to a temporary file, opens it as a zip, renames it, and `set`s
  the reader. `set` installs the finalizer.
- `IngestUpload`: the upload after `IngestNewArchive`'s local put.
- `JobStart`, `JobAr`, `JobDiff`: one compaction job per keyspace. It
  syncs, holds the current reader (`hold`) while it diffs, and may
  ingest a new archive.
- `GetBlob`, `GetUse`: a get looks up an `ArEntry` (`entry`), and opens
  it later, after the disk lookup.
- `Tick`: time passes.
- `Publish`: another machine uploads an archive.
- `Finalize(r)`: the garbage collector closes a reader that no
  `*ArReader` references anymore.
- `PersistCall`, `StatsTimers`: the `Metrics.Persist` calls of the load
  goroutine and of `SyncFromRemote`, and the stats timers (see Stats).

A reader is a number. `made[r]` is the archive it opened, and `closedR`
holds the readers whose zip file is closed. The refinement mapping sends:

- `current` to the archive of `readers[k]`;
- `remote` to `remoteAr`;
- `offered` to the history variable `seen`.

### Stats (`Stats.tla`, composed in `ArStore.tla`)

Models the rate limiter of `Metrics.Persist` (`persist.go:81-108`), with
the counters left out. State:

- `mu`: the goroutine holding `m.mu`, or `None`;
- `recent`: the last save is less than `MinPersistInterval` ago;
- `pending`: `m.pendingPersist`, the timer last armed, or `None`;
- `tpc[t]`: a timer is `idle`, `armed`, its callback is waiting for the
  mutex (`fire`), or it is saving (`save`);
- `owed`: a history variable. Some call returned without saving, and
  nothing has been saved since.

Actions, with `p` the caller:

- `PersistSkip(p, base)`: within the interval, arm a timer unless one is
  pending, and return.
- `PersistTake(p, base)`: stop the pending timer (`Stopped`: `Stop` has
  no effect on a timer that fired), clear `pendingPersist`, take the
  time and keep the mutex.
- `PersistSave(p, base)`: `ForcePersist`'s marshal, temp-file write and
  rename, then the deferred unlock. A failed write is only logged.
- `Fire(t)`, `TimerPersist(t)`: the timer fires once the interval has
  passed, and its callback calls `Persist`.
- `StatsTick`: the interval passes.

`base` is the timers with the caller's own entry as the caller leaves
it. That way a timer callback, which is itself a caller, moves its own
entry in the same step. The module has no `Next` of its own.
`ArStore` composes it with the real callers of `Persist` in the
archive store: the load goroutine (`ar.go:170`, a deferred call) and
`SyncFromRemote` after its interval check (`ar.go:222`). `PersistCall`
takes a goroutine through the three steps. `Leave` then returns to the
continuation, and `Return` routes a sync through the persist. Every
other action of `ArStore` leaves `statsVars` unchanged.

### Compaction (`Compaction.tla`, `MCCompaction.tla`)

Models `work()` of the compaction job (`unnamed/part_001`), composed with
the `BlobBackend.Get` it calls and the `Close` that races it. State:

- the bucket's objects `obj` and archive `arRemote`;
- the disk entries `ent`/`flen`, the current local archive `arCur`, and
  `fresh`;
- the lifecycle flags `closed`, `cancelled`, `bucketClosed`;
- the job's program counter `jpc`, `failed`, and the `planned` list;
- the pond pool: `queue`, the workers `wk`, the buffered result channel
  `ch` and `chClosed`;
- the writer goroutine `wpc`, the archive under construction `newAr`,
  and the temp file `tmp`;
- `panicked` (a send on a closed channel) and `uploaded`.

Actions:

- `Sync`, `List`, `Diff`: `SyncFromRemote` (errors are only logged), the
  listing, and the diff against `GetArchive`. The job stops early when
  fewer than `CompactionAtLeastAddFiles` entries are new.
- `Create`: creates the temp file, the pool, and the writer goroutine.
- `TaskStart`, `TaskRun`: a worker runs `BlobCache.Get` as one step.
  `GetOutcomes` covers every outcome of Get's tiers, including the
  prunes of a damaged disk entry. On a hit the worker sends to the
  result channel.
- `Discard`: the cancelled pool drops queued tasks.
- `WriterStep`, `WriterExit`: the writer reads the body, checks both
  sizes, and calls `ArWriter.Add`. It exits when the channel is closed
  and drained.
- `StopWait`, `WriterWait`: `StopAndWait`, `close(resultQueue)`, and
  `<-arWriteFinish`.
- `Ingest`, `Upload`, `CleanUp`: step3 and the deferred clean-up.
- `CloseFlag`, `Cancel`, `BucketClose`: `Close`'s steps as the job sees
  them.
- `Expire(a)`: the bucket's lifecycle rule deletes an object.

### Daemon (`Daemon.tla`, `MCDaemon.tla`)

Models the daemon's life cycle across processes. Clients are the
commands of `cmd/gscache`, with `Kind[c]` one of `prog`, `start`, `stop`
or `restart`. Daemons are the `gscache server` processes a client may
spawn. State:

- `dpc[d]`: a daemon's progress through `runAsServer` and `Server.Run`:
  `idle` (not spawned), `start`, `lock`, `open`, `serve`, `closing`,
  `exit`;
- `cancelled[d]`: its lifecycle context is cancelled;
- `lock`: the daemon whose pid is in the lock file;
- per client: `cpc`, the daemon it spawned `child`, the requests sent
  `reqs`, and `cmdErr` (the command exited 1).

A ping is answered exactly while some daemon is in `serve`: from
`net.Listen` until the shutdown goroutine's `server.Shutdown` closes the
listener.

Daemon actions:

- `Start`: `runAsServer` and `NewServer`.
- `LockWorkDir`: `TryLock` fails while the pid in the lock file is
  alive.
- `Open`: `backend.Open` and `net.Listen`. A failed Open releases the
  lock through the deferred `Unlock`.
- `IdleShutdown`: the inactivity timer cancels the lifecycle.
- `StopListen`: the listener closes.
- `Finish`: `backend.Close`, `shutdownWg.Wait` and `ForcePersist` are
  done, `Run` returns, and the deferred `Unlock` releases the lock.

Client actions:

- `Ping`, `Spawn`, `WaitServerAlive`, `WaitTimeout`: `ensureDaemonRunning`.
  `WaitServerAlive` checks the ctx, which the child's `Wait` goroutine
  cancels when the child exits, before each ping.
- `Request`, `ProgExit`: the prog's engine, which ignores
  `ensureDaemonRunning`'s error.
- `CallShutdown`, `ShutdownWait`, `ShutdownTimeout`: `ShutdownAndWait`,
  with `handleShutdown` cancelling the lifecycle. `restart` then runs
  `ensureDaemonRunning`; `stop` exits.

`Init` has either no daemon, or one left by an earlier start that is
serving and holds the lock. The contents of `stats.json` are not
modelled; see the hazards.

## Runs

| Run | cfg | Expect | Checks |
|-----|-----|--------|--------|
| local_cache | `MCLocalCache.cfg` | pass | `ServableWithoutCrash`: before any crash, an entry whose Put succeeded stays servable; `EveryRequestAnswered`: every Get/Put, joined ones included, returns |
| engine | `MCCacheProg.cfg` | pass | `TypeOK`; `AnsweredBeforeReturn`: `Run` returns nil only after every handler is done, and every dispatched request is answered unless the Go command went away; `EveryRequestAnswered`; `RunReturnsUnlessAbandoned`: `Run` returns unless a handler finished and left its put body unread; `NoHandlerAfterReturn`: once `Run` has returned, no handler starts, unless the Go command went away. Read errors, the Go command exiting and early-returning handlers are all enabled |
| engine_pipe_hang | `MCCacheProgHang.cfg` | violation | `RunReturns`: the pipe hang below |
| blob_live | `MCBlobBackendLive.cfg` | pass | `TypeOK`; `EveryCallReturns`: every Get and Put, joined ones included, returns; `FlightsEnd`: every upload flight ends, the one queued behind the other ActionID's upload included, with Close |
| blob_upload_lost | `MCBlobBackendUploadLost.cfg` | violation | `NoUploadDropped`: the pool never rejects the upload of a Put that returned |
| blob_corrupt_upload | `MCBlobBackendCorrupt.cfg` | violation | `RemoteWellFormed`: every object's meta matches its payload |
| arstore | `MCArStore.cfg` | pass | `TypeOK`; `ArchiveMapRefined`: `ArStore` implements `ArchiveMap` under the mapping above, with broken archives and failing I/O; `ServedReaderOpen`: the reader a keyspace serves from is never closed, whatever failed Puts, syncs, ingests and finalizers did; `PendingTimerLive`: `pendingPersist` only names a timer that will still call `Persist`; `DeferredSaveRuns`: a save `Persist` put off is eventually made |
| arstore_finalizer | `MCArStoreFinalizer.cfg` | violation | `EntryUsable`: a get's entry is never in a closed reader |
| compaction | `MCCompaction.cfg` | pass | `TypeOK`; `NoSendOnClosedChannel`; `ArchiveSealed`: the new archive is never written once step3 has begun; `DoneClean`: when the job ends, its temp file is gone and none of its goroutines runs; `JobTerminates`. Every call may fail, and Close races the job |
| daemon | `MCDaemon.cfg` | pass | `ExclusiveWorkDir`: at most one daemon is between taking the lock and finishing its close; `CommandsReturn`: every command returns. Two progs and a restart, failing NewServer and Open, and the clients' timeouts |
| daemon_restart | `MCDaemonRestart.cfg` | violation | `RestartSucceeds`: a restart whose ShutdownAndWait saw the daemon stop starts a new daemon |
| compaction_partial | `MCCompactionPartial.cfg` | violation | `KeepsLiveEntries`: an uploaded archive keeps every planned entry whose blob still exists |

Every property of a passing run has a mutant in `PROJECT.json`. A mutant
is a copy of one mapped definition with a plausible bug, and TLC must
catch it.

### Finding: the read loop blocks forever on a put body

`readLoop` writes every chunk of a put body into an `io.Pipe`
(`cacheprog.go:118`), and a pipe write blocks until the reader takes
it. `pipeRead` is never closed. So when the put handler returns without
reading the body, because its backend call failed first, the read loop
blocks forever. `Run` never returns, although `close` follows in the
input.

### Finding: an uploaded object's meta and payload disagree (`blob_corrupt_upload`)

`LocalBackend.Put` joins puts by ActionID (`local.go:110`), as spec
section 4.5 prescribes. A Put of `(a, o1)` that joins a running Put of
`(a, o0)` returns the leader's path, which holds the body of `o0`.

In the blob backend, the joiner then uploads `EntryMeta(o1, |o1|)`
followed by the bytes at that path (`part_002:309-311`, `doBgUpload`).
The spec's data-model invariant forbids an object whose meta and payload
disagree, and every machine sharing the bucket will download it. When
the two bodies have equal length, the disk store's length check accepts
the bad entry.

### Finding: an upload is lost when Close follows Put (`blob_upload_lost`)

`Put` writes the disk entry, hands the upload to `sfUpload.DoChan` and
returns (`part_002:309-314`). The DoChan goroutine calls
`uploadQueue.Submit` later. A `Close` in between stops the pool
(`part_002:396-405`), so `Submit` returns a failed task and the entry
never reaches the bucket. Spec section 4.6.4 says Close waits up to
CLOSE_TIMEOUT for in-flight uploads to drain. TLC finds it in one
goroutine's Put and one Close.

### Finding: a replaced archive reader is closed under a get

`set` installs a finalizer that closes the reader's zip file
(`arlocalstore.go:106`). `BlobBackend.get` keeps only the `*ArEntry`
across the disk lookup, not the `*ArReader`. Once a sync or an ingest
replaces the reader, nothing references it. The collector may then close
the file before the get opens its entry. The spec says a replaced reader
stays usable by any outstanding consumer.

### Finding: Close makes compaction upload a partial archive

After `Close` sets the closed flag, every `BlobCache.Get` of step2 fails
and is skipped. Step2 still returns nil. Step3 ingests the partial, even
empty, archive and uploads it with `context.Background`
(`part_001:353`), replacing the bucket's archive. Entries whose blobs
still exist drop out of it. The comment at `part_001:45-51` says entries
leave the archive only when their blob is gone.

### Finding: `daemon restart` fails because the old daemon still holds the lock

`ShutdownAndWait` (`part_007:41-63`) takes the daemon to be stopped once
a ping fails, which happens as soon as `server.Shutdown` closes the
listener. The old daemon still closes its backend and force-persists its
stats. Only then does `Run` return and the deferred `dirLock.Unlock`
run (`part_009:118`). The trace TLC finds:

1. The daemon is shut down and closes its listener.
2. `restart`'s `ensureDaemonRunning` finds no daemon and spawns one.
3. The new daemon's `TryLock` fails and it exits.
4. `WaitServerAlive` returns "daemon process was exited unexpectedly".
5. `gscache daemon restart` exits 1, after printing "Server daemon
   stopped".

The window lasts as long as the old backend's `Close`. For the blob
backend, that includes draining the upload pool.

## Known hazards without a run

Every run slot of the project is used, so these are recorded in
`PROJECT.json` as hazards, with a note saying what would show them.

- **Prune race after a crash** (`local.go:172`). `store.get` stats a
  damaged body and then removes the action file by path. A concurrent
  Put of the same ActionID may have rewritten the entry in between.
  `CommittedEntryServable` in `LocalCache.tla` states that an entry
  whose Put succeeded stays servable. It fails once one crash is
  allowed, and holds without crashes (`ServableWithoutCrash`, checked by
  `local_cache`).
- **Stats overwritten across daemons** (`stats.go:84`). `runAsServer`
  loads `stats.json` before `Run` takes the lock. A daemon spawned while
  the old one closes may load the old counts. It then takes the lock
  once the old daemon has unlocked, and its `ForcePersist` overwrites
  the counts the old daemon persisted at exit.
- **Ping does not count as activity** (`part_008:38`). A prog whose ping
  succeeded just before the inactivity timer fired uses a daemon that is
  shutting down.
- **`stats clear` races a Persist** (`part_008:84`). `handleStatsClear`
  calls `ForcePersist` without `m.mu`. A `Persist` that marshalled the
  old counts can rename its file after the cleared one, so the cleared
  counts come back.
- **`stats clear` against a closing daemon** (`stats.go:36`). The command
  removes `stats.json` when no ping answers. A daemon that has stopped
  listening but is still closing writes the file again with its final
  `ForcePersist`.

### Known hazard without a run: the key decoder panics

`DecodeCacheEntityKey("b/00/")` passes the shape checks and decodes an
empty hex string. It then calls `CacheEntityKey` on the empty ID, and
`actionID[0]` panics (`key.go:12`, `key.go:24`). Compaction decodes
every small listed object (`part_001:135`). So a zero-size folder
placeholder in the bucket crashes the daemon, where the log message at
`part_001:137` shows the intent to skip it. All of the project's runs
are used by the stateful components, so this panic is recorded as a
hazard in `PROJECT.json` and has no run.

## Bounds

LocalCache: two goroutines, two ActionIDs, and two OutputIDs.

- One OutputID has a non-empty body of length 2. A crash can leave it at
  0, 1 or 2, and the code distinguishes all three.
- The other has the empty body, which takes the `_empty.output` path.
- Two ActionIDs can share a body, which the cross-entry prune needs.
- One crash is enough to damage files. The races after it involve at
  most two goroutines.
- Symmetry on goroutines and ActionIDs is used only in safety runs.

CacheProg: one input of five records reaches every branch of the read
loop: a put of two chunks, a get, an unknown command, an empty put, and
`close`. Constants switch read errors, the Go command exiting and
early-returning handlers on and off.

BlobBackend, `blob_live`: two goroutines, two ActionIDs, one pool
worker and Close.

- The flights are per ActionID, but the pool is shared. With two
  ActionIDs and one worker, one ActionID's task waits in the queue while
  the other's runs, which is the case `FlightsEnd` is about.
- Puts carry the one non-empty body (`MCOneOutput`), and Gets ask for
  `a1` only. The empty body and the merged put are the subject of
  `blob_corrupt_upload`, which has both OutputIDs.
- `a1` starts either in the archive only or in the bucket only
  (`MCOneTier`). This reaches the archive slow path and the download.
- `EveryCallReturns` is stated for one goroutine, `Watched`. Init, the
  actions and the fairness treat the goroutines alike, so what holds of
  one holds of each. Stating it for both would double the temporal
  tableau for no extra behaviour.

`blob_upload_lost` needs one goroutine, one ActionID and a Close;
`blob_corrupt_upload` two goroutines that merge their puts.

ArStore: one keyspace, one get and two stats timers. The gets never change the store, and no passing property is about them. One get is enough for `EntryUsable`'s violation run. Two timers let a stopped timer be replaced while the old one's callback waits for the mutex. Jobs of different keyspaces share
nothing but the collector. There are four archive versions:

- one good and one broken archive, which the bucket and the disk may
  hold at start;
- one for this machine's ingest;
- one for another machine's upload.

That is enough for a reader to be replaced while a get holds the old
one.

Compaction: two ActionIDs, one with an empty and one with a one-byte
output, and two pool workers.

- Every disk, archive and bucket state that Get's tiers distinguish is
  an initial state. The entry can be absent, matching or stale, and the
  body absent, short or complete.
- `CompactionAtLeastAddFiles` is 1, so the job goes past step1.
- Two workers and two tasks let a late task race `close(resultQueue)`.

Daemon: two progs and one restart, plus a possible daemon that is
already running. There are four daemon process ids, one per possible
spawn and one for the initial daemon. One request per prog is enough to
place a request before, during or after a daemon's life. The restart
violation needs only the restart and two daemons.

## Fairness

Each goroutine's own steps are weakly fair: a goroutine in a handler is
runnable, and the Go scheduler runs it.

- BlobBackend: the pool's steps for each ActionID, and the steps of
  `Close` (its timers fire), are weakly fair too.
- CacheProg: the read loop, `Run` and each handler are weakly fair.
- ArStore: `NewArStore`'s goroutines and each compaction job are weakly
  fair. So are the stats clock tick (`StatsTick`) and each stats timer's
  firing and callback. Time passes, and the Go runtime runs an `AfterFunc` callback
  once its timer expires.
- Compaction: the job, the writer goroutine and each pool worker are
  weakly fair.
- Daemon: each daemon's steps, each client's steps, and the clients'
  10 s and 30 s timeouts are weakly fair, because time passes. The
  timeouts are what end a restart whose wait races a prog that spawns a
  fresh daemon; the mutant without them makes `CommandsReturn` fail.

Nothing else is fair: new requests, `Close`, crashes, other machines'
uploads, the bucket's lifecycle rule, ArStore's sync clock `Tick` and
the garbage collector. No liveness property needs `Tick`. Clients need
not send anything, and a finalizer need never run.

The ArStore and Compaction runs set `CHECK_DEADLOCK FALSE`. After the
jobs finish the daemon idles, and the model stops with it. The Daemon
runs set it too: once every command has returned, and no daemon runs or
the last one serves, nothing is left to happen.

## Not modelled

- EntryMeta codec: a fixed-layout binary encoding. `LocalCache` models
  its one effect on control, an action file that `ReadEntryMeta`
  rejects, as the model value `Garbage`.
- Key codec: string formatting. Its panic is the hazard above, kept
  without a run.
- `BlobBackend.Open` and `Compact` are modelled by the ArStore and
  Compaction modules, not inside BlobBackend.
- HTTP client and server: transport. Their effect on the engine, a
  handler that fails without reading the body, is `EarlyReturn` in
  `CacheProg`.
- The stats counters, `LoadFromFile`, `handleStatsClear`, the `stats`
  commands and the final `ForcePersist` of `Server.Run`. The rate
  limiter of `Persist` is modelled (Stats). What the counters add is the
  contents of `stats.json`, and the races on them show only as
  violations (see the hazards above). Every run slot is taken.
- Log formatting (`log.go`), `pprint.go`, the protocol types, `tailPrintLogFile`,
  configuration parsing and the `stats`/`log` commands: no concurrent
  state, or formatting only.
- Byte contents of bodies, and the timestamps in EntryMeta, are
  abstracted to lengths and model values.
