------------------------------- MODULE Daemon -------------------------------
(***************************************************************************)
(* The daemon's life cycle across processes: the commands of              *)
(* cmd/gscache (prog, daemon start, stop, restart) are client processes   *)
(* that ping the daemon, spawn one (daemon.go: ensureDaemonRunning) and   *)
(* shut it down (client: ShutdownAndWait); a spawned daemon process loads *)
(* stats.json, takes the work-dir lock, opens its backend, serves, and on *)
(* a cancelled lifecycle closes its listener, closes the backend, force-  *)
(* persists its stats and only then releases the lock (server: Run).      *)
(*                                                                         *)
(* Requests are atomic.                                                    *)
(***************************************************************************)
EXTENDS Naturals, FiniteSets

CONSTANTS
    Clients,      \* client processes
    Kind,         \* Kind[c]: "prog", "start", "stop" or "restart"
    Daemons,      \* daemon processes a client may spawn
    Reqs,         \* requests a prog sends through its cacheprog engine
    Faults,       \* whether NewServer and backend Open may fail
    Timeouts,     \* whether WaitServerAlive / ShutdownAndWait may time out
    None

VARIABLES
    dpc,          \* per daemon: "idle" (not spawned), "start", "lock",
                  \* "open", "serve", "closing", "exit"
    cancelled,    \* per daemon: its lifecycle context is cancelled
    lock,         \* the daemon whose pid is in .gscache_daemon.lock
    cpc,          \* per client: "ensure", "spawn", "wait", "run", "shut",
                  \* "shutwait", "done"
    child,        \* per client: the daemon it spawned
    reqs,         \* per client: requests sent
    cmdErr        \* per client: the command exited with an error

vars == <<dpc, cancelled, lock, cpc, child, reqs, cmdErr>>

\* a ping is answered: some daemon's listener is open
Serving == {d \in Daemons : dpc[d] = "serve"}

\* the command a client runs first
FirstStep(c) == IF Kind[c] \in {"stop", "restart"} THEN "shut" ELSE "ensure"

\* No daemon, or one left by an earlier start, serving with the lock held.
Init ==
    /\ \E d0 \in Daemons \cup {None} :
         /\ dpc = [d \in Daemons |-> IF d = d0 THEN "serve" ELSE "idle"]
         /\ lock = d0
    /\ cancelled = [d \in Daemons |-> FALSE]
    /\ cpc = [c \in Clients |-> FirstStep(c)]
    /\ child = [c \in Clients |-> None]
    /\ reqs = [c \in Clients |-> 0]
    /\ cmdErr = [c \in Clients |-> FALSE]

-----------------------------------------------------------------------------
(* Daemon processes *)

\* runAsServer: LoadFromFileAndAttach, then NewServer creates the backend
Start(d) ==
    /\ dpc[d] = "start"
    /\ \/ dpc' = [dpc EXCEPT ![d] = "lock"]
       \/ Faults /\ dpc' = [dpc EXCEPT ![d] = "exit"]
    /\ UNCHANGED <<cancelled, lock, cpc, child, reqs, cmdErr>>

\* Run: lockWorkDir's TryLock fails while the pid in the lock file is alive
LockHolderAlive == lock # None /\ dpc[lock] # "exit"

LockWorkDir(d) ==
    /\ dpc[d] = "lock"
    /\ IF LockHolderAlive
         THEN dpc' = [dpc EXCEPT ![d] = "exit"] /\ UNCHANGED lock
         ELSE dpc' = [dpc EXCEPT ![d] = "open"] /\ lock' = d
    /\ UNCHANGED <<cancelled, cpc, child, reqs, cmdErr>>

\* Run: backend.Open, then net.Listen; a failed Open returns, and the
\* deferred Unlock releases the lock
Open(d) ==
    /\ dpc[d] = "open"
    /\ \/ dpc' = [dpc EXCEPT ![d] = "serve"] /\ UNCHANGED lock
       \/ Faults /\ dpc' = [dpc EXCEPT ![d] = "exit"] /\ lock' = None
    /\ UNCHANGED <<cancelled, cpc, child, reqs, cmdErr>>

StopListenUnlock(d) ==
    /\ dpc[d] = "serve" /\ cancelled[d]
    /\ dpc' = [dpc EXCEPT ![d] = "closing"]
    /\ lock' = None
    /\ UNCHANGED <<cancelled, cpc, child, reqs, cmdErr>>

\* the shutdown goroutine sees the lifecycle done: server.Shutdown closes
\* the listener at once; backend.Close runs in parallel
StopListen(d) ==
    /\ dpc[d] = "serve" /\ cancelled[d]
    /\ dpc' = [dpc EXCEPT ![d] = "closing"]
    /\ UNCHANGED <<cancelled, lock, cpc, child, reqs, cmdErr>>

\* Run: shutdownWg.Wait, ForcePersist, return; then the deferred Unlock
Finish(d) ==
    /\ dpc[d] = "closing"
    /\ dpc' = [dpc EXCEPT ![d] = "exit"]
    /\ lock' = None
    /\ UNCHANGED <<cancelled, cpc, child, reqs, cmdErr>>

\* startInactivityMonitor: the timer fires after a quiet period; Shutdown
IdleShutdown(d) ==
    /\ dpc[d] = "serve" /\ ~cancelled[d]
    /\ cancelled' = [cancelled EXCEPT ![d] = TRUE]
    /\ UNCHANGED <<dpc, lock, cpc, child, reqs, cmdErr>>

-----------------------------------------------------------------------------
(* Client processes *)

\* how a command goes on after ensureDaemonRunning returns: prog ignores
\* the error and runs its engine; start and restart exit 1 on it
EnsureReturns(c, ok) ==
    IF Kind[c] = "prog"
      THEN cpc' = [cpc EXCEPT ![c] = "run"] /\ UNCHANGED cmdErr
      ELSE cpc' = [cpc EXCEPT ![c] = "done"] /\ cmdErr' = [cmdErr EXCEPT ![c] = ~ok]

\* ensureDaemonRunning: a daemon that answers the ping is used
Ping(c) ==
    /\ cpc[c] = "ensure"
    /\ IF Serving # {} THEN EnsureReturns(c, TRUE)
                       ELSE cpc' = [cpc EXCEPT ![c] = "spawn"] /\ UNCHANGED cmdErr
    /\ UNCHANGED <<dpc, cancelled, lock, child, reqs>>

\* cntxt.Reborn starts `gscache server`; a goroutine cancels ctx when it exits
Spawn(c) ==
    /\ cpc[c] = "spawn"
    /\ \E d \in Daemons : dpc[d] = "idle"
    /\ LET d == CHOOSE d \in Daemons : dpc[d] = "idle" IN
         /\ dpc' = [dpc EXCEPT ![d] = "start"]
         /\ child' = [child EXCEPT ![c] = d]
    /\ cpc' = [cpc EXCEPT ![c] = "wait"]
    /\ UNCHANGED <<cancelled, lock, reqs, cmdErr>>

\* WaitServerAlive: each round checks ctx first, then pings
WaitServerAlive(c) ==
    /\ cpc[c] = "wait"
    /\ \/ dpc[child[c]] = "exit" /\ EnsureReturns(c, FALSE)
       \/ dpc[child[c]] # "exit" /\ Serving # {} /\ EnsureReturns(c, TRUE)
    /\ UNCHANGED <<dpc, cancelled, lock, child, reqs>>

\* WaitServerAlive gives up after maxWait of failed pings
WaitTimeout(c) ==
    /\ Timeouts /\ cpc[c] = "wait" /\ Serving = {}
    /\ EnsureReturns(c, FALSE)
    /\ UNCHANGED <<dpc, cancelled, lock, child, reqs>>

\* the engine's get/put handlers call the daemon (answered only while a
\* listener is open)
Request(c) ==
    /\ cpc[c] = "run" /\ reqs[c] < Reqs
    /\ reqs' = [reqs EXCEPT ![c] = @ + 1]
    /\ UNCHANGED <<dpc, cancelled, lock, cpc, child, cmdErr>>

ProgExit(c) ==
    /\ cpc[c] = "run" /\ reqs[c] = Reqs
    /\ cpc' = [cpc EXCEPT ![c] = "done"]
    /\ UNCHANGED <<dpc, cancelled, lock, child, reqs, cmdErr>>

\* after shutdown: restart goes on to ensureDaemonRunning, stop exits
AfterShutdown(c) == IF Kind[c] = "restart" THEN "ensure" ELSE "done"

\* ShutdownAndWait: POST /shutdown (refused: not running); handleShutdown
\* answers, then cancels the lifecycle
CallShutdown(c) ==
    /\ cpc[c] = "shut"
    /\ IF Serving = {}
         THEN cpc' = [cpc EXCEPT ![c] = AfterShutdown(c)] /\ UNCHANGED cancelled
         ELSE /\ cancelled' = [d \in Daemons |-> cancelled[d] \/ d \in Serving]
              /\ cpc' = [cpc EXCEPT ![c] = "shutwait"]
    /\ UNCHANGED <<dpc, lock, child, reqs, cmdErr>>

\* ShutdownAndWait: ping until IsDaemonAlive is false
ShutdownWait(c) ==
    /\ cpc[c] = "shutwait" /\ Serving = {}
    /\ cpc' = [cpc EXCEPT ![c] = AfterShutdown(c)]
    /\ UNCHANGED <<dpc, cancelled, lock, child, reqs, cmdErr>>

ShutdownTimeoutNever(c) ==
    /\ FALSE
    /\ UNCHANGED vars

\* ShutdownAndWait gives up after maxWait; the command exits 1
ShutdownTimeout(c) ==
    /\ Timeouts /\ cpc[c] = "shutwait" /\ Serving # {}
    /\ cpc' = [cpc EXCEPT ![c] = "done"]
    /\ cmdErr' = [cmdErr EXCEPT ![c] = TRUE]
    /\ UNCHANGED <<dpc, cancelled, lock, child, reqs>>

-----------------------------------------------------------------------------
DaemonStep(d) == Start(d) \/ LockWorkDir(d) \/ Open(d) \/ StopListen(d) \/ Finish(d)

ClientStep(c) ==
    \/ Ping(c) \/ Spawn(c) \/ WaitServerAlive(c) \/ Request(c) \/ ProgExit(c)
    \/ CallShutdown(c) \/ ShutdownWait(c)

Next ==
    \/ \E d \in Daemons : DaemonStep(d) \/ IdleShutdown(d)
    \/ \E c \in Clients : ClientStep(c) \/ WaitTimeout(c) \/ ShutdownTimeout(c)

\* Every process runs, and a client's timeout fires once its wait has
\* lasted (time passes).  The inactivity timer need not fire.
Spec ==
    /\ Init /\ [][Next]_vars
    /\ \A d \in Daemons : WF_vars(DaemonStep(d))
    /\ \A c \in Clients : /\ WF_vars(ClientStep(c))
                          /\ WF_vars(WaitTimeout(c)) /\ WF_vars(ShutdownTimeout(c))

-----------------------------------------------------------------------------
(* lockWorkDir: "ensures local cache dir is not reused by multiple         *)
(* daemons".  At most one daemon is between taking the lock and having     *)
(* closed its backend, however starts, shutdowns and restarts interleave.  *)
ExclusiveWorkDir ==
    Cardinality({d \in Daemons : dpc[d] \in {"open", "serve", "closing"}}) <= 1

(* Every command returns (prog once its engine has sent its requests).     *)
(* A restart racing a prog that spawns a fresh daemon never sees the       *)
(* daemon down; only ShutdownAndWait's maxWait ends it.                    *)
CommandsReturn == <>(\A c \in Clients : cpc[c] = "done")

(* daemon restart: once ShutdownAndWait has seen the old daemon stop, the   *)
(* ensureDaemonRunning that follows starts a new one and succeeds.         *)
RestartSucceeds == \A c \in Clients : Kind[c] = "restart" /\ cpc[c] = "done" => ~cmdErr[c]
=============================================================================
