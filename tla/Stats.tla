-------------------------------- MODULE Stats --------------------------------
(***************************************************************************)
(* The rate limiter of stats.Metrics.Persist (internal/stats/persist.go). *)
(* A caller takes m.mu.  When the last save is less than                   *)
(* MinPersistInterval ago it arms an AfterFunc timer, unless one is        *)
(* pending, and returns; otherwise it stops the pending timer and saves    *)
(* stats.json while it still holds m.mu.  A timer's callback calls Persist *)
(* itself.  The counters are data and are left out: what is modelled is   *)
(* whether a save that a call put off is made.                             *)
(*                                                                         *)
(* A host specification names the goroutines that call Persist and        *)
(* conjoins PersistSkip, PersistTake and PersistSave with its own program  *)
(* counter; base is the timers with the caller's own entry as it leaves    *)
(* it.                                                                     *)
(***************************************************************************)
CONSTANTS
    Timers,    \* the *time.Timer values AfterFunc may create
    None

VARIABLES
    mu,        \* the goroutine holding m.mu, None when unlocked
    recent,    \* time.Since(m.lastPersistAt) < MinPersistInterval
    pending,   \* m.pendingPersist: the timer last armed, None when nil
    tpc,       \* a timer: "idle", "armed", its callback waiting for m.mu
               \* ("fire"), or its callback saving ("save")
    owed       \* history: a Persist returned without saving, none saved since

statsVars == <<mu, recent, pending, tpc, owed>>

StatsTypeOK(callers) ==
    /\ mu \in callers \cup Timers \cup {None}
    /\ recent \in BOOLEAN
    /\ pending \in Timers \cup {None}
    /\ tpc \in [Timers -> {"idle", "armed", "fire", "save"}]
    /\ owed \in BOOLEAN

\* the zero Metrics of NewMetrics: unlocked, never saved, no timer
StatsInit ==
    /\ mu = None /\ recent = FALSE /\ pending = None
    /\ tpc = [t \in Timers |-> "idle"]
    /\ owed = FALSE

\* mutant: the call within the interval arms no timer
PersistSkipNoTimer(p, base) ==
    /\ mu = None /\ recent
    /\ owed' = TRUE
    /\ tpc' = base
    /\ UNCHANGED <<mu, recent, pending>>

(* persist.go:86-98: within the interval, arm a timer for the rest of it  *)
(* unless m.pendingPersist is set, and return.                            *)
PersistSkip(p, base) ==
    /\ mu = None /\ recent
    /\ owed' = TRUE
    /\ \/ /\ pending # None
          /\ tpc' = base
          /\ UNCHANGED pending
       \/ /\ pending = None
          /\ \E t \in Timers :
               /\ base[t] = "idle"
               /\ tpc' = [base EXCEPT ![t] = "armed"]
               /\ pending' = t
    /\ UNCHANGED <<mu, recent>>

\* Timer.Stop: no effect once the timer has fired
Stopped(base) ==
    IF pending # None /\ base[pending] = "armed"
    THEN [base EXCEPT ![pending] = "idle"]
    ELSE base

\* mutant: m.pendingPersist is not cleared after Stop
PersistTakeNoReset(p, base) ==
    /\ mu = None /\ ~recent
    /\ tpc' = Stopped(base)
    /\ recent' = TRUE /\ owed' = FALSE /\ mu' = p
    /\ UNCHANGED pending

(* persist.go:100-107: the interval has passed: stop the pending timer,   *)
(* clear m.pendingPersist, take the time, and go on to save with m.mu     *)
(* held.                                                                   *)
PersistTake(p, base) ==
    /\ mu = None /\ ~recent
    /\ tpc' = Stopped(base)
    /\ pending' = None
    /\ recent' = TRUE /\ owed' = FALSE /\ mu' = p

(* ForcePersist and saveToFile, persist.go:55-77: marshal, write a unique *)
(* temporary file, rename it onto stats.json (a failure is only logged);  *)
(* then the deferred Unlock of Persist releases m.mu.                     *)
PersistSave(p, base) ==
    /\ mu = p /\ mu' = None
    /\ tpc' = base
    /\ UNCHANGED <<recent, pending, owed>>

\* the timer fires MinPersistInterval - elapsed + 50 ms after it was armed
Fire(t) ==
    /\ tpc[t] = "armed" /\ ~recent
    /\ tpc' = [tpc EXCEPT ![t] = "fire"]
    /\ UNCHANGED <<mu, recent, pending, owed>>

\* the AfterFunc callback, persist.go:93-95: it calls Persist
TimerPersist(t) ==
    \/ tpc[t] = "fire" /\ PersistSkip(t, [tpc EXCEPT ![t] = "idle"])
    \/ tpc[t] = "fire" /\ PersistTake(t, [tpc EXCEPT ![t] = "save"])
    \/ tpc[t] = "save" /\ PersistSave(t, [tpc EXCEPT ![t] = "idle"])

\* MinPersistInterval passes after the last save
StatsTick ==
    /\ recent /\ recent' = FALSE
    /\ UNCHANGED <<mu, pending, tpc, owed>>

-----------------------------------------------------------------------------
(* A save that Persist puts off is made.  Once a call has returned within *)
(* the interval without saving, some later Persist saves: a request's, or *)
(* the armed timer's callback when no request comes.  Persist promises to *)
(* save at a rate limit, not to drop the last events before a quiet spell.*)
DeferredSaveRuns == owed ~> ~owed

(* m.pendingPersist never names a timer that will not call Persist: it is *)
(* armed, or its callback is about to take m.mu.  Left pointing at a      *)
(* stopped or finished timer, it would make every later call within the   *)
(* interval arm nothing.                                                   *)
PendingTimerLive == pending # None => tpc[pending] \in {"armed", "fire"}
=============================================================================
