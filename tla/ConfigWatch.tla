---------------------------- MODULE ConfigWatch -----------------------------
(***************************************************************************)
(* configx.Watcher and WatcherT: the watch loop with its debounce timer,   *)
(* the reload goroutines the timer starts, the current configuration and   *)
(* the change handlers.                                                    *)
(*                                                                         *)
(* The watched files are abstracted to the number of the last write, and   *)
(* a configuration to the number of the write it was loaded from.  Time is *)
(* left out: an armed timer may fire at any moment.                        *)
(***************************************************************************)
EXTENDS Integers, FiniteSets

CONSTANTS
  MaxWrites,   \* bound: writes to the watched files
  MaxReloads,  \* bound: reload goroutines ever started
  MaxHandlers  \* bound: handlers registered with OnChange

ASSUME WatchAssumption ==
  MaxWrites \in Nat /\ MaxReloads \in Nat /\ MaxHandlers \in Nat

Reloads == 1..MaxReloads
Versions == 0..MaxWrites

VARIABLES
  version,  \* the last write to the files
  good,     \* history: the writes that left files which load
  event,    \* fsnotify has something for the provider's callback
  queued,   \* reloadCh holds a token
  loop,     \* Start: "idle", "run" or "stopped"
  timer,    \* the debounce timer is armed
  stopCh,   \* closed by Close
  ctxDone,  \* the context given to Start is done
  cfg,      \* Watcher.cfg
  typed,    \* WatcherT.current
  subs,     \* how many handlers are registered
  started,  \* reload goroutines started so far
  phase,    \* where a reload goroutine is
  got,      \* the configuration it loaded
  told,     \* how many handlers it has called
  targets,  \* how many handlers it has to call
  lastRead, \* history: the newest files any reload has read
  overlap   \* history: the reloads that ran while another did

loopVars == <<event, queued, loop, timer, stopCh, ctxDone>>
reloadVars == <<started, phase, got, told, targets>>
watchVars == <<version, good, loopVars, cfg, typed, subs, reloadVars, lastRead, overlap>>

Phase == { "none", "load", "store", "failed", "notify", "notifyErr", "done" }
Active == { r \in Reloads : phase[r] \notin {"none", "done"} }

\* newWatcherFromOptions and newWatcherTFromOptions: the initial load succeeded.
WatchInit ==
  /\ version = 0 /\ good = {0} /\ event = FALSE /\ queued = FALSE
  /\ loop = "idle" /\ timer = FALSE /\ stopCh = FALSE /\ ctxDone = FALSE
  /\ cfg = 0 /\ typed = 0 /\ subs = 0 /\ started = 0
  /\ phase = [r \in Reloads |-> "none"] /\ got = [r \in Reloads |-> 0]
  /\ told = [r \in Reloads |-> 0] /\ targets = [r \in Reloads |-> 0]
  /\ lastRead = 0 /\ overlap = {}

-----------------------------------------------------------------------------
(* The environment, and the providers' callbacks. *)

\* The files are written; they load afterwards or not.  Only a running watcher
\* is told.
Write ==
  /\ version < MaxWrites
  /\ version' = version + 1
  /\ good' \in {good, good \cup {version + 1}}
  /\ event' = (event \/ (loop = "run" /\ ~stopCh))
  /\ UNCHANGED <<queued, loop, timer, stopCh, ctxDone, cfg, typed, subs, reloadVars,
                 lastRead, overlap>>

\* watchProvider's callback: queueWatcherReload, which drops the token when one
\* is there already.
Trigger ==
  /\ event /\ event' = FALSE /\ queued' = TRUE
  /\ UNCHANGED <<version, good, loop, timer, stopCh, ctxDone, cfg, typed, subs,
                 reloadVars, lastRead, overlap>>

\* OnChange of Watcher or WatcherT: a new slice is published.
OnChange ==
  /\ subs < MaxHandlers /\ subs' = subs + 1
  /\ UNCHANGED <<version, good, loopVars, cfg, typed, reloadVars, lastRead, overlap>>

Cancel ==
  /\ ~ctxDone /\ ctxDone' = TRUE
  /\ UNCHANGED <<version, good, event, queued, loop, timer, stopCh, cfg, typed, subs,
                 reloadVars, lastRead, overlap>>

\* Close: stopOnce, Unwatch.
Close ==
  /\ ~stopCh /\ stopCh' = TRUE /\ event' = FALSE
  /\ UNCHANGED <<version, good, queued, loop, timer, ctxDone, cfg, typed, subs,
                 reloadVars, lastRead, overlap>>

-----------------------------------------------------------------------------
(* Start and its loop. *)

\* Start with every provider watching; or fp.Watch fails, the providers watched
\* so far are cleaned up and Start returns an error.
Start ==
  /\ loop = "idle" /\ loop' \in {"run", "stopped"}
  /\ UNCHANGED <<version, good, event, queued, timer, stopCh, ctxDone, cfg, typed, subs,
                 reloadVars, lastRead, overlap>>

\* Fault: while a reload runs, a change is taken for part of it.
ResetTimerUnlessReloading ==
  /\ loop = "run" /\ queued /\ queued' = FALSE
  /\ timer' = (timer \/ Active = {})
  /\ UNCHANGED <<version, good, event, loop, stopCh, ctxDone, cfg, typed, subs,
                 reloadVars, lastRead, overlap>>

\* <-reloadCh: resetTimer stops the armed timer and arms a new one.
ResetTimer ==
  /\ loop = "run" /\ queued /\ queued' = FALSE
  /\ timer' = TRUE
  /\ UNCHANGED <<version, good, event, loop, stopCh, ctxDone, cfg, typed, subs,
                 reloadVars, lastRead, overlap>>

\* Fault: run returns without stopTimer.
StopLeavingTimer ==
  /\ loop = "run" /\ (stopCh \/ ctxDone)
  /\ loop' = "stopped" /\ stopCh' = TRUE /\ event' = FALSE
  /\ UNCHANGED <<version, good, queued, timer, ctxDone, cfg, typed, subs, reloadVars,
                 lastRead, overlap>>

\* <-stopCh or <-ctx.Done() (which calls Close): the deferred stopTimer runs.
Stop ==
  /\ loop = "run" /\ (stopCh \/ ctxDone)
  /\ loop' = "stopped" /\ stopCh' = TRUE /\ event' = FALSE /\ timer' = FALSE
  /\ UNCHANGED <<version, good, queued, ctxDone, cfg, typed, subs, reloadVars, lastRead,
                 overlap>>

-----------------------------------------------------------------------------
(* reload, run by time.AfterFunc in a goroutine of its own. *)

\* The timer fires.
Fire ==
  /\ timer /\ started < MaxReloads /\ timer' = FALSE
  /\ started' = started + 1
  /\ phase' = [phase EXCEPT ![started + 1] = "load"]
  /\ overlap' = IF Active = {} THEN overlap ELSE overlap \cup Active \cup {started + 1}
  /\ UNCHANGED <<version, good, event, queued, loop, stopCh, ctxDone, cfg, typed, subs,
                 got, told, targets, lastRead>>

\* loadConfigFromOptions.
Load(r) ==
  /\ phase[r] = "load"
  /\ got' = [got EXCEPT ![r] = version]
  /\ phase' = [phase EXCEPT ![r] = IF version \in good THEN "store" ELSE "failed"]
  /\ lastRead' = version
  /\ UNCHANGED <<version, good, loopVars, cfg, typed, subs, started, told, targets, overlap>>

\* Fault: a failed reload falls back to the initial configuration.
StoreInitialOnError(r) ==
  /\ phase[r] \in {"store", "failed"}
  /\ cfg' = IF phase[r] = "store" THEN got[r] ELSE 0
  /\ phase' = [phase EXCEPT ![r] = IF @ = "store" THEN "notify" ELSE "notifyErr"]
  /\ targets' = [targets EXCEPT ![r] = subs]
  /\ UNCHANGED <<version, good, loopVars, typed, subs, started, got, told, lastRead, overlap>>

\* cfg.Store after a successful load, handleErr after a failed one; notify takes
\* the handlers registered by now.
Store(r) ==
  /\ phase[r] \in {"store", "failed"}
  /\ cfg' = IF phase[r] = "store" THEN got[r] ELSE cfg
  /\ phase' = [phase EXCEPT ![r] = IF @ = "store" THEN "notify" ELSE "notifyErr"]
  /\ targets' = [targets EXCEPT ![r] = subs]
  /\ UNCHANGED <<version, good, loopVars, typed, subs, started, got, told, lastRead, overlap>>

\* notify calls the next handler; the one a WatcherT registered stores the
\* decoded value, unless it does not decode or validate.
CallHandler(r) ==
  /\ phase[r] \in {"notify", "notifyErr"} /\ told[r] < targets[r]
  /\ told' = [told EXCEPT ![r] = @ + 1]
  /\ typed' \in IF phase[r] = "notify" THEN {typed, got[r]} ELSE {typed}
  /\ UNCHANGED <<version, good, loopVars, cfg, subs, started, phase, got, targets,
                 lastRead, overlap>>

\* Every handler was called: the goroutine ends.
ReloadEnds(r) ==
  /\ phase[r] \in {"notify", "notifyErr"} /\ told[r] = targets[r]
  /\ phase' = [phase EXCEPT ![r] = "done"]
  /\ UNCHANGED <<version, good, loopVars, cfg, typed, subs, started, got, told, targets,
                 lastRead, overlap>>

ReloadStep(r) == Load(r) \/ Store(r) \/ CallHandler(r) \/ ReloadEnds(r)

WatchNext ==
  \/ Write \/ Trigger \/ OnChange \/ Cancel \/ Close
  \/ Start \/ ResetTimer \/ Stop \/ Fire
  \/ \E r \in Reloads : ReloadStep(r)

WatchSpec == WatchInit /\ [][WatchNext]_watchVars

-----------------------------------------------------------------------------
(* Properties. *)

\* Type invariant; the current configurations are ones that loaded: a failed
\* reload leaves the previous configuration active.
TypeOK ==
  /\ version \in Versions /\ good \subseteq Versions
  /\ loop \in {"idle", "run", "stopped"} /\ phase \in [Reloads -> Phase]
  /\ subs \in 0..MaxHandlers /\ started \in 0..MaxReloads
  /\ cfg \in good /\ typed \in good

\* A reload that never ran at the same time as another one does not take the
\* configuration, or its typed copy, back to an older one.
NoRollbackUnlessOverlap ==
  [][\A r \in Reloads \ overlap :
       ReloadStep(r) => cfg' >= cfg /\ typed' >= typed]_watchVars

\* Once Start has returned, no reload starts: only those already running go on
\* (run's deferred stopTimer).
NoReloadAfterStop == [][loop = "stopped" => started' = started]_watchVars

\* A change that happens while the watcher runs is read by some reload, however
\* changes are coalesced, unless the watcher is stopped.
EveryChangeRead ==
  \A v \in Versions :
    (loop = "run" /\ version = v /\ (event \/ queued \/ timer)) ~>
      (lastRead >= v \/ stopCh \/ ctxDone \/ started = MaxReloads)

\* What OnChange says: handlers are invoked "from a single goroutine, so they do
\* not need to be goroutine-safe relative to each other".
HandlersOneAtATime ==
  \A r, q \in Reloads :
    told[r] < targets[r] /\ told[q] < targets[q]
      /\ phase[r] \in {"notify", "notifyErr"} /\ phase[q] \in {"notify", "notifyErr"} => r = q
=============================================================================
