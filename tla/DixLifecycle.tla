---------------------------- MODULE DixLifecycle ----------------------------
(***************************************************************************)
(* dix: building a Runtime from the flattened modules, its start and stop  *)
(* hooks, rollback of a failed start, and shutdown of the container.       *)
(*                                                                         *)
(* Modules are numbered in the order flattenModules gives them, imports    *)
(* first.  Each declares a start hook, a stop hook, both or none (a module *)
(* with several is several modules here).  Starters and Stoppers are the   *)
(* goroutines calling Runtime.Start and Runtime.Stop; Runtime has no lock, *)
(* so they may interleave between any two hooks.                           *)
(***************************************************************************)
EXTENDS Integers, Sequences, FiniteSets

CONSTANTS
  NumModules, \* bound: modules of the app
  Starters,   \* calls of Runtime.Start
  Stoppers    \* calls of Runtime.Stop or StopWithReport

ASSUME DixAssumption ==
  NumModules \in Nat /\ Starters \cap Stoppers = {} /\ IsFiniteSet(Starters \cup Stoppers)

Modules == 1..NumModules
Callers == Starters \cup Stoppers

VARIABLES
  state,      \* Runtime.state
  decl,       \* the hooks of each module, from WithModuleHooks or a setup
  cursor,     \* the module Build is at
  stage,      \* what Build does next with it
  startHooks, \* lifecycleImpl.startHooks, as the modules that registered them
  stopHooks,  \* lifecycleImpl.stopHooks
  container,  \* the injector: "open" or "shut"
  pc,         \* where a caller is
  idx,        \* its position in the hooks
  begun,      \* history: modules whose start hook completed
  ended,      \* history: how often a module's stop hook ran
  overlap     \* history: a call was accepted while another one was running

buildVars == <<decl, cursor, stage, startHooks, stopHooks>>
lifecycleVars == <<state, buildVars, container, pc, idx, begun, ended, overlap>>

State == { "created", "built", "starting", "started", "stopped" }
PC == { "idle", "checked", "hooks", "unwind", "shutdown", "done", "failed", "refused" }

LifecycleInit ==
  /\ state = "created" /\ container = "open"
  /\ decl \in [Modules -> SUBSET {"start", "stop"}]
  /\ cursor = 1 /\ stage = "config"
  /\ startHooks = <<>> /\ stopHooks = <<>>
  /\ pc = [p \in Callers |-> "idle"] /\ idx = [p \in Callers |-> 0]
  /\ begun = {} /\ ended = [m \in Modules |-> 0]
  /\ overlap = FALSE

-----------------------------------------------------------------------------
(* buildPlan.Build. *)

Has(h, m) == h \in decl[m]
Registered(h, m) == IF Has(h, m) THEN <<m>> ELSE <<>>

\* prepareFrameworkConfig.  On this error, as on those below, Build calls
\* cleanupBuildFailure, which shuts the container down: there is no Runtime.
PrepareFrameworkConfig ==
  /\ stage = "config"
  /\ \/ stage' = "bind" /\ UNCHANGED container
     \/ stage' = "failed" /\ container' = "shut"
  /\ UNCHANGED <<state, decl, cursor, startHooks, stopHooks, pc, idx, begun, ended, overlap>>

\* bindModuleHooks, then runModuleSetups of the same module, which may fail.
BindHooksAndSetup ==
  /\ stage = "bind" /\ cursor <= NumModules
  /\ startHooks' = startHooks \o Registered("start", cursor)
  /\ stopHooks' = stopHooks \o Registered("stop", cursor)
  /\ \/ cursor' = cursor + 1 /\ UNCHANGED <<stage, container>>
     \/ stage' = "failed" /\ container' = "shut" /\ UNCHANGED cursor
  /\ UNCHANGED <<state, decl, pc, idx, begun, ended, overlap>>

\* runInvokes, module by module, and cleanupBuildFailure when one fails.
RunInvokes ==
  \/ /\ stage = "bind" /\ cursor > NumModules
     /\ stage' = "invoke" /\ cursor' = 1
     /\ UNCHANGED <<state, decl, startHooks, stopHooks, container, pc, idx, begun, ended, overlap>>
  \/ /\ stage = "invoke" /\ cursor <= NumModules
     /\ \/ cursor' = cursor + 1 /\ UNCHANGED <<stage, container>>
        \/ stage' = "failed" /\ container' = "shut" /\ UNCHANGED cursor
     /\ UNCHANGED <<state, decl, startHooks, stopHooks, pc, idx, begun, ended, overlap>>

\* The Runtime is handed out.
Built ==
  /\ stage = "invoke" /\ cursor > NumModules
  /\ stage' = "built" /\ state' = "built"
  /\ UNCHANGED <<decl, cursor, startHooks, stopHooks, container, pc, idx, begun, ended, overlap>>

-----------------------------------------------------------------------------
(* Runtime.Start. *)

Goto(p, q) == pc' = [pc EXCEPT ![p] = q]
\* The call is accepted now: is another one running?
Accepted(p) ==
  overlap' = (overlap \/ \E q \in Callers \ {p} :
                pc[q] \in {"checked", "hooks", "unwind", "shutdown"})
At(p, i) == idx' = [idx EXCEPT ![p] = i]

StartCheck(p) ==
  /\ pc[p] = "idle" /\ p \in Starters /\ stage = "built"
  /\ IF state = "built"
       THEN Goto(p, "checked") /\ Accepted(p)
       ELSE Goto(p, "refused") /\ UNCHANGED overlap
  /\ UNCHANGED <<state, buildVars, container, idx, begun, ended>>

StartTransition(p) ==
  /\ pc[p] = "checked"
  /\ state' = "starting" /\ Goto(p, "hooks") /\ At(p, 0)
  /\ UNCHANGED <<buildVars, container, begun, ended, overlap>>

\* Fault: the failing start hook counts as completed.
FailedStartCounted(p) ==
  LET done == idx[p] + 1 IN
  /\ Goto(p, "unwind")
  /\ At(p, IF done > Len(stopHooks) THEN Len(stopHooks) ELSE done)
  /\ UNCHANGED begun

\* A start hook failed: the stop hooks with the indexes of the completed start
\* hooks are to run (executeStopHooksSubset, capped by what is registered).
FailedStart(p) ==
  LET done == idx[p] IN
  /\ Goto(p, "unwind")
  /\ At(p, IF done > Len(stopHooks) THEN Len(stopHooks) ELSE done)
  /\ UNCHANGED begun

\* executeStartHooks calls the next hook.
RunStartHook(p) ==
  /\ pc[p] = "hooks" /\ idx[p] < Len(startHooks)
  /\ \/ /\ At(p, idx[p] + 1) /\ begun' = begun \cup {startHooks[idx[p] + 1]}
        /\ UNCHANGED pc
     \/ FailedStart(p)
  /\ UNCHANGED <<state, buildVars, container, ended, overlap>>

StartDone(p) ==
  /\ pc[p] = "hooks" /\ idx[p] = Len(startHooks)
  /\ state' = "started" /\ Goto(p, "done")
  /\ UNCHANGED <<buildVars, container, idx, begun, ended, overlap>>

-----------------------------------------------------------------------------
(* Runtime.Stop, and the end of a failed Start. *)

\* validateStoppable, then executeStopHooks over all of them.
Stop(p) ==
  /\ pc[p] = "idle" /\ p \in Stoppers /\ stage = "built"
  /\ IF state = "started"
       THEN Goto(p, "unwind") /\ At(p, Len(stopHooks)) /\ Accepted(p)
       ELSE Goto(p, "refused") /\ UNCHANGED <<idx, overlap>>
  /\ UNCHANGED <<state, buildVars, container, begun, ended>>

\* Fault: the stop hooks run in the order of their registration.
RunStopHookForward(p) ==
  /\ pc[p] = "unwind" /\ idx[p] > 0
  /\ ended' = [ended EXCEPT ![stopHooks[Len(stopHooks) + 1 - idx[p]]] = @ + 1]
  /\ At(p, idx[p] - 1)
  /\ UNCHANGED <<state, buildVars, container, pc, begun, overlap>>

\* executeStopHooksSubset calls the next hook, last one first; an error is
\* collected and the rest still run.
RunStopHook(p) ==
  /\ pc[p] = "unwind" /\ idx[p] > 0
  /\ ended' = [ended EXCEPT ![stopHooks[idx[p]]] = @ + 1]
  /\ At(p, idx[p] - 1)
  /\ UNCHANGED <<state, buildVars, container, pc, begun, overlap>>

\* Fault: the container may be shut down while stop hooks are left to run.
ShutdownBeforeHooks(p) ==
  /\ pc[p] = "unwind"
  /\ container' = "shut" /\ Goto(p, IF idx[p] = 0 THEN "shutdown" ELSE "unwind")
  /\ UNCHANGED <<state, buildVars, idx, begun, ended, overlap>>

\* container.ShutdownReport.
ShutdownContainer(p) ==
  /\ pc[p] = "unwind" /\ idx[p] = 0
  /\ container' = "shut" /\ Goto(p, "shutdown")
  /\ UNCHANGED <<state, buildVars, idx, begun, ended, overlap>>

\* The transition to AppStateStopped ends Stop, or the failed Start.
Stopped(p) ==
  /\ pc[p] = "shutdown"
  /\ state' = "stopped" /\ Goto(p, IF p \in Starters THEN "failed" ELSE "done")
  /\ UNCHANGED <<buildVars, container, idx, begun, ended, overlap>>

Step(p) ==
  \/ StartTransition(p) \/ RunStartHook(p) \/ StartDone(p)
  \/ RunStopHook(p) \/ ShutdownContainer(p) \/ Stopped(p)

LifecycleNext ==
  \/ PrepareFrameworkConfig \/ BindHooksAndSetup \/ RunInvokes \/ Built
  \/ \E p \in Callers : StartCheck(p) \/ Stop(p) \/ Step(p)

LifecycleSpec == LifecycleInit /\ [][LifecycleNext]_lifecycleVars

-----------------------------------------------------------------------------
(* Properties. *)

\* Type invariant.
TypeOK ==
  /\ state \in State /\ container \in {"open", "shut"}
  /\ startHooks \in Seq(Modules) /\ stopHooks \in Seq(Modules)
  /\ pc \in [Callers -> PC] /\ idx \in [Callers -> 0..NumModules]
  /\ begun \subseteq Modules /\ ended \in [Modules -> 0..Cardinality(Callers)]
  /\ overlap \in BOOLEAN

\* Whatever the hooks return, an accepted Stop leaves no module with its stop
\* hook not run and the container shut down; and unless two calls ran at the
\* same time no stop hook ran twice.
StopRunsEverything ==
  /\ (\E p \in Stoppers : pc[p] = "done") =>
       /\ \A m \in Modules : Has("stop", m) => ended[m] > 0
       /\ container = "shut"
  /\ overlap \/ \A m \in Modules : ended[m] <= 1

\* When start and stop hooks are registered in pairs, rollback of a failed start
\* runs exactly the stop hooks of the modules that had started
\* (TestRuntimeStartFailureRollsBackStopHooks).
Paired == \A m \in Modules : Has("start", m) <=> Has("stop", m)
RollbackExact ==
  \A p \in Starters : pc[p] = "failed" =>
    \A m \in Modules : Has("start", m) /\ Has("stop", m) => (m \in begun <=> ended[m] > 0)
RollbackExactIfPaired == Paired /\ ~overlap => RollbackExact

\* Stop and rollback run the stop hooks they have to, and no others.
StopsExact == TypeOK /\ StopRunsEverything /\ RollbackExactIfPaired

\* A module is stopped only after every started module that was built after it,
\* and so may depend on it, has been stopped.
DependentsStopFirst ==
  [][\A m \in Modules : ended'[m] > ended[m] /\ Paired /\ ~overlap =>
       \A n \in begun : n > m => ended[n] > 0]_lifecycleVars

\* Unless two calls ran at the same time, no hook runs on a container that has
\* been shut down, where resolving its dependencies would fail.
NoHookAfterShutdown ==
  [][(begun' # begun \/ ended' # ended) /\ ~overlap => container = "open"]_lifecycleVars

\* What TestRuntimeStartFailureRollsBackStopHooks says of rollback, for every
\* way of registering hooks: a module that had started is stopped, and one that
\* had not is not.
RollbackStopsWhatStarted == ~overlap => RollbackExact
=============================================================================
