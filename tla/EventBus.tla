------------------------------ MODULE EventBus ------------------------------
(***************************************************************************)
(* eventx.Bus: subscriptions kept per event type, a cache of handler       *)
(* snapshots, synchronous and asynchronous publishing, the worker pool of  *)
(* the asynchronous path, and Close.                                       *)
(*                                                                         *)
(* A member of Calls is one invocation of Publish or PublishAsync together *)
(* with the dispatch it starts, in the caller's goroutine or in a worker.  *)
(* A member of Closers is one invocation of Close.  Subscription ids are   *)
(* handed out by nextID, at most MaxSubs of them.  A step is what runs     *)
(* between two points at which another goroutine can be observed: a lock   *)
(* release, an operation of a concurrent map, an atomic access, a channel  *)
(* operation.                                                              *)
(***************************************************************************)
EXTENDS Integers, FiniteSets

CONSTANTS
  Calls,        \* invocations of Publish and PublishAsync
  Closers,      \* invocations of Close
  Types,        \* event types (reflect.Type)
  MaxSubs,      \* bound: subscriptions ever registered
  MaxCalls,     \* bound: the largest n given to SubscribeN (0 is Subscribe)
  PoolSize,     \* antsPoolSize; 0 makes ants.NewPool fail (initErr)
  MaxBlocking,  \* antsMaxBlockingCalls; 0 stands for "no limit"
  Parallel,     \* WithParallelDispatch
  NoCache       \* no entry in handlerCache

Subs == 1..MaxSubs

ASSUME BusAssumption ==
  /\ IsFiniteSet(Calls)
  /\ MaxSubs \in Nat /\ MaxCalls \in Nat
  /\ PoolSize \in Nat /\ MaxBlocking \in Nat
  /\ Parallel \in BOOLEAN
  /\ \A S \in SUBSET Subs : NoCache # S

VARIABLES
  mu,         \* lifecycleMu: 0 when free, otherwise the id being registered
  closed,     \* Bus.closed
  nextID,     \* Bus.nextID
  subs,       \* subsByType, as the set of ids of each type
  subType,    \* the event type a subscription was registered for
  limit,      \* its maxCalls (0: unlimited)
  remaining,  \* limitedSubscriptionHandler's atomic counter
  stage,      \* where Subscribe and the unsubscribe function are with it
  cache,      \* handlerCache
  poolClosed, \* the pool was released
  wg,         \* dispatchWG
  slots,      \* occupied places of parallelLimit
  pc,         \* where a call is
  kind,       \* "sync" or "async"
  type,       \* the type of the call's event
  snap,       \* the handlers the call dispatches to
  hs,         \* hs[c][s]: how far call c is with handler s
  loaded,     \* loaded[c][s]: consumeSubscriptionCall's last Load
  closer,     \* where a Close is
  raced       \* history: types whose table row changed under a pending store

subVars   == <<mu, nextID, subs, subType, limit, stage>>
callVars  == <<pc, kind, type, snap>>
hVars     == <<hs, loaded, remaining, slots>>
closeVars == <<closed, poolClosed, closer>>
vars      == <<subVars, callVars, hVars, closeVars, cache, wg, raced>>

-----------------------------------------------------------------------------
(* States of the actors. *)

CallPC ==
  { "new", "snapshot", "store", "begin", "submit", "retrieve", "blocked",
    "dispatch", "done", "failed", "panicked", "rejected", "overload",
    "unavailable" }

\* The call holds one unit of dispatchWG.
CountedPC(k) ==
  { "submit", "retrieve", "blocked", "dispatch" }
    \cup (IF k = "sync" THEN {"snapshot", "store"} ELSE {})
Counted == { c \in Calls : pc[c] \in CountedPC(kind[c]) }

\* Handler phases in which the handler's goroutine is inside the handler; in
\* parallel mode it occupies a slot meanwhile.
InHandler == { "entered", "loaded", "deleting", "invalidating", "running" }
\* Handler phases after a successful compare-and-swap of the counter.
Consuming == { "deleting", "invalidating", "running", "ran", "failed", "panicked" }
HPhase    == { "none", "todo", "skipped" } \cup InHandler \cup Consuming

Stage == { "none", "adding", "active", "unsubscribing", "unsubscribed" }
CloserPC == { "new", "release", "wait", "returned", "returnedAtOnce" }

\* The tasks that occupy a worker of the pool, and the submitters it blocks.
Busy    == { c \in Calls : kind[c] = "async" /\ pc[c] = "dispatch" }
Waiting == { c \in Calls : pc[c] = "blocked" }

Init ==
  /\ mu = 0 /\ closed = FALSE /\ nextID = 0
  /\ subs = [t \in Types |-> {}]
  /\ subType \in [Subs -> Types]
  /\ limit = [s \in Subs |-> 0] /\ remaining = [s \in Subs |-> 0]
  /\ stage = [s \in Subs |-> "none"]
  /\ cache = [t \in Types |-> NoCache]
  /\ poolClosed = FALSE /\ wg = 0 /\ slots = 0
  /\ pc = [c \in Calls |-> "new"]
  /\ kind \in [Calls -> {"sync", "async"}]
  /\ type \in [Calls -> Types]
  /\ snap = [c \in Calls |-> {}]
  /\ hs = [c \in Calls |-> [s \in Subs |-> "none"]]
  /\ loaded = [c \in Calls |-> [s \in Subs |-> 0]]
  /\ closer = [k \in Closers |-> "new"]
  /\ raced = {}

-----------------------------------------------------------------------------
(* The subscription table and the snapshot cache. *)

\* History: the row of t changes while some call is about to store what it
\* read of that row before.
Race(t) ==
  raced' = IF \E c \in Calls : pc[c] = "store" /\ type[c] = t
           THEN raced \cup {t} ELSE raced

\* invalidateHandlerSnapshot.
Invalidate(t) ==
  /\ cache' = [cache EXCEPT ![t] = NoCache]
  /\ raced' = IF \E c \in Calls : pc[c] = "store" /\ type[c] = t
              THEN raced ELSE raced \ {t}

\* registerSubscription up to the Put: the lock is taken and kept.
Register(n) ==
  /\ mu = 0 /\ ~closed /\ nextID < MaxSubs
  /\ LET id == nextID + 1 IN
       /\ mu' = id /\ nextID' = id
       /\ limit' = [limit EXCEPT ![id] = n]
       /\ remaining' = [remaining EXCEPT ![id] = n]
       /\ subs' = [subs EXCEPT ![subType[id]] = @ \cup {id}]
       /\ stage' = [stage EXCEPT ![id] = "adding"]
       /\ Race(subType[id])
  /\ UNCHANGED <<subType, callVars, hs, loaded, slots, closeVars, cache, wg>>

\* The rest of registerSubscription: invalidate, unlock, return.
Registered(s) ==
  /\ mu = s
  /\ Invalidate(subType[s])
  /\ stage' = [stage EXCEPT ![s] = "active"]
  /\ mu' = 0
  /\ UNCHANGED <<nextID, subs, subType, limit, callVars, hVars, closeVars, wg>>

\* The function Subscribe returned: deleteSubscription up to the table's
\* Delete.  Nothing is left to do when a limited handler deleted it already.
Unsubscribe(s) ==
  /\ stage[s] = "active"
  /\ IF s \in subs[subType[s]]
       THEN /\ stage' = [stage EXCEPT ![s] = "unsubscribing"]
            /\ subs' = [subs EXCEPT ![subType[s]] = @ \ {s}]
            /\ Race(subType[s])
       ELSE /\ stage' = [stage EXCEPT ![s] = "unsubscribed"]
            /\ UNCHANGED <<subs, raced>>
  /\ UNCHANGED <<mu, nextID, subType, limit, callVars, hVars, closeVars, cache, wg>>

\* Fault: an unsubscribe function that forgets the snapshot cache.
UnsubscribedNoInvalidate(s) ==
  /\ stage[s] = "unsubscribing"
  /\ stage' = [stage EXCEPT ![s] = "unsubscribed"]
  /\ UNCHANGED <<mu, nextID, subs, subType, limit, callVars, hVars, closeVars,
                 cache, wg, raced>>

\* deleteSubscription's invalidation; the unsubscribe function returns.
Unsubscribed(s) ==
  /\ stage[s] = "unsubscribing"
  /\ Invalidate(subType[s])
  /\ stage' = [stage EXCEPT ![s] = "unsubscribed"]
  /\ UNCHANGED <<mu, nextID, subs, subType, limit, callVars, hVars, closeVars, wg>>

-----------------------------------------------------------------------------
(* Publishing. *)

Goto(c, p) == pc' = [pc EXCEPT ![c] = p]

\* Fault: Publish that does not look at closed.
PublishUnchecked(c) ==
  /\ pc[c] = "new" /\ kind[c] = "sync" /\ mu = 0
  /\ Goto(c, "snapshot") /\ wg' = wg + 1
  /\ UNCHANGED <<kind, type, snap, subVars, hVars, closeVars, cache, raced>>

\* Publish: beginDispatch under lifecycleMu.
Publish(c) ==
  /\ pc[c] = "new" /\ kind[c] = "sync" /\ mu = 0
  /\ IF closed THEN Goto(c, "rejected") /\ UNCHANGED wg
               ELSE Goto(c, "snapshot") /\ wg' = wg + 1
  /\ UNCHANGED <<kind, type, snap, subVars, hVars, closeVars, cache, raced>>

\* PublishAsync looks the handlers up before it asks whether the bus is open.
PublishAsync(c) ==
  /\ pc[c] = "new" /\ kind[c] = "async"
  /\ Goto(c, "snapshot")
  /\ UNCHANGED <<kind, type, snap, subVars, hVars, closeVars, cache, wg, raced>>

\* Where a call continues once it has its handlers: dispatch starts in the
\* caller's goroutine, or asyncRuntimeUnavailable, or submitAsyncTask.
AfterSnapshot(c) ==
  IF kind[c] = "sync" THEN "dispatch"
  ELSE IF PoolSize = 0 THEN "unavailable" ELSE "begin"

\* What a dispatch starts from: every handler of the snapshot is to be called.
Start(c, S) ==
  hs' = [hs EXCEPT ![c] = [s \in Subs |-> IF s \in S THEN "todo" ELSE "none"]]

\* snapshotHandlersByEventType: the cached snapshot, or the row as it is now.
Snapshot(c) ==
  /\ pc[c] = "snapshot"
  /\ LET t   == type[c]
         hit == cache[t] # NoCache
         row == IF hit THEN cache[t] ELSE subs[t]
     IN /\ snap' = [snap EXCEPT ![c] = row]
        /\ Start(c, row)
        /\ Goto(c, IF hit \/ row = {} THEN AfterSnapshot(c) ELSE "store")
  /\ UNCHANGED <<kind, type, subVars, loaded, remaining, slots,
                 closeVars, cache, wg, raced>>

\* The rebuilt snapshot is put into the cache, whatever happened since.
Store(c) ==
  /\ pc[c] = "store"
  /\ cache' = [cache EXCEPT ![type[c]] = snap[c]]
  /\ Goto(c, AfterSnapshot(c))
  /\ UNCHANGED <<kind, type, snap, subVars, hVars, closeVars, wg, raced>>

\* Fault: submitAsyncTask that does not look at closed.
BeginAsyncUnchecked(c) ==
  /\ pc[c] = "begin" /\ mu = 0
  /\ Goto(c, "submit") /\ wg' = wg + 1
  /\ UNCHANGED <<kind, type, snap, subVars, hVars, closeVars, cache, raced>>

\* submitAsyncTask: beginDispatch under lifecycleMu.
BeginAsync(c) ==
  /\ pc[c] = "begin" /\ mu = 0
  /\ IF closed THEN Goto(c, "rejected") /\ UNCHANGED wg
               ELSE Goto(c, "submit") /\ wg' = wg + 1
  /\ UNCHANGED <<kind, type, snap, subVars, hVars, closeVars, cache, raced>>

\* Fault: the failing Submit keeps its unit of dispatchWG.
SubmitFailsNoDone(c, p) ==
  /\ Goto(c, p)
  /\ UNCHANGED <<kind, type, snap, subVars, hVars, closeVars, cache, wg, raced>>

\* ants.Pool.Submit fails: the unit of dispatchWG is given back.
SubmitFails(c, p) ==
  /\ Goto(c, p) /\ wg' = wg - 1
  /\ UNCHANGED <<kind, type, snap, subVars, hVars, closeVars, cache, raced>>

SubmitGoes(c, p) ==
  /\ Goto(c, p)
  /\ UNCHANGED <<kind, type, snap, subVars, hVars, closeVars, cache, wg, raced>>

\* Submit's test of the pool's state.
Submit(c) ==
  /\ pc[c] = "submit"
  /\ IF poolClosed THEN SubmitFails(c, "rejected") ELSE SubmitGoes(c, "retrieve")

\* A worker takes the task, or too many submitters wait, or this one waits.
RetrieveWorker(c) ==
  /\ pc[c] = "retrieve"
  /\ \/ /\ Cardinality(Busy) < PoolSize
        /\ SubmitGoes(c, "dispatch")
     \/ /\ Cardinality(Busy) = PoolSize
        /\ IF MaxBlocking # 0 /\ Cardinality(Waiting) >= MaxBlocking
           THEN SubmitFails(c, "overload") ELSE SubmitGoes(c, "blocked")

\* Fault: Release does not wake the waiting submitters.
WakeByWorkerOnly(c) ==
  /\ pc[c] = "blocked" /\ ~poolClosed
  /\ Cardinality(Busy) < PoolSize /\ SubmitGoes(c, "retrieve")

\* A waiting submitter is woken by a returning worker or by Release.
Wake(c) ==
  /\ pc[c] = "blocked"
  /\ \/ poolClosed /\ SubmitFails(c, "rejected")
     \/ ~poolClosed /\ Cardinality(Busy) < PoolSize /\ SubmitGoes(c, "retrieve")

-----------------------------------------------------------------------------
(* Dispatching: dispatchSerial and dispatchParallel with their handlers.    *)

Move(c, s, p) == hs' = [hs EXCEPT ![c][s] = p]

\* A handler ends in phase p; in parallel mode its slot is released.
Leave(c, s, p) ==
  /\ Move(c, s, p)
  /\ slots' = IF Parallel THEN slots - 1 ELSE slots

\* Fault: one handler too many fits into the limiter.
EnterHandlerOffByOne(c, s) ==
  /\ pc[c] = "dispatch" /\ hs[c][s] = "todo"
  /\ slots <= PoolSize /\ slots' = slots + 1
  /\ Move(c, s, IF limit[s] = 0 THEN "running" ELSE "entered")
  /\ UNCHANGED <<loaded, remaining, subVars, callVars, closeVars, cache, wg, raced>>

\* The next handler starts: serially after the one before it has returned, in
\* parallel once acquireParallelSlot has found a place.  A limited handler
\* first draws from its counter.
EnterHandler(c, s) ==
  /\ pc[c] = "dispatch" /\ hs[c][s] = "todo"
  /\ IF Parallel
       THEN (PoolSize = 0 \/ slots < PoolSize) /\ slots' = slots + 1
       ELSE (\A r \in Subs : hs[c][r] \notin InHandler) /\ UNCHANGED slots
  /\ Move(c, s, IF limit[s] = 0 THEN "running" ELSE "entered")
  /\ UNCHANGED <<loaded, remaining, subVars, callVars, closeVars, cache, wg, raced>>

\* consumeSubscriptionCall: Load; an exhausted counter ends the handler.
LoadRemaining(c, s) ==
  /\ hs[c][s] = "entered"
  /\ IF remaining[s] <= 0
       THEN Leave(c, s, "skipped") /\ UNCHANGED loaded
       ELSE /\ Move(c, s, "loaded")
            /\ loaded' = [loaded EXCEPT ![c][s] = remaining[s]]
            /\ UNCHANGED slots
  /\ UNCHANGED <<remaining, subVars, callVars, closeVars, cache, wg, raced>>

\* Fault: a plain store in place of the compare-and-swap.
StoreRemaining(c, s) ==
  /\ hs[c][s] = "loaded"
  /\ remaining' = [remaining EXCEPT ![s] = loaded[c][s] - 1]
  /\ Move(c, s, IF loaded[c][s] = 1 THEN "deleting" ELSE "running")
  /\ loaded' = [loaded EXCEPT ![c][s] = 0]
  /\ UNCHANGED <<slots, subVars, callVars, closeVars, cache, wg, raced>>

\* consumeSubscriptionCall: CompareAndSwap; the loser loads again, and who
\* draws the last call deletes the subscription.
CompareAndSwap(c, s) ==
  /\ hs[c][s] = "loaded"
  /\ IF remaining[s] = loaded[c][s]
       THEN /\ remaining' = [remaining EXCEPT ![s] = @ - 1]
            /\ Move(c, s, IF loaded[c][s] = 1 THEN "deleting" ELSE "running")
       ELSE Move(c, s, "entered") /\ UNCHANGED remaining
  /\ loaded' = [loaded EXCEPT ![c][s] = 0]
  /\ UNCHANGED <<slots, subVars, callVars, closeVars, cache, wg, raced>>

\* deleteSubscription called by the handler that drew the last call.
DeleteExhausted(c, s) ==
  /\ hs[c][s] = "deleting"
  /\ IF s \in subs[subType[s]]
       THEN /\ subs' = [subs EXCEPT ![subType[s]] = @ \ {s}]
            /\ Race(subType[s]) /\ Move(c, s, "invalidating")
       ELSE Move(c, s, "running") /\ UNCHANGED <<subs, raced>>
  /\ UNCHANGED <<mu, nextID, subType, limit, stage, loaded, remaining, slots,
                 callVars, closeVars, cache, wg>>

InvalidateExhausted(c, s) ==
  /\ hs[c][s] = "invalidating"
  /\ Invalidate(subType[s])
  /\ Move(c, s, "running")
  /\ UNCHANGED <<loaded, remaining, slots, subVars, callVars, closeVars, wg>>

\* The user's handler returns nil or an error; the dispatch goes on.
HandlerReturns(c, s) ==
  /\ hs[c][s] = "running"
  /\ \E p \in {"ran", "failed"} : Leave(c, s, p)
  /\ UNCHANGED <<loaded, remaining, subVars, callVars, closeVars, cache, wg, raced>>

\* The user's handler panics in a serial dispatch: the panic leaves the
\* dispatch, to the publisher or to the pool's recover, through the deferred
\* dispatchWG.Done; the handlers behind it are not called.
HandlerPanics(c, s) ==
  /\ ~Parallel /\ hs[c][s] = "running"
  /\ Leave(c, s, "panicked")
  /\ Goto(c, "panicked") /\ wg' = wg - 1
  /\ UNCHANGED <<loaded, remaining, kind, type, snap, subVars,
                 closeVars, cache, raced>>

\* Every handler of the snapshot is through: dispatch returns the joined
\* errors and the deferred dispatchWG.Done runs; a worker is free again.
DispatchReturns(c) ==
  /\ pc[c] = "dispatch"
  /\ \A s \in Subs : hs[c][s] \notin {"todo"} \cup InHandler
  /\ Goto(c, IF \E s \in Subs : hs[c][s] = "failed" THEN "failed" ELSE "done")
  /\ wg' = wg - 1
  /\ UNCHANGED <<kind, type, snap, subVars, hVars, closeVars, cache, raced>>

-----------------------------------------------------------------------------
(* Close. *)

\* Close under lifecycleMu; a second Close finds the bus closed and returns.
Close(k) ==
  /\ closer[k] = "new" /\ mu = 0
  /\ IF closed
       THEN closer' = [closer EXCEPT ![k] = "returnedAtOnce"] /\ UNCHANGED closed
       ELSE closer' = [closer EXCEPT ![k] = "release"] /\ closed' = TRUE
  /\ UNCHANGED <<poolClosed, subVars, callVars, hVars, cache, wg, raced>>

\* pool.Release, when there is a pool.
ReleasePool(k) ==
  /\ closer[k] = "release"
  /\ closer' = [closer EXCEPT ![k] = "wait"]
  /\ poolClosed' = (PoolSize > 0)
  /\ UNCHANGED <<closed, subVars, callVars, hVars, cache, wg, raced>>

\* Fault: Close does not wait for the dispatches in flight.
ReturnWithoutWait(k) ==
  /\ closer[k] = "wait"
  /\ closer' = [closer EXCEPT ![k] = "returned"]
  /\ UNCHANGED <<closed, poolClosed, subVars, callVars, hVars, cache, wg, raced>>

\* dispatchWG.Wait returns.
WaitReturns(k) ==
  /\ closer[k] = "wait" /\ wg = 0
  /\ closer' = [closer EXCEPT ![k] = "returned"]
  /\ UNCHANGED <<closed, poolClosed, subVars, callVars, hVars, cache, wg, raced>>

-----------------------------------------------------------------------------
(* The steps the bus itself takes once it has been called. *)
HandlerStep(c, s) ==
  \/ EnterHandler(c, s) \/ LoadRemaining(c, s) \/ CompareAndSwap(c, s)
  \/ DeleteExhausted(c, s) \/ InvalidateExhausted(c, s)
  \/ HandlerReturns(c, s) \/ HandlerPanics(c, s)

CallStep(c) ==
  \/ Snapshot(c) \/ Store(c) \/ BeginAsync(c) \/ Submit(c)
  \/ RetrieveWorker(c) \/ Wake(c) \/ DispatchReturns(c)

CloseStep(k) == ReleasePool(k) \/ WaitReturns(k)

Next ==
  \/ \E n \in 0..MaxCalls : Register(n)
  \/ \E s \in Subs : Registered(s) \/ Unsubscribe(s) \/ Unsubscribed(s)
  \/ \E c \in Calls : Publish(c) \/ PublishAsync(c) \/ CallStep(c)
  \/ \E c \in Calls, s \in Subs : HandlerStep(c, s)
  \/ \E k \in Closers : Close(k) \/ CloseStep(k)

Spec == Init /\ [][Next]_vars

\* Goroutines that can run are scheduled and user handlers end: no fairness is
\* assumed of who calls Subscribe, the unsubscribe functions, Publish or Close.
Fairness ==
  /\ \A s \in Subs : WF_vars(Registered(s)) /\ WF_vars(Unsubscribed(s))
  /\ \A c \in Calls : WF_vars(CallStep(c))
  /\ \A c \in Calls, s \in Subs : WF_vars(HandlerStep(c, s))
  /\ \A k \in Closers : WF_vars(CloseStep(k))

FairSpec == Spec /\ Fairness

-----------------------------------------------------------------------------
(* Properties. *)

\* Type invariant of the bus; in particular dispatchWG never becomes negative
\* (sync.WaitGroup panics) and no slot is released that was not acquired
\* (releaseParallelSlot would block).
TypeOK ==
  /\ mu \in 0..MaxSubs /\ nextID \in 0..MaxSubs
  /\ closed \in BOOLEAN /\ poolClosed \in BOOLEAN
  /\ subs \in [Types -> SUBSET Subs]
  /\ subType \in [Subs -> Types]
  /\ limit \in [Subs -> 0..MaxCalls] /\ remaining \in [Subs -> Nat]
  /\ stage \in [Subs -> Stage]
  /\ cache \in [Types -> {NoCache} \cup SUBSET Subs]
  /\ wg \in Nat /\ slots \in Nat
  /\ pc \in [Calls -> CallPC]
  /\ kind \in [Calls -> {"sync", "async"}]
  /\ type \in [Calls -> Types]
  /\ snap \in [Calls -> SUBSET Subs]
  /\ hs \in [Calls -> [Subs -> HPhase]]
  /\ loaded \in [Calls -> [Subs -> Nat]]
  /\ closer \in [Closers -> CloserPC]
  /\ raced \in SUBSET Types

\* The Close that shut the bus returns only after every admitted dispatch has
\* ended: no call counted by dispatchWG is left, so no handler runs and no
\* accepted asynchronous task is lost (Close: "drains async queue, and waits
\* in-flight handlers").
CloseDrains ==
  (\E k \in Closers : closer[k] = "returned") =>
    /\ Counted = {}
    /\ \A c \in Calls, s \in Subs : hs[c][s] \notin InHandler

\* SubscribeN: however many publishers race, the user's handler is entered at
\* most n times (consumeSubscriptionCall).
AtMostN ==
  \A s \in Subs :
    limit[s] > 0 =>
      Cardinality({ c \in Calls : hs[c][s] \in Consuming }) <= limit[s]

\* handlerCache holds either nothing or exactly the subscribed handlers of a
\* type, unless an invalidation is still to come or the row changed between
\* some publisher's read of it and its store into the cache: that race is the
\* only way a stale snapshot gets into the cache.
InvalidationPending(t) ==
  \/ \E s \in Subs : subType[s] = t /\ stage[s] \in {"adding", "unsubscribing"}
  \/ \E c \in Calls, s \in Subs : subType[s] = t /\ hs[c][s] = "invalidating"
CacheFreshUnlessRaced ==
  \A t \in Types \ raced :
    ~InvalidationPending(t) => cache[t] \in {NoCache, subs[t]}

\* Parallel dispatch: the handlers running at once, over all dispatches of the
\* bus, never outnumber the limiter (acquireParallelSlot).
ParallelBound ==
  Parallel /\ PoolSize > 0 =>
    Cardinality({ x \in Calls \X Subs : hs[x[1]][x[2]] \in InHandler }) <= PoolSize

\* A dispatch that returned has called every handler of its snapshot, the ones
\* behind a failing handler too; only a handler whose SubscribeN count is used
\* up is passed over.
AllHandlersServed ==
  \A c \in Calls : pc[c] \in {"done", "failed"} =>
    \A s \in snap[c] :
      \/ hs[c][s] \in {"ran", "failed"}
      \/ hs[c][s] = "skipped" /\ limit[s] > 0 /\ remaining[s] = 0

\* A dispatch is exact: over well-formed state, a limited handler is called at most
\* as often as it asked for, and every handler of the snapshot is served.
DispatchExact == TypeOK /\ AtMostN /\ AllHandlersServed

\* Once the bus is closed no call is admitted any more: the set of calls
\* counted by dispatchWG only shrinks, which is what makes Wait meaningful.
NoAdmissionAfterClose == [][closed => Counted' \subseteq Counted]_vars

\* A call that began is answered: the dispatch ends, or the caller is told that
\* the bus is closed, overloaded or has no runtime.  A submitter blocked on a
\* full pool is no exception.
EveryCallEnds ==
  \A c \in Calls :
    pc[c] # "new" ~>
      pc[c] \in {"done", "failed", "panicked", "rejected", "overload", "unavailable"}

\* Close returns.
CloseReturns == \A k \in Closers : closer[k] # "new" ~> closer[k] \in {"returned", "returnedAtOnce"}

\* The bus implements the shutdown protocol of BusLifecycle: a call is admitted
\* while it holds a unit of dispatchWG.
WorkOf(c) ==
  CASE c \in Counted -> "admitted"
    [] pc[c] \in {"done", "failed", "panicked", "rejected", "overload", "unavailable"} -> "over"
    [] OTHER -> "outside"
ClosingOf(k) ==
  CASE closer[k] = "new" -> "idle"
    [] closer[k] \in {"release", "wait"} -> "draining"
    [] closer[k] = "returned" -> "drained"
    [] closer[k] = "returnedAtOnce" -> "ignored"
Lifecycle == INSTANCE BusLifecycle WITH
  open <- ~closed, work <- [c \in Calls |-> WorkOf(c)],
  closing <- [k \in Closers |-> ClosingOf(k)]

\* EventBus implements BusLifecycle.
ImplementsLifecycle == Lifecycle!Spec
=============================================================================
