--------------------------- MODULE EventBusProofs ---------------------------
(***************************************************************************)
(* The event bus, proved for every number of calls, closers, handlers,     *)
(* types and places: its shutdown, which implements BusLifecycle; and      *)
(* concurrent dispatches, how many handlers run, how often each is called, *)
(* and what the snapshot cache holds.                                      *)
(***************************************************************************)
EXTENDS EventBus, FiniteSetTheorems, TLAPS

\* The types the proofs need, by owner; TypeOK's non-negative counters are
\* consequences of CounterInv and its like.
SubTypes ==
  /\ mu \in 0..MaxSubs /\ nextID \in 0..MaxSubs
  /\ subs \in [Types -> SUBSET Subs] /\ subType \in [Subs -> Types]
  /\ limit \in [Subs -> 0..MaxCalls] /\ stage \in [Subs -> Stage]
CacheTypes ==
  cache \in [Types -> {NoCache} \cup SUBSET Subs] /\ raced \in SUBSET Types
CallTypes ==
  /\ pc \in [Calls -> CallPC] /\ kind \in [Calls -> {"sync", "async"}]
  /\ type \in [Calls -> Types] /\ snap \in [Calls -> SUBSET Subs]
HandlerTypes == hs \in [Calls -> [Subs -> HPhase]]
CloseTypes ==
  /\ closed \in BOOLEAN /\ poolClosed \in BOOLEAN
  /\ closer \in [Closers -> CloserPC] /\ wg \in Int
Types0 == SubTypes /\ CacheTypes /\ CallTypes /\ HandlerTypes /\ CloseTypes

\* dispatchWG counts exactly the calls between beginDispatch and Done.
CounterInv == wg = Cardinality(Counted)

\* A handler is entered only inside a dispatch, one at a time when serial.
HandlerInv ==
  \A c \in Calls, s \in Subs :
    /\ hs[c][s] \in InHandler => pc[c] = "dispatch"
    /\ ~Parallel /\ hs[c][s] \in InHandler =>
         \A r \in Subs : hs[c][r] \in InHandler => r = s

\* Whoever is past the first critical section of Close has set closed, and
\* the counter was zero when Wait returned.
CloseInv ==
  \A k \in Closers :
    /\ closer[k] \in {"release", "wait", "returned"} => closed
    /\ closer[k] = "returned" => Counted = {}

BusInv == Types0 /\ CounterInv /\ HandlerInv /\ CloseInv

-----------------------------------------------------------------------------
LEMMA CountedFinite == IsFiniteSet(Counted)
BY BusAssumption, FS_Subset DEF Counted

\* How a step of one call changes the set dispatchWG counts.
LEMMA GotoCounted ==
  ASSUME Types0, NEW c \in Calls, NEW p \in CallPC, Goto(c, p), kind' = kind
  PROVE  /\ p \in CountedPC(kind[c]) => Counted' = Counted \cup {c}
         /\ p \notin CountedPC(kind[c]) => Counted' = Counted \ {c}
BY DEF Types0, CallTypes, Goto, Counted

LEMMA CardinalityStep ==
  ASSUME NEW c \in Calls
  PROVE  /\ c \notin Counted => Cardinality(Counted \cup {c}) = Cardinality(Counted) + 1
         /\ c \in Counted => Cardinality(Counted \ {c}) = Cardinality(Counted) - 1
         /\ c \in Counted => Counted \cup {c} = Counted
         /\ c \notin Counted => Counted \ {c} = Counted
BY CountedFinite, FS_AddElement, FS_RemoveElement

LEMMA InitInv == Init => BusInv
<1> SUFFICES ASSUME Init PROVE BusInv
  OBVIOUS
<1> USE BusAssumption
<1>0. 0 \in 0..MaxSubs /\ 0 \in 0..MaxCalls
  BY DEF BusAssumption
<1>1. Types0
  <2>1. SubTypes /\ CacheTypes
    BY <1>0 DEF Init, SubTypes, CacheTypes, Stage
  <2>2. CallTypes
    BY DEF Init, CallTypes, CallPC
  <2>4. CloseTypes
    <3>1. closed \in BOOLEAN /\ poolClosed \in BOOLEAN
      BY Zenon DEF Init
    <3>2. closer \in [Closers -> CloserPC] /\ wg \in Int
      BY DEF Init, CloserPC
    <3> QED BY <3>1, <3>2 DEF CloseTypes
  <2>3. HandlerTypes
    BY DEF Init, HandlerTypes, HPhase
  <2> QED BY <2>1, <2>2, <2>3, <2>4 DEF Types0
<1>2. Counted = {}
  BY DEF Init, Counted, CountedPC
<1>3. CounterInv
  BY <1>2, FS_EmptySet DEF Init, CounterInv
<1>4. HandlerInv
  BY DEF Init, HandlerInv, InHandler
<1>5. CloseInv
  BY DEF Init, CloseInv
<1> QED BY <1>1, <1>3, <1>4, <1>5 DEF BusInv

-----------------------------------------------------------------------------
(* Types. *)

LEMMA SubTypesStep == ASSUME Types0, [Next]_vars PROVE SubTypes' /\ CacheTypes'
<1> USE BusAssumption DEF Types0, SubTypes, CacheTypes, CallTypes, Stage
<1>1. ASSUME NEW n \in 0..MaxCalls, Register(n) PROVE SubTypes' /\ CacheTypes'
  <2>1. nextID + 1 \in Subs /\ nextID + 1 \in 0..MaxSubs
    BY <1>1 DEF Register, Subs
  <2> QED BY <1>1, <2>1 DEF Register, Race
<1>2. ASSUME NEW s \in Subs, Registered(s) \/ Unsubscribe(s) \/ Unsubscribed(s)
      PROVE  SubTypes' /\ CacheTypes'
  <2>1. s \in 0..MaxSubs /\ 0 \in 0..MaxSubs
    BY DEF Subs
  <2>2. CASE Registered(s)
    BY <2>1, <2>2 DEF Registered, Invalidate
  <2>3. CASE Unsubscribe(s)
    BY <2>1, <2>3 DEF Unsubscribe, Race
  <2>4. CASE Unsubscribed(s)
    BY <2>1, <2>4 DEF Unsubscribed, Invalidate
  <2> QED BY <1>2, <2>2, <2>3, <2>4
<1>3. ASSUME NEW c \in Calls, Publish(c) \/ PublishAsync(c) \/ CallStep(c)
      PROVE  SubTypes' /\ CacheTypes'
  <2>1. CASE Store(c)
    BY <2>1 DEF Store, subVars
  <2>2. CASE ~Store(c)
    BY <1>3, <2>2 DEF CallStep, Publish, PublishAsync, Snapshot, BeginAsync, Submit,
       RetrieveWorker, Wake, DispatchReturns, SubmitFails, SubmitGoes, subVars
  <2> QED BY <2>1, <2>2
<1>4. ASSUME NEW c \in Calls, NEW s \in Subs, HandlerStep(c, s)
      PROVE  SubTypes' /\ CacheTypes'
  <2>1. CASE DeleteExhausted(c, s)
    BY <2>1 DEF DeleteExhausted, Race
  <2>2. CASE InvalidateExhausted(c, s)
    BY <2>2 DEF InvalidateExhausted, Invalidate, subVars
  <2>3. CASE EnterHandler(c, s) \/ LoadRemaining(c, s) \/ CompareAndSwap(c, s)
               \/ HandlerReturns(c, s) \/ HandlerPanics(c, s)
    BY <2>3 DEF EnterHandler, LoadRemaining, CompareAndSwap, HandlerReturns,
       HandlerPanics, subVars
  <2> QED BY <1>4, <2>1, <2>2, <2>3 DEF HandlerStep
<1>5. ASSUME NEW k \in Closers, Close(k) \/ CloseStep(k)
      PROVE  SubTypes' /\ CacheTypes'
  BY <1>5 DEF Close, CloseStep, ReleasePool, WaitReturns, subVars
<1>6. CASE UNCHANGED vars
  BY <1>6 DEF vars, subVars
<1> QED BY <1>1, <1>2, <1>3, <1>4, <1>5, <1>6 DEF Next

\* A step that only sends call c to p, or leaves the calls alone, keeps their types.
LEMMA GotoTypes ==
  ASSUME Types0, NEW c \in Calls, NEW p \in CallPC, Goto(c, p),
         UNCHANGED <<kind, type, snap>>
  PROVE  CallTypes'
BY DEF Types0, CallTypes, Goto

LEMMA CallTypesStep == ASSUME Types0, [Next]_vars PROVE CallTypes'
<1> USE DEF callVars
<1>1. ASSUME NEW c \in Calls, Publish(c) \/ PublishAsync(c) \/ CallStep(c)
      PROVE  CallTypes'
  <2>1. CASE Publish(c) \/ PublishAsync(c)
    <3>1. PICK p \in {"rejected", "snapshot"} : Goto(c, p)
      BY <2>1 DEF Publish, PublishAsync
    <3> QED BY <2>1, <3>1, GotoTypes DEF Publish, PublishAsync, CallPC
  <2>2. CASE Snapshot(c)
    <3>1. snap' \in [Calls -> SUBSET Subs]
      BY <2>2 DEF Snapshot, Types0, CallTypes, SubTypes, CacheTypes
    <3>2. pc' \in [Calls -> CallPC]
      BY <2>2 DEF Snapshot, AfterSnapshot, Goto, Types0, CallTypes, CallPC
    <3> QED BY <2>2, <3>1, <3>2 DEF Snapshot, Types0, CallTypes
  <2>3. CASE Store(c)
    <3>1. AfterSnapshot(c) \in CallPC
      BY DEF AfterSnapshot, CallPC
    <3> QED BY <2>3, <3>1, GotoTypes DEF Store
  <2>4. CASE BeginAsync(c)
    <3>1. PICK p \in {"rejected", "submit"} : Goto(c, p)
      BY <2>4 DEF BeginAsync
    <3> QED BY <2>4, <3>1, GotoTypes DEF BeginAsync, CallPC
  <2>5. CASE Submit(c) \/ RetrieveWorker(c) \/ Wake(c)
    <3>1. PICK p \in {"rejected", "retrieve", "dispatch", "overload", "blocked"} :
            SubmitFails(c, p) \/ SubmitGoes(c, p)
      BY <2>5 DEF Submit, RetrieveWorker, Wake
    <3> QED BY <3>1, GotoTypes DEF SubmitFails, SubmitGoes, CallPC
  <2>6. CASE DispatchReturns(c)
    <3>1. PICK p \in {"failed", "done"} : Goto(c, p)
      BY <2>6 DEF DispatchReturns
    <3> QED BY <2>6, <3>1, GotoTypes DEF DispatchReturns, CallPC
  <2> QED BY <1>1, <2>1, <2>2, <2>3, <2>4, <2>5, <2>6 DEF CallStep
<1>2. ASSUME NEW c \in Calls, NEW s \in Subs, HandlerPanics(c, s) PROVE CallTypes'
  BY <1>2, GotoTypes DEF HandlerPanics, CallPC
<1>3. CASE UNCHANGED callVars
  BY <1>3 DEF Types0, CallTypes
<1>4. ASSUME NEW c \in Calls, NEW s \in Subs, HandlerStep(c, s), ~HandlerPanics(c, s)
      PROVE  UNCHANGED callVars
  BY <1>4 DEF HandlerStep, EnterHandler, LoadRemaining, CompareAndSwap, DeleteExhausted,
     InvalidateExhausted, HandlerReturns
<1>5. ASSUME \/ \E n \in 0..MaxCalls : Register(n)
             \/ \E s \in Subs : Registered(s) \/ Unsubscribe(s) \/ Unsubscribed(s)
             \/ \E k \in Closers : Close(k) \/ CloseStep(k)
             \/ UNCHANGED vars
      PROVE  UNCHANGED callVars
  BY <1>5 DEF Register, Registered, Unsubscribe, Unsubscribed, Close, CloseStep,
     ReleasePool, WaitReturns, vars
<1> QED BY <1>1, <1>2, <1>3, <1>4, <1>5 DEF Next

LEMMA HandlerTypesStep == ASSUME Types0, [Next]_vars PROVE HandlerTypes'
<1> USE DEF Types0, HandlerTypes, hVars
<1>1. ASSUME NEW c \in Calls, NEW s \in Subs, HandlerStep(c, s) PROVE HandlerTypes'
  <2>1. PICK p \in HPhase : Move(c, s, p)
    <3> USE DEF Leave, HPhase, InHandler, Consuming
    <3>1. CASE EnterHandler(c, s)
      BY <3>1 DEF EnterHandler
    <3>2. CASE LoadRemaining(c, s) \/ CompareAndSwap(c, s)
      BY <3>2 DEF LoadRemaining, CompareAndSwap
    <3>3. CASE DeleteExhausted(c, s) \/ InvalidateExhausted(c, s)
      BY <3>3 DEF DeleteExhausted, InvalidateExhausted
    <3>4. CASE HandlerReturns(c, s) \/ HandlerPanics(c, s)
      BY <3>4 DEF HandlerReturns, HandlerPanics
    <3> QED BY <1>1, <3>1, <3>2, <3>3, <3>4 DEF HandlerStep
  <2> QED BY <2>1 DEF Move
<1>2. ASSUME NEW c \in Calls, Snapshot(c) PROVE HandlerTypes'
  BY <1>2 DEF Snapshot, Start, HPhase
<1>3. ASSUME NEW c \in Calls, Publish(c) \/ PublishAsync(c) \/ CallStep(c), ~Snapshot(c)
      PROVE  HandlerTypes'
  BY <1>3 DEF CallStep, Publish, PublishAsync, Store, BeginAsync, Submit,
     RetrieveWorker, Wake, DispatchReturns, SubmitFails, SubmitGoes
<1>4. ASSUME \/ \E n \in 0..MaxCalls : Register(n)
             \/ \E s \in Subs : Registered(s) \/ Unsubscribe(s) \/ Unsubscribed(s)
             \/ \E k \in Closers : Close(k) \/ CloseStep(k)
             \/ UNCHANGED vars
      PROVE  HandlerTypes'
  BY <1>4 DEF Register, Registered, Unsubscribe, Unsubscribed, Close, CloseStep,
     ReleasePool, WaitReturns, vars
<1> QED BY <1>1, <1>2, <1>3, <1>4 DEF Next

LEMMA CloseTypesStep == ASSUME Types0, [Next]_vars PROVE CloseTypes'
<1> USE DEF Types0, CloseTypes, closeVars
<1>1. ASSUME NEW k \in Closers, Close(k) PROVE CloseTypes'
  BY <1>1 DEF Close, CloserPC
<1>2. ASSUME NEW k \in Closers, ReleasePool(k) PROVE CloseTypes'
  BY <1>2 DEF ReleasePool, CloserPC
<1>3. ASSUME NEW k \in Closers, WaitReturns(k) PROVE CloseTypes'
  BY <1>3 DEF WaitReturns, CloserPC
<1>4. CASE UNCHANGED closeVars /\ wg' \in {wg, wg + 1, wg - 1}
  BY <1>4
<1>5. ASSUME NEW c \in Calls, Publish(c) \/ PublishAsync(c) \/ CallStep(c)
      PROVE  UNCHANGED closeVars /\ wg' \in {wg, wg + 1, wg - 1}
  BY <1>5 DEF CallStep, Publish, PublishAsync, Snapshot, Store, BeginAsync, Submit,
     RetrieveWorker, Wake, DispatchReturns, SubmitFails, SubmitGoes
<1>6. ASSUME NEW c \in Calls, NEW s \in Subs, HandlerStep(c, s)
      PROVE  UNCHANGED closeVars /\ wg' \in {wg, wg + 1, wg - 1}
  BY <1>6 DEF HandlerStep, EnterHandler, LoadRemaining, CompareAndSwap, DeleteExhausted,
     InvalidateExhausted, HandlerReturns, HandlerPanics
<1>7. ASSUME \/ \E n \in 0..MaxCalls : Register(n)
             \/ \E s \in Subs : Registered(s) \/ Unsubscribe(s) \/ Unsubscribed(s)
             \/ UNCHANGED vars
      PROVE  UNCHANGED closeVars /\ wg' \in {wg, wg + 1, wg - 1}
  BY <1>7 DEF Register, Registered, Unsubscribe, Unsubscribed, vars
<1> QED BY <1>1, <1>2, <1>3, <1>4, <1>5, <1>6, <1>7 DEF Next, CloseStep

LEMMA TypesStep == Types0 /\ [Next]_vars => Types0'
BY SubTypesStep, CallTypesStep, HandlerTypesStep, CloseTypesStep DEF Types0

-----------------------------------------------------------------------------
(* What a step does to the set of calls dispatchWG counts. *)

Same   == Counted' = Counted /\ wg' = wg
Enters == \E c \in Calls : c \notin Counted /\ Counted' = Counted \cup {c} /\ wg' = wg + 1
Leaves == \E c \in Counted : Counted' = Counted \ {c} /\ wg' = wg - 1

\* Only beginDispatch on an open bus adds a call, and every way out of a
\* dispatch or a failed submission takes exactly one away.
LEMMA CountedStep ==
  ASSUME Types0, HandlerInv, [Next]_vars
  PROVE  Same \/ (Enters /\ ~closed) \/ Leaves
<1> DEFINE G == Same \/ (Enters /\ ~closed) \/ Leaves
<1> USE DEF callVars, Same
<1>0. CASE UNCHANGED <<pc, kind, wg>>
  BY <1>0 DEF Counted
<1>1. ASSUME NEW c \in Calls, NEW p \in CallPC, Goto(c, p), UNCHANGED <<kind, wg>>,
             c \in Counted <=> p \in CountedPC(kind[c])
      PROVE  G
  BY <1>1, GotoCounted, CardinalityStep
<1>2. ASSUME NEW c \in Counted, NEW p \in CallPC \ CountedPC(kind[c]), Goto(c, p),
             kind' = kind, wg' = wg - 1
      PROVE  G
  BY <1>2, GotoCounted DEF Leaves, Counted
<1>3. ASSUME NEW c \in Calls, NEW p \in CallPC \cap CountedPC(kind[c]), Goto(c, p),
             c \notin Counted, ~closed, kind' = kind, wg' = wg + 1
      PROVE  G
  BY <1>3, GotoCounted DEF Enters
<1> USE DEF CallPC, CountedPC
<1>4. ASSUME NEW c \in Calls, Publish(c) \/ PublishAsync(c) \/ CallStep(c) PROVE G
  <2>0. kind[c] \in {"sync", "async"}
    BY DEF Types0, CallTypes
  <2>1. CASE Publish(c)
    <3>1. c \notin Counted
      BY <2>1 DEF Publish, Counted
    <3>2. CASE closed
      BY <2>1, <3>1, <3>2, <1>1 DEF Publish
    <3>3. CASE ~closed
      BY <2>1, <3>1, <3>3, <1>3 DEF Publish
    <3> QED BY <3>2, <3>3
  <2>2. CASE PublishAsync(c)
    <3>1. c \notin Counted
      BY <2>2 DEF PublishAsync, Counted
    <3> QED BY <2>2, <3>1, <1>1 DEF PublishAsync
  <2>3. ASSUME pc[c] \in {"snapshot", "store"},
               NEW p \in {AfterSnapshot(c), "store"}, Goto(c, p),
               UNCHANGED <<kind, wg>>
        PROVE  G
    <3>1. c \in Counted <=> kind[c] = "sync"
      BY <2>0, <2>3 DEF Counted
    <3>2. p \in CallPC /\ (p \in CountedPC(kind[c]) <=> kind[c] = "sync")
      BY <2>0, <2>3 DEF AfterSnapshot
    <3> QED BY <2>3, <3>1, <3>2, <1>1
  <2>4. CASE Snapshot(c) \/ Store(c)
    <3>1. PICK p \in {AfterSnapshot(c), "store"} : Goto(c, p)
      BY <2>4 DEF Snapshot, Store
    <3> QED BY <2>3, <2>4, <3>1 DEF Snapshot, Store
  <2>5. CASE BeginAsync(c)
    <3>1. c \notin Counted
      BY <2>0, <2>5 DEF BeginAsync, Counted
    <3>2. CASE closed
      BY <2>5, <3>1, <3>2, <1>1 DEF BeginAsync
    <3>3. CASE ~closed
      BY <2>5, <3>1, <3>3, <1>3 DEF BeginAsync
    <3> QED BY <3>2, <3>3
  <2>6. CASE Submit(c) \/ RetrieveWorker(c) \/ Wake(c)
    <3>1. c \in Counted
      BY <2>6 DEF Submit, RetrieveWorker, Wake, Counted
    <3>2. \/ \E p \in {"rejected", "overload"} : SubmitFails(c, p)
          \/ \E p \in {"retrieve", "dispatch", "blocked"} : SubmitGoes(c, p)
      BY <2>6 DEF Submit, RetrieveWorker, Wake
    <3>3. ASSUME NEW p \in {"rejected", "overload"}, SubmitFails(c, p) PROVE G
      <4>1. p \in CallPC \ CountedPC(kind[c])
        BY <2>0, <3>3
      <4> QED BY <3>1, <3>3, <4>1, <1>2 DEF SubmitFails
    <3>4. ASSUME NEW p \in {"retrieve", "dispatch", "blocked"}, SubmitGoes(c, p) PROVE G
      <4>1. p \in CallPC \cap CountedPC(kind[c])
        BY <2>0, <3>4
      <4> QED BY <3>1, <3>4, <4>1, <1>1 DEF SubmitGoes
    <3> QED BY <3>2, <3>3, <3>4
  <2>7. CASE DispatchReturns(c)
    <3>1. c \in Counted
      BY <2>7 DEF DispatchReturns, Counted
    <3>2. PICK p \in {"failed", "done"} : Goto(c, p)
      BY <2>7 DEF DispatchReturns
    <3>3. p \in CallPC \ CountedPC(kind[c])
      BY <2>0, <3>2
    <3> QED BY <2>7, <3>1, <3>2, <3>3, <1>2 DEF DispatchReturns
  <2> QED BY <1>4, <2>1, <2>2, <2>4, <2>5, <2>6, <2>7 DEF CallStep
<1>5. ASSUME NEW c \in Calls, NEW s \in Subs, HandlerPanics(c, s) PROVE G
  <2>1. pc[c] = "dispatch"
    BY <1>5 DEF HandlerPanics, HandlerInv, InHandler
  <2>2. c \in Counted
    BY <2>1 DEF Counted
  <2>3. "panicked" \in CallPC \ CountedPC(kind[c])
    BY DEF Types0, CallTypes
  <2> QED BY <1>5, <2>2, <2>3, <1>2 DEF HandlerPanics
<1>6. ASSUME NEW c \in Calls, NEW s \in Subs, HandlerStep(c, s), ~HandlerPanics(c, s)
      PROVE  UNCHANGED <<pc, kind, wg>>
  BY <1>6 DEF HandlerStep, EnterHandler, LoadRemaining, CompareAndSwap, DeleteExhausted,
     InvalidateExhausted, HandlerReturns
<1>7. ASSUME \/ \E n \in 0..MaxCalls : Register(n)
             \/ \E s \in Subs : Registered(s) \/ Unsubscribe(s) \/ Unsubscribed(s)
             \/ \E k \in Closers : Close(k) \/ CloseStep(k)
             \/ UNCHANGED vars
      PROVE  UNCHANGED <<pc, kind, wg>>
  BY <1>7 DEF Register, Registered, Unsubscribe, Unsubscribed, Close, CloseStep,
     ReleasePool, WaitReturns, vars
<1> QED BY <1>0, <1>4, <1>5, <1>6, <1>7 DEF Next

LEMMA CounterStep == ASSUME BusInv, [Next]_vars PROVE CounterInv'
<1>1. Same \/ Enters \/ Leaves
  BY CountedStep DEF BusInv
<1>2. CASE Same
  BY <1>2 DEF BusInv, CounterInv, Same
<1>3. CASE Enters
  BY <1>3, CardinalityStep DEF BusInv, CounterInv, Enters
<1>4. CASE Leaves
  BY <1>4, CardinalityStep DEF BusInv, CounterInv, Leaves, Counted
<1> QED BY <1>1, <1>2, <1>3, <1>4

LEMMA CloseInvStep == ASSUME BusInv, [Next]_vars PROVE CloseInv'
<1> USE DEF BusInv, CloseInv
<1>1. Same \/ (Enters /\ ~closed) \/ Leaves
  BY CountedStep
<1>2. closed => Counted' \subseteq Counted
  BY <1>1 DEF Same, Leaves
<1>3. CASE UNCHANGED <<closed, closer>>
  BY <1>2, <1>3
<1>4. ASSUME NEW j \in Closers, Close(j) PROVE CloseInv'
  <2>1. j \in Closers /\ closer' = [closer EXCEPT ![j] = IF closed THEN "returnedAtOnce" ELSE "release"]
    BY <1>4 DEF Close
  <2>2. closed'
    BY <1>4 DEF Close
  <2> QED BY <1>2, <2>1, <2>2 DEF Types0, CloseTypes
<1>5. ASSUME NEW j \in Closers, ReleasePool(j) PROVE CloseInv'
  BY <1>2, <1>5 DEF ReleasePool, Types0, CloseTypes
<1>6. ASSUME NEW j \in Closers, WaitReturns(j) PROVE CloseInv'
  <2>1. Counted = {}
    BY <1>6, CountedFinite, FS_EmptySet DEF WaitReturns, CounterInv
  <2> QED BY <1>2, <1>6, <2>1 DEF WaitReturns, Types0, CloseTypes
<1>7. ASSUME NEW c \in Calls, \/ Publish(c) \/ PublishAsync(c) \/ CallStep(c)
                              \/ \E s \in Subs : HandlerStep(c, s)
      PROVE  UNCHANGED <<closed, closer>>
  BY <1>7 DEF CallStep, Publish, PublishAsync, Snapshot, Store, BeginAsync, Submit,
     RetrieveWorker, Wake, DispatchReturns, SubmitFails, SubmitGoes, closeVars,
     HandlerStep, EnterHandler, LoadRemaining, CompareAndSwap, DeleteExhausted,
     InvalidateExhausted, HandlerReturns, HandlerPanics
<1>8. ASSUME \/ \E n \in 0..MaxCalls : Register(n)
             \/ \E s \in Subs : Registered(s) \/ Unsubscribe(s) \/ Unsubscribed(s)
             \/ UNCHANGED vars
      PROVE  UNCHANGED <<closed, closer>>
  BY <1>8 DEF Register, Registered, Unsubscribe, Unsubscribed, vars, closeVars
<1> QED BY <1>3, <1>4, <1>5, <1>6, <1>7, <1>8 DEF Next, CloseStep

-----------------------------------------------------------------------------
(* Handlers run inside dispatches. *)

LEMMA HandlerInvStep == ASSUME BusInv, [Next]_vars PROVE HandlerInv'
<1> USE DEF BusInv, HandlerInv, Types0, HandlerTypes, CallTypes
<1>1. ASSUME NEW c \in Calls, NEW p, Goto(c, p), UNCHANGED hs,
             \A s \in Subs : hs[c][s] \notin InHandler
      PROVE  HandlerInv'
  BY <1>1 DEF Goto
<1>2. ASSUME NEW c \in Calls, Publish(c) \/ PublishAsync(c) \/ CallStep(c)
      PROVE  HandlerInv'
  <2> USE DEF hVars
  <2>1. CASE Snapshot(c)
    <3>1. \A s \in Subs : hs'[c][s] \notin InHandler
      BY <2>1 DEF Snapshot, Start, InHandler
    <3>2. \A d \in Calls \ {c} : hs'[d] = hs[d] /\ pc'[d] = pc[d]
      BY <2>1 DEF Snapshot, Start, Goto
    <3> QED BY <3>1, <3>2
  <2>2. CASE ~Snapshot(c)
    <3>1. \A s \in Subs : hs[c][s] \notin InHandler
      BY <1>2, <2>2 DEF CallStep, Publish, PublishAsync, Store, BeginAsync, Submit,
         RetrieveWorker, Wake, DispatchReturns
    <3>2. UNCHANGED hs /\ \E p : Goto(c, p)
      BY <1>2, <2>2 DEF CallStep, Publish, PublishAsync, Store, BeginAsync, Submit,
         RetrieveWorker, Wake, DispatchReturns, SubmitFails, SubmitGoes
    <3> QED BY <3>1, <3>2, <1>1
  <2> QED BY <2>1, <2>2
<1>3. ASSUME NEW c \in Calls, NEW s \in Subs, HandlerStep(c, s) PROVE HandlerInv'
  <2>1. PICK p : Move(c, s, p)
    BY <1>3 DEF HandlerStep, EnterHandler, LoadRemaining, CompareAndSwap, DeleteExhausted,
       InvalidateExhausted, HandlerReturns, HandlerPanics, Leave
  <2>2. \A d \in Calls, r \in Subs : (d # c \/ r # s) => hs'[d][r] = hs[d][r]
    BY <2>1 DEF Move
  <2>3. CASE EnterHandler(c, s)
    <3>1. UNCHANGED pc /\ pc[c] = "dispatch"
      BY <2>3 DEF EnterHandler, callVars
    <3>2. ~Parallel => \A r \in Subs : hs[c][r] \notin InHandler
      BY <2>3 DEF EnterHandler
    <3> QED BY <2>2, <3>1, <3>2
  <2>4. CASE HandlerPanics(c, s)
    <3>1. hs'[c][s] \notin InHandler
      BY <2>4 DEF HandlerPanics, Leave, Move, InHandler
    <3>2. ~Parallel /\ hs[c][s] \in InHandler
      BY <2>4 DEF HandlerPanics, InHandler
    <3>3. \A d \in Calls \ {c} : pc'[d] = pc[d]
      BY <2>4 DEF HandlerPanics, Goto
    <3> QED BY <2>2, <3>1, <3>2, <3>3
  <2>5. CASE ~EnterHandler(c, s) /\ ~HandlerPanics(c, s)
    <3>1. UNCHANGED pc /\ hs[c][s] \in InHandler
      BY <1>3, <2>5 DEF HandlerStep, LoadRemaining, CompareAndSwap, DeleteExhausted,
         InvalidateExhausted, HandlerReturns, callVars, InHandler
    <3> QED BY <2>2, <3>1
  <2> QED BY <2>3, <2>4, <2>5
<1>4. CASE UNCHANGED <<pc, hs>>
  BY <1>4
<1>5. ASSUME \/ \E n \in 0..MaxCalls : Register(n)
             \/ \E s \in Subs : Registered(s) \/ Unsubscribe(s) \/ Unsubscribed(s)
             \/ \E k \in Closers : Close(k) \/ CloseStep(k)
             \/ UNCHANGED vars
      PROVE  UNCHANGED <<pc, hs>>
  BY <1>5 DEF Register, Registered, Unsubscribe, Unsubscribed, Close, CloseStep,
     ReleasePool, WaitReturns, vars, callVars, hVars
<1> QED BY <1>2, <1>3, <1>4, <1>5 DEF Next

-----------------------------------------------------------------------------
(* The theorems. *)

\* BusInv is an invariant of the bus: dispatchWG counts exactly the admitted
\* calls, handlers run only inside dispatches, and a Close that returned after
\* Wait left no admitted call.
THEOREM BusInvariant == Spec => []BusInv
<1>1. BusInv /\ [Next]_vars => BusInv'
  BY TypesStep, CounterStep, HandlerInvStep, CloseInvStep DEF BusInv
<1> QED BY <1>1, InitInv, PTL DEF Spec

\* Close drains, for any number of publishers, closers and workers.
THEOREM CloseDrainsAlways == Spec => []CloseDrains
<1>1. BusInv => CloseDrains
  <2> SUFFICES ASSUME BusInv, NEW k \in Closers, closer[k] = "returned"
               PROVE  Counted = {} /\ \A c \in Calls, s \in Subs : hs[c][s] \notin InHandler
    BY DEF CloseDrains
  <2>1. Counted = {}
    BY DEF BusInv, CloseInv
  <2>2. ASSUME NEW c \in Calls, NEW s \in Subs, hs[c][s] \in InHandler PROVE FALSE
    BY <2>1, <2>2 DEF BusInv, HandlerInv, Counted, CountedPC
  <2> QED BY <2>1, <2>2
<1> QED BY <1>1, BusInvariant, PTL

\* After Close has set closed, no call is admitted, for any number of
\* publishers and closers.
THEOREM NoAdmissionAfterCloseAlways == Spec => NoAdmissionAfterClose
<1>1. BusInv /\ [Next]_vars => [closed => Counted' \subseteq Counted]_vars
  BY CountedStep DEF BusInv, Same, Leaves
<1> QED BY <1>1, BusInvariant, PTL DEF Spec, NoAdmissionAfterClose

-----------------------------------------------------------------------------
(* EventBus implements BusLifecycle. *)

Over == {"done", "failed", "panicked", "rejected", "overload", "unavailable"}

\* The abstract work of the calls after one call went to p.
LEMMA GotoWork ==
  ASSUME Types0, NEW c \in Calls, NEW p \in CallPC, Goto(c, p), kind' = kind
  PROVE  /\ [d \in Calls |-> WorkOf(d)]' = [[d \in Calls |-> WorkOf(d)] EXCEPT ![c] = WorkOf(c)']
         /\ p \in CountedPC(kind[c]) => WorkOf(c)' = "admitted"
         /\ p \in Over => WorkOf(c)' = "over"
         /\ p \notin Over \cup CountedPC(kind[c]) => WorkOf(c)' = "outside"
<1>1. pc'[c] = p /\ \A d \in Calls \ {c} : pc'[d] = pc[d]
  BY DEF Types0, CallTypes, Goto
<1>2. \A d \in Calls \ {c} : WorkOf(d)' = WorkOf(d)
  BY <1>1 DEF WorkOf, Counted
<1>3. c \in Counted' <=> p \in CountedPC(kind[c])
  BY <1>1 DEF Counted
<1>4. p \in CountedPC(kind[c]) => WorkOf(c)' = "admitted"
  <2>1. p \in CountedPC(kind[c]) => p \notin Over
    BY DEF CountedPC, Over
  <2> QED BY <1>1, <1>3, <2>1 DEF WorkOf, Over
<1>5. p \in Over => WorkOf(c)' = "over"
  <2>1. p \in Over => p \notin CountedPC(kind[c])
    BY DEF CountedPC, Over
  <2> QED BY <1>1, <1>3, <2>1 DEF WorkOf, Over
<1>6. p \notin Over \cup CountedPC(kind[c]) => WorkOf(c)' = "outside"
  BY <1>1, <1>3 DEF WorkOf, Over
<1> QED BY <1>2, <1>4, <1>5, <1>6

\* A step of a call maps to Admit, Refuse, Finish or a stuttering step.
LEMMA CallRefines ==
  ASSUME Types0, NEW c \in Calls, NEW p \in CallPC, Goto(c, p), UNCHANGED <<kind, closeVars>>,
         \/ (WorkOf(c) = WorkOf(c)')
         \/ (WorkOf(c) = "outside" /\ p \in CountedPC(kind[c]) /\ ~closed)
         \/ (WorkOf(c) \in {"outside", "admitted"} /\ p \in Over)
  PROVE  [Lifecycle!Next]_(Lifecycle!vars)
<1> DEFINE work == [d \in Calls |-> WorkOf(d)]
<1>1. work' = [work EXCEPT ![c] = WorkOf(c)']
  BY GotoWork
<1>2. UNCHANGED <<~closed, [k \in Closers |-> ClosingOf(k)]>>
  BY DEF closeVars, ClosingOf
<1>3. CASE WorkOf(c) = WorkOf(c)'
  <2>1. work' = work
    BY <1>1, <1>3
  <2> QED BY <1>2, <2>1 DEF Lifecycle!vars
<1>4. CASE WorkOf(c) = "outside" /\ p \in CountedPC(kind[c]) /\ ~closed
  <2>1. WorkOf(c)' = "admitted"
    BY <1>4, GotoWork
  <2>2. Lifecycle!Admit(c)
    BY <1>1, <1>2, <1>4, <2>1 DEF Lifecycle!Admit
  <2> QED BY <2>2 DEF Lifecycle!Next
<1>5. CASE WorkOf(c) \in {"outside", "admitted"} /\ p \in Over
  <2>1. WorkOf(c)' = "over"
    <3>1. p \notin CountedPC(kind[c])
      BY <1>5 DEF CountedPC, Over
    <3> QED BY <1>5, <3>1, GotoWork
  <2>2. Lifecycle!Refuse(c) \/ Lifecycle!Finish(c)
    BY <1>1, <1>2, <1>5, <2>1 DEF Lifecycle!Refuse, Lifecycle!Finish
  <2> QED BY <2>2 DEF Lifecycle!Next
<1> QED BY <1>3, <1>4, <1>5

\* Where the abstract work of a call is, by its place.
LEMMA WorkAt ==
  ASSUME Types0, NEW c \in Calls
  PROVE  /\ pc[c] \in {"submit", "retrieve", "blocked", "dispatch"} => WorkOf(c) = "admitted"
         /\ pc[c] \in {"snapshot", "store"} => WorkOf(c) = IF kind[c] = "sync" THEN "admitted" ELSE "outside"
         /\ pc[c] \in {"new", "begin"} => WorkOf(c) = "outside"
BY DEF Types0, CallTypes, WorkOf, Counted, CountedPC

\* Every step of the bus is a step of BusLifecycle under the mapping, or changes
\* nothing it shows: beginDispatch admits or refuses, the end of a dispatch and a
\* failed submission finish, and Close goes through draining to drained.
LEMMA RefinementStep ==
  ASSUME BusInv, [Next]_vars
  PROVE  [Lifecycle!Next]_(Lifecycle!vars)
<1> USE DEF BusInv
<1>0. CASE UNCHANGED <<pc, kind, closeVars>>
  BY <1>0 DEF Lifecycle!vars, closeVars, ClosingOf, WorkOf, Counted
<1>1. ASSUME NEW c \in Calls, Publish(c) \/ PublishAsync(c) \/ CallStep(c)
      PROVE  [Lifecycle!Next]_(Lifecycle!vars)
  <2>0. kind[c] \in {"sync", "async"}
    BY DEF Types0, CallTypes
  <2> USE DEF CallPC, CountedPC, Over
  <2>1. CASE Publish(c)
    <3>1. WorkOf(c) = "outside"
      BY <2>1, WorkAt DEF Publish
    <3>2. CASE closed
      BY <2>1, <3>1, <3>2, CallRefines DEF Publish
    <3>3. CASE ~closed
      BY <2>1, <3>1, <3>3, CallRefines DEF Publish
    <3> QED BY <3>2, <3>3
  <2>2. CASE PublishAsync(c)
    <3>1. WorkOf(c) = "outside"
      BY <2>2, WorkAt DEF PublishAsync
    <3>2. WorkOf(c)' = "outside"
      BY <2>2, GotoWork DEF PublishAsync
    <3> QED BY <2>2, <3>1, <3>2, CallRefines DEF PublishAsync
  <2>3. CASE Snapshot(c) \/ Store(c)
    <3>1. PICK p \in {AfterSnapshot(c), "store"} : Goto(c, p)
      BY <2>3 DEF Snapshot, Store
    <3>2. UNCHANGED <<kind, closeVars>> /\ WorkOf(c) = IF kind[c] = "sync" THEN "admitted" ELSE "outside"
      BY <2>3, WorkAt DEF Snapshot, Store
    <3>3. p \in {"dispatch", "unavailable", "begin", "store"}
      BY <3>1 DEF AfterSnapshot
    <3>4. CASE kind[c] = "sync"
      <4>1. p \in CountedPC(kind[c])
        BY <3>1, <3>4 DEF AfterSnapshot
      <4>2. WorkOf(c)' = "admitted"
        BY <3>1, <3>2, <3>3, <4>1, GotoWork
      <4> QED BY <3>1, <3>2, <3>3, <3>4, <4>2, CallRefines
    <3>5. CASE kind[c] = "async" /\ p \in Over
      BY <3>1, <3>2, <3>3, <3>5, CallRefines
    <3>6. CASE kind[c] = "async" /\ p \notin Over
      <4>1. p \in {"begin", "store"}
        BY <3>1, <3>6 DEF AfterSnapshot
      <4>2. WorkOf(c)' = "outside"
        BY <3>1, <3>2, <3>6, <4>1, GotoWork
      <4> QED BY <3>1, <3>2, <3>3, <3>6, <4>2, CallRefines
    <3> QED BY <2>0, <3>4, <3>5, <3>6
  <2>4. CASE BeginAsync(c)
    <3>1. WorkOf(c) = "outside"
      BY <2>4, WorkAt DEF BeginAsync
    <3>2. CASE closed
      BY <2>4, <3>1, <3>2, CallRefines DEF BeginAsync
    <3>3. CASE ~closed
      BY <2>4, <3>1, <3>3, CallRefines DEF BeginAsync
    <3> QED BY <3>2, <3>3
  <2>5. CASE Submit(c) \/ RetrieveWorker(c) \/ Wake(c)
    <3>1. WorkOf(c) = "admitted"
      BY <2>5, WorkAt DEF Submit, RetrieveWorker, Wake
    <3>2. \/ \E p \in {"rejected", "overload"} : SubmitFails(c, p)
          \/ \E p \in {"retrieve", "dispatch", "blocked"} : SubmitGoes(c, p)
      BY <2>5 DEF Submit, RetrieveWorker, Wake
    <3>3. ASSUME NEW p \in {"rejected", "overload"}, SubmitFails(c, p)
          PROVE  [Lifecycle!Next]_(Lifecycle!vars)
      BY <3>1, <3>3, CallRefines DEF SubmitFails
    <3>4. ASSUME NEW p \in {"retrieve", "dispatch", "blocked"}, SubmitGoes(c, p)
          PROVE  [Lifecycle!Next]_(Lifecycle!vars)
      <4>1. WorkOf(c)' = "admitted"
        BY <3>4, GotoWork DEF SubmitGoes
      <4> QED BY <3>1, <3>4, <4>1, CallRefines DEF SubmitGoes
    <3> QED BY <3>2, <3>3, <3>4
  <2>6. CASE DispatchReturns(c)
    <3>1. WorkOf(c) = "admitted"
      BY <2>6, WorkAt DEF DispatchReturns
    <3>2. PICK p \in {"failed", "done"} : Goto(c, p)
      BY <2>6 DEF DispatchReturns
    <3> QED BY <2>6, <3>1, <3>2, CallRefines DEF DispatchReturns
  <2> QED BY <1>1, <2>1, <2>2, <2>3, <2>4, <2>5, <2>6 DEF CallStep
<1>2. ASSUME NEW c \in Calls, NEW s \in Subs, HandlerStep(c, s)
      PROVE  [Lifecycle!Next]_(Lifecycle!vars)
  <2>1. CASE HandlerPanics(c, s)
    <3>1. pc[c] = "dispatch"
      BY <2>1 DEF HandlerPanics, HandlerInv, InHandler
    <3>2. WorkOf(c) = "admitted"
      BY <3>1, WorkAt
    <3> QED BY <2>1, <3>2, CallRefines DEF HandlerPanics, CallPC, Over
  <2>2. CASE ~HandlerPanics(c, s)
    <3>1. UNCHANGED <<pc, kind, closeVars>>
      BY <1>2, <2>2 DEF HandlerStep, EnterHandler, LoadRemaining, CompareAndSwap,
         DeleteExhausted, InvalidateExhausted, HandlerReturns, callVars
    <3> QED BY <3>1, <1>0
  <2> QED BY <2>1, <2>2
<1>3. ASSUME NEW k \in Closers, Close(k) \/ CloseStep(k)
      PROVE  [Lifecycle!Next]_(Lifecycle!vars)
  <2> DEFINE closing == [j \in Closers |-> ClosingOf(j)]
  <2>1. UNCHANGED [d \in Calls |-> WorkOf(d)]
    BY <1>3 DEF Close, CloseStep, ReleasePool, WaitReturns, callVars, WorkOf, Counted
  <2>2. PICK q \in CloserPC : closer' = [closer EXCEPT ![k] = q]
    BY <1>3 DEF Close, CloseStep, ReleasePool, WaitReturns, CloserPC
  <2>3. closing' = [closing EXCEPT ![k] = ClosingOf(k)'] /\ closer'[k] = q
    <3>1. closer'[k] = q /\ \A j \in Closers \ {k} : closer'[j] = closer[j]
      BY <2>2 DEF Types0, CloseTypes
    <3>2. \A j \in Closers \ {k} : ClosingOf(j)' = ClosingOf(j)
      BY <3>1 DEF ClosingOf
    <3> QED BY <3>1, <3>2
  <2>4. CASE Close(k)
    <3>1. ClosingOf(k) = "idle"
      BY <2>4 DEF Close, ClosingOf
    <3>2. CASE closed
      <4>1. ClosingOf(k)' = "ignored" /\ closed' = closed
        BY <2>2, <2>3, <2>4, <3>2 DEF Close, ClosingOf, Types0, CloseTypes
      <4> QED BY <2>1, <2>3, <3>1, <3>2, <4>1 DEF Lifecycle!Next, Lifecycle!ShutAlready
    <3>3. CASE ~closed
      <4>1. ClosingOf(k)' = "draining" /\ closed'
        BY <2>2, <2>3, <2>4, <3>3 DEF Close, ClosingOf, Types0, CloseTypes
      <4> QED BY <2>1, <2>3, <3>1, <3>3, <4>1 DEF Lifecycle!Next, Lifecycle!Shut
    <3> QED BY <3>2, <3>3
  <2>5. CASE ReleasePool(k)
    <3>1. ClosingOf(k) = "draining" /\ ClosingOf(k)' = "draining" /\ closed' = closed
      BY <2>2, <2>5 DEF ReleasePool, ClosingOf, Types0, CloseTypes
    <3>2. closing' = closing
      BY <2>3, <3>1
    <3> QED BY <2>1, <3>1, <3>2 DEF Lifecycle!vars
  <2>6. CASE WaitReturns(k)
    <3>1. ClosingOf(k) = "draining" /\ ClosingOf(k)' = "drained" /\ closed' = closed
      BY <2>2, <2>6 DEF WaitReturns, ClosingOf, Types0, CloseTypes
    <3>2. Counted = {}
      BY <2>6, CountedFinite, FS_EmptySet DEF WaitReturns, CounterInv
    <3>3. \A d \in Calls : WorkOf(d) # "admitted"
      BY <3>2 DEF WorkOf
    <3> QED BY <2>1, <2>3, <3>1, <3>3 DEF Lifecycle!Next, Lifecycle!Drained
  <2> QED BY <1>3, <2>4, <2>5, <2>6 DEF CloseStep
<1>4. ASSUME \/ \E n \in 0..MaxCalls : Register(n)
             \/ \E s \in Subs : Registered(s) \/ Unsubscribe(s) \/ Unsubscribed(s)
             \/ UNCHANGED vars
      PROVE  UNCHANGED <<pc, kind, closeVars>>
  BY <1>4 DEF Register, Registered, Unsubscribe, Unsubscribed, vars, callVars
<1> QED BY <1>0, <1>1, <1>2, <1>3, <1>4 DEF Next

\* The bus does what BusLifecycle promises, for every number of calls, handlers and
\* Close calls: a publish is refused once Close has set the flag, an admitted one is
\* finished before Close returns, and a second Close is ignored.
THEOREM Refinement == Spec => ImplementsLifecycle
<1>1. Init => Lifecycle!Init
  BY DEF Init, Lifecycle!Init, WorkOf, ClosingOf, Counted, CountedPC
<1>2. BusInv /\ [Next]_vars => [Lifecycle!Next]_(Lifecycle!vars)
  BY RefinementStep
<1> QED BY <1>1, <1>2, BusInvariant, PTL DEF Spec, ImplementsLifecycle, Lifecycle!Spec

-----------------------------------------------------------------------------
(* Dispatching: slots, counters and phases of the handlers. *)

\* The handlers that are running, over all dispatches.
Running == { x \in Calls \X Subs : hs[x[1]][x[2]] \in InHandler }

\* parallelLimit holds one place for each running handler, up to its capacity.
SlotInv ==
  /\ slots = IF Parallel THEN Cardinality(Running) ELSE 0
  /\ Parallel /\ PoolSize > 0 => slots <= PoolSize

\* Only ids handed out by nextID are in the table, the cache or a snapshot.
KnownInv ==
  /\ \A t \in Types : /\ subs[t] \subseteq 1..nextID
                      /\ cache[t] # NoCache => cache[t] \subseteq 1..nextID
  /\ \A c \in Calls : snap[c] \subseteq 1..nextID

\* A call serves exactly its snapshot, only while it dispatches, and is through
\* with every handler when it returned; a panic ends the call.
PhaseInv ==
  \A c \in Calls, s \in Subs :
    /\ s \in snap[c] <=> hs[c][s] # "none"
    /\ hs[c][s] \notin {"none", "todo"} => pc[c] \in {"dispatch", "done", "failed", "panicked"}
    /\ pc[c] \in {"done", "failed"} => hs[c][s] \notin {"todo"} \cup InHandler
    /\ hs[c][s] = "panicked" => pc[c] = "panicked"

\* The calls that drew from the counter of s.
Consumers(s) == { c \in Calls : hs[c][s] \in Consuming }

\* What is left of a SubscribeN count and what was drawn make up the count.
DrawTypes == remaining \in [Subs -> Nat] /\ loaded \in [Calls -> [Subs -> Nat]]
DrawInv ==
  /\ \A s \in Subs : limit[s] > 0 => remaining[s] + Cardinality(Consumers(s)) = limit[s]
  /\ \A c \in Calls, s \in Subs :
       /\ hs[c][s] \in {"entered", "loaded", "skipped"} => limit[s] > 0
       /\ hs[c][s] = "loaded" => loaded[c][s] > 0
       /\ hs[c][s] = "skipped" => remaining[s] = 0

DispatchInv == SlotInv /\ KnownInv /\ PhaseInv /\ DrawTypes /\ DrawInv

\* What one handler's step does to the phases.
LEMMA MoveOnly ==
  ASSUME Types0, NEW c \in Calls, NEW s \in Subs, NEW p, Move(c, s, p)
  PROVE  /\ hs'[c][s] = p
         /\ \A d \in Calls, r \in Subs : (d # c \/ r # s) => hs'[d][r] = hs[d][r]
BY DEF Move, Types0, HandlerTypes

\* A step of call c outside its handlers sends c to p.
CallGoes(c, p) ==
  \/ p \in {"rejected", "snapshot"} /\ (Publish(c) \/ PublishAsync(c))
  \/ p = AfterSnapshot(c) /\ Store(c)
  \/ p \in {"rejected", "submit"} /\ BeginAsync(c)
  \/ p \in {"rejected", "overload", "retrieve", "dispatch", "blocked"}
       /\ (Submit(c) \/ RetrieveWorker(c) \/ Wake(c))
  \/ p \in {"failed", "done"} /\ DispatchReturns(c)

\* A step aside from calls and handlers: no id is added to the table or the cache.
Aside ==
  /\ UNCHANGED <<hVars, callVars, limit, nextID>>
  /\ \A t \in Types : subs'[t] \subseteq subs[t] /\ cache'[t] \in {cache[t], NoCache}

\* Where a step of a call outside its handlers sends it.
LEMMA CallGoesStep ==
  ASSUME NEW c \in Calls, Publish(c) \/ PublishAsync(c) \/ CallStep(c), ~Snapshot(c)
  PROVE  \E p : CallGoes(c, p) /\ Goto(c, p) /\ UNCHANGED <<hVars, subVars, type, snap, kind>>
<1>1. CASE Publish(c) \/ PublishAsync(c)
  BY <1>1 DEF Publish, PublishAsync, CallGoes
<1>2. CASE Store(c)
  BY <1>2 DEF Store, CallGoes
<1>3. CASE BeginAsync(c)
  BY <1>3 DEF BeginAsync, CallGoes
<1>4. CASE Submit(c) \/ RetrieveWorker(c) \/ Wake(c)
  <2>1. PICK p \in {"rejected", "retrieve", "dispatch", "overload", "blocked"} :
          SubmitFails(c, p) \/ SubmitGoes(c, p)
    BY <1>4 DEF Submit, RetrieveWorker, Wake
  <2> QED BY <1>4, <2>1 DEF SubmitFails, SubmitGoes, CallGoes
<1>5. CASE DispatchReturns(c)
  BY <1>5 DEF DispatchReturns, CallGoes
<1> QED BY <1>1, <1>2, <1>3, <1>4, <1>5 DEF CallStep

\* The steps, by what they do to the handlers.
LEMMA StepKinds ==
  ASSUME Types0, [Next]_vars
  PROVE  \/ \E c \in Calls, s \in Subs : HandlerStep(c, s)
         \/ \E c \in Calls : Snapshot(c)
         \/ \E c \in Calls : \E p : CallGoes(c, p) /\ Goto(c, p)
                               /\ UNCHANGED <<hVars, subVars, type, snap, kind>>
         \/ \E n \in 0..MaxCalls : Register(n)
         \/ Aside
<1>2. ASSUME NEW s \in Subs, Registered(s) \/ Unsubscribe(s) \/ Unsubscribed(s)
      PROVE  Aside
  BY <1>2 DEF Aside, Registered, Unsubscribe, Unsubscribed, Invalidate, Types0, SubTypes, CacheTypes
<1>3. ASSUME (\E k \in Closers : Close(k) \/ CloseStep(k)) \/ UNCHANGED vars
      PROVE  Aside
  BY <1>3 DEF Aside, Close, CloseStep, ReleasePool, WaitReturns, vars, subVars
<1> QED BY <1>2, <1>3, CallGoesStep DEF Next

\* A handler's step: from todo or inside the handler on, within a dispatch that
\* goes on unless the handler panics.
LEMMA HandlerMoves ==
  ASSUME Types0, HandlerInv, NEW c \in Calls, NEW s \in Subs, HandlerStep(c, s)
  PROVE  /\ UNCHANGED <<kind, type, snap, limit, nextID>>
         /\ pc[c] = "dispatch" /\ hs[c][s] \in {"todo"} \cup InHandler
         /\ \E p \in HPhase \ {"none", "todo"} :
              /\ Move(c, s, p)
              /\ p = "panicked" => Goto(c, "panicked")
              /\ p # "panicked" => pc' = pc
<1> USE DEF callVars, subVars, InHandler, Consuming, HPhase
<1>1. CASE EnterHandler(c, s)
  BY <1>1 DEF EnterHandler
<1>2. CASE HandlerPanics(c, s)
  BY <1>2 DEF HandlerPanics, Leave, HandlerInv
<1>3. CASE LoadRemaining(c, s) \/ CompareAndSwap(c, s)
  BY <1>3 DEF LoadRemaining, CompareAndSwap, Leave, HandlerInv
<1>4. CASE DeleteExhausted(c, s) \/ InvalidateExhausted(c, s)
  BY <1>4 DEF DeleteExhausted, InvalidateExhausted, HandlerInv
<1>5. CASE HandlerReturns(c, s)
  BY <1>5 DEF HandlerReturns, Leave, HandlerInv
<1> QED BY <1>1, <1>2, <1>3, <1>4, <1>5 DEF HandlerStep

\* Snapshot starts a call that served no handler yet.
LEMMA SnapshotStarts ==
  ASSUME Types0, HandlerInv, NEW c \in Calls, Snapshot(c)
  PROVE  /\ \A s \in Subs : hs'[c][s] = IF s \in snap'[c] THEN "todo" ELSE "none"
         /\ \A d \in Calls \ {c} : hs'[d] = hs[d] /\ snap'[d] = snap[d] /\ pc'[d] = pc[d]
         /\ snap'[c] \in {cache[type[c]], subs[type[c]]} \ {NoCache}
         /\ pc'[c] \in {"dispatch", "unavailable", "begin", "store"}
         /\ pc'[c] = "store" => snap'[c] = subs[type[c]]
         /\ UNCHANGED <<kind, type, limit, nextID, subs, cache, loaded, remaining, slots>>
<1> USE BusAssumption DEF Types0, CallTypes, HandlerTypes, SubTypes, CacheTypes
<1>1. PICK row \in SUBSET Subs :
        /\ row \in {cache[type[c]], subs[type[c]]}
        /\ snap' = [snap EXCEPT ![c] = row] /\ Start(c, row)
        /\ \E p \in {AfterSnapshot(c), "store"} :
             Goto(c, p) /\ (p = "store" => row = subs[type[c]])
  BY DEF Snapshot, AfterSnapshot
<1>2. AfterSnapshot(c) \in {"dispatch", "unavailable", "begin"}
  BY DEF AfterSnapshot
<1>3. /\ \A s \in Subs : hs'[c][s] = IF s \in row THEN "todo" ELSE "none"
      /\ \A d \in Calls \ {c} : hs'[d] = hs[d]
  BY <1>1 DEF Start
<1>4. snap'[c] = row /\ \A d \in Calls \ {c} : snap'[d] = snap[d] /\ pc'[d] = pc[d]
  BY <1>1 DEF Goto
<1>5. pc'[c] \in {"dispatch", "unavailable", "begin", "store"} /\ (pc'[c] = "store" => row = subs[type[c]])
  BY <1>1, <1>2 DEF Goto
<1>6. UNCHANGED <<kind, type, limit, nextID, subs, cache, loaded, remaining, slots>>
  BY DEF Snapshot, subVars
<1> QED BY <1>1, <1>3, <1>4, <1>5, <1>6

-----------------------------------------------------------------------------
(* Slots. *)

\* Finitely many handlers run.
LEMMA RunningFinite == IsFiniteSet(Running)
<1>1. IsFiniteSet(Subs)
  BY BusAssumption, FS_Interval DEF Subs
<1> QED BY <1>1, BusAssumption, FS_Product, FS_Subset DEF Running

\* One handler's step moves it into the running ones, out of them, or neither.
LEMMA RunningMove ==
  ASSUME Types0, NEW c \in Calls, NEW s \in Subs, NEW p, Move(c, s, p)
  PROVE  /\ p \in InHandler => Running' = Running \cup {<<c, s>>}
         /\ p \notin InHandler => Running' = Running \ {<<c, s>>}
<1>1. \A d \in Calls, r \in Subs :
        hs'[d][r] \in InHandler <=> IF d = c /\ r = s THEN p \in InHandler ELSE hs[d][r] \in InHandler
  BY MoveOnly
<1> QED BY <1>1 DEF Running

\* acquire and release of parallelLimit are paired with a handler's start and end,
\* panics included.
LEMMA SlotStep == ASSUME Types0, HandlerInv, SlotInv, [Next]_vars PROVE SlotInv'
<1> USE BusAssumption
<1>0. CASE UNCHANGED <<Running, slots>>
  BY <1>0 DEF SlotInv
<1>1. ASSUME NEW c \in Calls, NEW s \in Subs, HandlerStep(c, s) PROVE SlotInv'
  <2> USE DEF InHandler
  <2>1. CASE EnterHandler(c, s)
    <3>1. PICK p \in InHandler : Move(c, s, p)
      BY <2>1 DEF EnterHandler
    <3>2. <<c, s>> \notin Running
      BY <2>1 DEF EnterHandler, Running
    <3>3. Cardinality(Running') = Cardinality(Running) + 1 /\ Cardinality(Running) \in Nat
      <4>1. Running' = Running \cup {<<c, s>>}
        BY <3>1, RunningMove
      <4> QED BY <3>2, <4>1, RunningFinite, FS_AddElement, FS_CardinalityType
    <3> QED BY <2>1, <3>3 DEF EnterHandler, SlotInv
  <2>2. ASSUME hs[c][s] \in InHandler, NEW p, p \notin InHandler, Leave(c, s, p) PROVE SlotInv'
    <3>1. <<c, s>> \in Running
      BY <2>2 DEF Running
    <3>2. Cardinality(Running') = Cardinality(Running) - 1 /\ Cardinality(Running) \in Nat
      <4>1. Running' = Running \ {<<c, s>>}
        BY <2>2, RunningMove DEF Leave
      <4> QED BY <3>1, <4>1, RunningFinite, FS_RemoveElement, FS_CardinalityType
    <3> QED BY <2>2, <3>2 DEF Leave, SlotInv
  <2>3. ASSUME hs[c][s] \in InHandler, NEW p \in InHandler, Move(c, s, p), UNCHANGED slots
        PROVE  SlotInv'
    <3>1. Running' = Running
      BY <2>3, RunningMove DEF Running
    <3> QED BY <1>0, <2>3, <3>1
  <2>4. CASE LoadRemaining(c, s)
    <3>1. CASE remaining[s] <= 0
      BY <2>2, <2>4, <3>1 DEF LoadRemaining
    <3>2. CASE ~(remaining[s] <= 0)
      BY <2>3, <2>4, <3>2 DEF LoadRemaining
    <3> QED BY <3>1, <3>2
  <2>5. CASE CompareAndSwap(c, s)
    BY <2>3, <2>5 DEF CompareAndSwap
  <2>6. CASE DeleteExhausted(c, s) \/ InvalidateExhausted(c, s)
    BY <2>3, <2>6 DEF DeleteExhausted, InvalidateExhausted
  <2>7. CASE HandlerReturns(c, s) \/ HandlerPanics(c, s)
    BY <2>2, <2>7 DEF HandlerReturns, HandlerPanics
  <2> QED BY <1>1, <2>1, <2>4, <2>5, <2>6, <2>7 DEF HandlerStep
<1>2. ASSUME NEW c \in Calls, Snapshot(c) PROVE SlotInv'
  <2>1. \A s \in Subs : hs[c][s] \notin InHandler /\ hs'[c][s] \notin InHandler
    BY <1>2, SnapshotStarts DEF HandlerInv, Snapshot, InHandler
  <2>2. \A d \in Calls, s \in Subs : hs'[d][s] \in InHandler <=> hs[d][s] \in InHandler
    BY <1>2, <2>1, SnapshotStarts
  <2>3. Running' = Running
    BY <2>2 DEF Running
  <2> QED BY <1>0, <1>2, <2>3, SnapshotStarts
<1>3. CASE UNCHANGED <<hs, slots>>
  BY <1>0, <1>3 DEF Running
<1>4. ASSUME NEW n \in 0..MaxCalls, Register(n) PROVE UNCHANGED <<hs, slots>>
  BY <1>4 DEF Register
<1> QED BY <1>1, <1>2, <1>3, <1>4, StepKinds DEF hVars, Aside
-----------------------------------------------------------------------------
(* Phases. *)

\* Snapshots, cache rows and the table only ever take ids from each other and from
\* nextID.
LEMMA KnownStep == ASSUME Types0, HandlerInv, KnownInv, [Next]_vars PROVE KnownInv'
<1> USE BusAssumption DEF KnownInv, Types0, SubTypes, CacheTypes, CallTypes
<1>0. CASE UNCHANGED <<subs, cache, snap, nextID>>
  BY <1>0
<1>1. ASSUME NEW c \in Calls, NEW s \in Subs, HandlerStep(c, s) PROVE KnownInv'
  <2>1. UNCHANGED <<snap, nextID>>
    BY <1>1, HandlerMoves
  <2>2. \A t \in Types : subs'[t] \subseteq subs[t] /\ cache'[t] \in {cache[t], NoCache}
    BY <1>1 DEF HandlerStep, EnterHandler, LoadRemaining, CompareAndSwap, DeleteExhausted,
       InvalidateExhausted, Invalidate, HandlerReturns, HandlerPanics, subVars
  <2> QED BY <2>1, <2>2
<1>2. ASSUME NEW c \in Calls, Snapshot(c) PROVE KnownInv'
  <2>1. type[c] \in Types
    OBVIOUS
  <2>2. snap'[c] \subseteq 1..nextID
    BY <1>2, <2>1, SnapshotStarts
  <2>3. \A d \in Calls \ {c} : snap'[d] = snap[d]
    BY <1>2, SnapshotStarts
  <2>4. UNCHANGED <<subs, cache, nextID>>
    BY <1>2, SnapshotStarts
  <2> QED BY <2>2, <2>3, <2>4
<1>3. ASSUME NEW c \in Calls, NEW p, CallGoes(c, p), Goto(c, p),
             UNCHANGED <<hVars, subVars, type, snap, kind>>
      PROVE  KnownInv'
  <2>1. CASE Store(c)
    <3>1. \A t \in Types : cache'[t] \in {cache[t], snap[c]}
      BY <2>1 DEF Store
    <3> QED BY <1>3, <3>1 DEF subVars
  <2>2. CASE ~Store(c)
    <3>1. UNCHANGED cache
      BY <1>3, <2>2 DEF CallGoes, Publish, PublishAsync, BeginAsync, Submit, RetrieveWorker,
         Wake, DispatchReturns, SubmitFails, SubmitGoes
    <3> QED BY <1>3, <3>1 DEF subVars
  <2> QED BY <2>1, <2>2
<1>4. ASSUME NEW n \in 0..MaxCalls, Register(n) PROVE KnownInv'
  <2>1. nextID' = nextID + 1 /\ UNCHANGED <<cache, snap>>
    BY <1>4 DEF Register, callVars
  <2>2. \A t \in Types : subs'[t] \subseteq subs[t] \cup {nextID + 1}
    BY <1>4 DEF Register
  <2>3. 1..nextID \subseteq 1..nextID' /\ nextID + 1 \in 1..nextID'
    BY <2>1
  <2> QED BY <2>1, <2>2, <2>3
<1>5. CASE Aside
  BY <1>5 DEF Aside, callVars
<1> QED BY <1>1, <1>2, <1>3, <1>4, <1>5, StepKinds

\* A call takes its snapshot before it serves a handler and returns after the last.
LEMMA PhaseStep == ASSUME Types0, HandlerInv, PhaseInv, [Next]_vars PROVE PhaseInv'
<1> USE DEF PhaseInv, Types0, CallTypes
<1>1. ASSUME NEW c \in Calls, NEW s \in Subs, HandlerStep(c, s) PROVE PhaseInv'
  <2>1. PICK p \in HPhase \ {"none", "todo"} :
          /\ Move(c, s, p)
          /\ p = "panicked" => Goto(c, "panicked")
          /\ p # "panicked" => pc' = pc
    BY <1>1, HandlerMoves
  <2>2. pc[c] = "dispatch" /\ hs[c][s] # "none" /\ UNCHANGED snap
    BY <1>1, HandlerMoves DEF InHandler
  <2>3. /\ hs'[c][s] = p
        /\ \A d \in Calls, r \in Subs : (d # c \/ r # s) => hs'[d][r] = hs[d][r]
    BY <2>1, MoveOnly
  <2>4. \A d \in Calls \ {c} : pc'[d] = pc[d]
    BY <2>1 DEF Goto
  <2>5. pc'[c] = IF p = "panicked" THEN "panicked" ELSE "dispatch"
    BY <2>1, <2>2 DEF Goto
  <2> QED BY <2>2, <2>3, <2>4, <2>5
<1>2. ASSUME NEW c \in Calls, Snapshot(c) PROVE PhaseInv'
  BY <1>2, SnapshotStarts
<1>3. ASSUME NEW c \in Calls, NEW p, CallGoes(c, p), Goto(c, p),
             UNCHANGED <<hVars, subVars, type, snap, kind>>
      PROVE  PhaseInv'
  <2>1. pc'[c] = p /\ (\A d \in Calls \ {c} : pc'[d] = pc[d]) /\ UNCHANGED <<hs, snap>>
    BY <1>3 DEF Goto, hVars
  <2>2. CASE DispatchReturns(c)
    <3>1. p \in {"failed", "done"} /\ pc[c] = "dispatch" /\ \A s \in Subs : hs[c][s] \notin {"todo"} \cup InHandler
      BY <2>1, <2>2 DEF DispatchReturns, Goto
    <3> QED BY <2>1, <3>1
  <2>3. CASE ~DispatchReturns(c)
    <3>1. pc[c] \notin {"dispatch", "done", "failed", "panicked"} /\ p \notin {"done", "failed"}
      BY <1>3, <2>3 DEF CallGoes, Publish, PublishAsync, Store, AfterSnapshot, BeginAsync,
         Submit, RetrieveWorker, Wake
    <3> QED BY <2>1, <3>1
  <2> QED BY <2>2, <2>3
<1>4. CASE UNCHANGED <<hs, pc, snap>>
  BY <1>4
<1>5. ASSUME NEW n \in 0..MaxCalls, Register(n) PROVE UNCHANGED <<hs, pc, snap>>
  BY <1>5 DEF Register, callVars
<1> QED BY <1>1, <1>2, <1>3, <1>4, <1>5, StepKinds DEF Aside, hVars, callVars

-----------------------------------------------------------------------------
(* SubscribeN counters. *)

\* Finitely many calls drew from one counter.
LEMMA ConsumersFinite == \A s : IsFiniteSet(Consumers(s))
BY BusAssumption, FS_Subset DEF Consumers

\* One handler's step adds its call to those that drew, takes it away, or neither.
LEMMA ConsumersMove ==
  ASSUME Types0, NEW c \in Calls, NEW s \in Subs, NEW p, Move(c, s, p)
  PROVE  /\ \A r \in Subs \ {s} : Consumers(r)' = Consumers(r)
         /\ p \in Consuming => Consumers(s)' = Consumers(s) \cup {c}
         /\ p \notin Consuming => Consumers(s)' = Consumers(s) \ {c}
<1>1. hs'[c][s] = p /\ \A d \in Calls, r \in Subs : (d # c \/ r # s) => hs'[d][r] = hs[d][r]
  BY MoveOnly
<1> QED BY <1>1 DEF Consumers

\* Counters stay where they are and the phases they are about are kept.
LEMMA DrawKept ==
  ASSUME Types0, DrawTypes, DrawInv, UNCHANGED <<limit, remaining>>, DrawTypes',
         \A r \in Subs : limit[r] > 0 => Consumers(r)' = Consumers(r),
         \A d \in Calls, r \in Subs :
           /\ hs'[d][r] \in {"entered", "loaded", "skipped"} => limit[r] > 0
           /\ hs'[d][r] = "loaded" => loaded'[d][r] > 0
           /\ hs'[d][r] = "skipped" => remaining[r] = 0
  PROVE  DrawInv'
BY DEF DrawInv

\* The compare-and-swap loop of a SubscribeN counter: a draw that succeeds takes one
\* off the counter it was compared with, a draw that lost the race loads again.
LEMMA DrawStep ==
  ASSUME Types0, HandlerInv, KnownInv, PhaseInv, DrawTypes, DrawInv, [Next]_vars
  PROVE  DrawTypes' /\ DrawInv'
<1> USE BusAssumption
<1>1. ASSUME NEW c \in Calls, NEW s \in Subs, HandlerStep(c, s) PROVE DrawTypes' /\ DrawInv'
  <2> DEFINE Others == \A d \in Calls, r \in Subs : (d # c \/ r # s) => hs'[d][r] = hs[d][r]
  <2>0. UNCHANGED limit
    BY <1>1, HandlerMoves
  <2>1. ASSUME UNCHANGED <<remaining, loaded>>, NEW p, Move(c, s, p),
               hs[c][s] \in Consuming \/ limit[s] = 0, p \in Consuming
        PROVE  DrawTypes' /\ DrawInv'
    <3>1. DrawTypes'
      BY <2>1 DEF DrawTypes
    <3>2. Others /\ hs'[c][s] = p
      BY <2>1, MoveOnly
    <3>3. \A r \in Subs : limit[r] > 0 => Consumers(r)' = Consumers(r)
      BY <2>1, ConsumersMove DEF Consumers
    <3>4. p \notin {"entered", "loaded", "skipped"}
      BY <2>1 DEF Consuming
    <3> QED BY <2>0, <2>1, <3>1, <3>2, <3>3, <3>4, DrawKept DEF DrawInv
  <2>2. CASE EnterHandler(c, s)
    <3>1. CASE limit[s] = 0
      BY <2>1, <2>2, <3>1 DEF EnterHandler, Consuming
    <3>2. CASE limit[s] # 0
      <4>1. Move(c, s, "entered") /\ UNCHANGED <<remaining, loaded>>
        BY <2>2, <3>2 DEF EnterHandler
      <4>2. Others /\ hs'[c][s] = "entered" /\ limit[s] > 0
        BY <4>1, <3>2, MoveOnly DEF Types0, SubTypes
      <4>3. \A r \in Subs : Consumers(r)' = Consumers(r)
        BY <2>2, <4>1, ConsumersMove DEF EnterHandler, Consumers, Consuming
      <4>4. DrawTypes'
        BY <4>1 DEF DrawTypes
      <4> QED BY <2>0, <4>1, <4>2, <4>3, <4>4, DrawKept DEF DrawInv
    <3> QED BY <3>1, <3>2
  <2>3. CASE LoadRemaining(c, s)
    <3>0. limit[s] > 0 /\ remaining[s] \in Nat /\ UNCHANGED remaining
      BY <2>3 DEF LoadRemaining, DrawInv, DrawTypes
    <3>1. PICK p \in {"skipped", "loaded"} :
            /\ Move(c, s, p)
            /\ p = "skipped" => remaining[s] = 0 /\ UNCHANGED loaded
            /\ p = "loaded" => remaining[s] > 0 /\ loaded' = [loaded EXCEPT ![c][s] = remaining[s]]
      BY <2>3, <3>0 DEF LoadRemaining, Leave
    <3>2. Others /\ hs'[c][s] = p
      BY <3>1, MoveOnly
    <3>3. \A r \in Subs : Consumers(r)' = Consumers(r)
      BY <2>3, <3>1, ConsumersMove DEF LoadRemaining, Consumers, Consuming
    <3>4. DrawTypes'
      BY <3>0, <3>1 DEF DrawTypes
    <3>5. (\A d \in Calls, r \in Subs : (d # c \/ r # s) => loaded'[d][r] = loaded[d][r])
          /\ (p = "loaded" => loaded'[c][s] = remaining[s])
      BY <3>1 DEF DrawTypes
    <3> QED BY <2>0, <3>0, <3>1, <3>2, <3>3, <3>4, <3>5, DrawKept DEF DrawInv
  <2>4. CASE CompareAndSwap(c, s)
    <3>0. /\ limit[s] > 0 /\ loaded[c][s] > 0 /\ remaining[s] \in Nat
          /\ loaded' = [loaded EXCEPT ![c][s] = 0]
      BY <2>4 DEF CompareAndSwap, DrawInv, DrawTypes
    <3>1. /\ loaded' \in [Calls -> [Subs -> Nat]]
          /\ \A d \in Calls, r \in Subs : (d # c \/ r # s) => loaded'[d][r] = loaded[d][r]
      BY <3>0 DEF DrawTypes
    <3>2. CASE remaining[s] = loaded[c][s]
      <4>1. PICK p \in {"deleting", "running"} : Move(c, s, p)
        BY <2>4, <3>2 DEF CompareAndSwap
      <4>2. Others /\ hs'[c][s] = p
        BY <4>1, MoveOnly
      <4>3. c \notin Consumers(s)
        BY <2>4 DEF CompareAndSwap, Consumers, Consuming
      <4>4. Consumers(s)' = Consumers(s) \cup {c} /\ \A r \in Subs \ {s} : Consumers(r)' = Consumers(r)
        BY <4>1, ConsumersMove DEF Consuming
      <4>5. Cardinality(Consumers(s)') = Cardinality(Consumers(s)) + 1 /\ Cardinality(Consumers(s)) \in Nat
        BY <4>3, <4>4, ConsumersFinite, FS_AddElement, FS_CardinalityType
      <4>6. remaining' = [remaining EXCEPT ![s] = @ - 1] /\ remaining[s] > 0
        BY <2>4, <3>0, <3>2 DEF CompareAndSwap
      <4>7. /\ remaining' \in [Subs -> Nat] /\ remaining'[s] = remaining[s] - 1
            /\ \A r \in Subs \ {s} : remaining'[r] = remaining[r]
        BY <4>6, <3>0 DEF DrawTypes
      <4>8. \A r \in Subs : limit'[r] > 0 => remaining'[r] + Cardinality(Consumers(r)') = limit'[r]
        <5>1. remaining[s] + Cardinality(Consumers(s)) = limit[s]
          BY <3>0 DEF DrawInv
        <5>2. remaining'[s] + Cardinality(Consumers(s)') = limit'[s]
          BY <2>0, <3>0, <4>5, <4>7, <5>1
        <5>3. \A r \in Subs \ {s} : limit'[r] > 0 => remaining'[r] + Cardinality(Consumers(r)') = limit'[r]
          BY <2>0, <4>4, <4>7 DEF DrawInv
        <5> QED BY <5>2, <5>3
      <4>9. \A d \in Calls, r \in Subs :
              /\ hs'[d][r] \in {"entered", "loaded", "skipped"} => limit'[r] > 0
              /\ hs'[d][r] = "loaded" => loaded'[d][r] > 0
              /\ hs'[d][r] = "skipped" => remaining'[r] = 0
        BY <2>0, <3>1, <4>2, <4>6, <4>7 DEF DrawInv
      <4> QED BY <3>1, <4>7, <4>8, <4>9 DEF DrawInv, DrawTypes
    <3>3. CASE remaining[s] # loaded[c][s]
      <4>1. Move(c, s, "entered") /\ UNCHANGED remaining
        BY <2>4, <3>3 DEF CompareAndSwap
      <4>2. Others /\ hs'[c][s] = "entered"
        BY <4>1, MoveOnly
      <4>3. \A r \in Subs : Consumers(r)' = Consumers(r)
        BY <2>4, <4>1, ConsumersMove DEF CompareAndSwap, Consumers, Consuming
      <4>4. DrawTypes'
        BY <3>1, <4>1 DEF DrawTypes
      <4> QED BY <2>0, <3>0, <3>1, <4>1, <4>2, <4>3, <4>4, DrawKept DEF DrawInv
    <3> QED BY <3>2, <3>3
  <2>5. CASE DeleteExhausted(c, s) \/ InvalidateExhausted(c, s)
    BY <2>1, <2>5 DEF DeleteExhausted, InvalidateExhausted, Consuming
  <2>6. CASE HandlerReturns(c, s) \/ HandlerPanics(c, s)
    BY <2>1, <2>6 DEF HandlerReturns, HandlerPanics, Leave, Consuming
  <2> QED BY <1>1, <2>2, <2>3, <2>4, <2>5, <2>6 DEF HandlerStep
<1>2. ASSUME NEW c \in Calls, Snapshot(c) PROVE DrawTypes' /\ DrawInv'
  <2>1. \A s \in Subs : hs[c][s] \in {"none", "todo"} /\ hs'[c][s] \in {"none", "todo"}
    BY <1>2, SnapshotStarts DEF PhaseInv, Snapshot
  <2>2. \A d \in Calls \ {c} : hs'[d] = hs[d]
    BY <1>2, SnapshotStarts
  <2>3. \A s \in Subs : Consumers(s)' = Consumers(s)
    BY <2>1, <2>2 DEF Consumers, Consuming
  <2>4. UNCHANGED <<limit, remaining, loaded>>
    BY <1>2, SnapshotStarts
  <2>5. DrawTypes'
    BY <2>4 DEF DrawTypes
  <2> QED BY <2>1, <2>2, <2>3, <2>4, <2>5, DrawKept DEF DrawInv
<1>3. ASSUME NEW n \in 0..MaxCalls, Register(n) PROVE DrawTypes' /\ DrawInv'
  <2>1. PICK id \in Subs : id = nextID + 1 /\ n \in Nat /\ id \notin 1..nextID
    BY <1>3 DEF Register, Types0, SubTypes, Subs
  <2>2. \A c \in Calls : hs[c][id] = "none"
    BY <2>1 DEF KnownInv, PhaseInv
  <2>3. Consumers(id) = {}
    BY <2>2 DEF Consumers, Consuming
  <2>4. UNCHANGED <<hs, loaded>> /\ limit' = [limit EXCEPT ![id] = n]
                                 /\ remaining' = [remaining EXCEPT ![id] = n]
    BY <1>3, <2>1 DEF Register
  <2>5. /\ limit'[id] = n /\ remaining'[id] = n
        /\ \A r \in Subs \ {id} : limit'[r] = limit[r] /\ remaining'[r] = remaining[r]
    BY <2>1, <2>4 DEF Types0, SubTypes, DrawTypes
  <2>6. \A s \in Subs : Consumers(s)' = Consumers(s)
    BY <2>4 DEF Consumers
  <2>7. DrawTypes'
    BY <2>1, <2>4 DEF DrawTypes
  <2>8. \A r \in Subs : limit'[r] > 0 => remaining'[r] + Cardinality(Consumers(r)') = limit'[r]
    <3>1. Cardinality(Consumers(id)') = 0
      BY <2>1, <2>3, <2>6, FS_EmptySet
    <3>2. \A r \in Subs \ {id} : limit'[r] > 0 => remaining'[r] + Cardinality(Consumers(r)') = limit'[r]
      BY <2>5, <2>6 DEF DrawInv
    <3> QED BY <2>1, <2>5, <3>1, <3>2
  <2> QED BY <2>2, <2>4, <2>5, <2>7, <2>8 DEF DrawInv
<1>4. CASE UNCHANGED <<hs, loaded, limit, remaining>>
  BY <1>4 DEF DrawInv, DrawTypes, Consumers
<1> QED BY <1>1, <1>2, <1>3, <1>4, StepKinds DEF Aside, hVars, subVars

-----------------------------------------------------------------------------
(* The snapshot cache. *)

\* A snapshot about to be stored is the row it was read from, unless that row
\* changed meanwhile.
StoreInv ==
  \A c \in Calls : pc[c] = "store" /\ type[c] \notin raced => snap[c] = subs[type[c]]

\* A row that changes marks its type raced when some call is about to store it.
LEMMA RaceKeeps ==
  ASSUME Types0, StoreInv, NEW t \in Types, Race(t), UNCHANGED callVars,
         \A u \in Types \ {t} : subs'[u] = subs[u]
  PROVE  StoreInv' /\ raced \subseteq raced' /\ \A u \in Types \ {t} : u \in raced' <=> u \in raced
BY DEF StoreInv, Race, callVars, Types0, CallTypes

\* An invalidation forgets a race only when no store of that type is pending.
LEMMA InvalidateKeeps ==
  ASSUME Types0, StoreInv, NEW t \in Types, Invalidate(t), UNCHANGED <<callVars, subs>>
  PROVE  /\ StoreInv' /\ cache'[t] = NoCache
         /\ \A u \in Types \ {t} : cache'[u] = cache[u] /\ (u \in raced' <=> u \in raced)
BY DEF StoreInv, Invalidate, callVars, Types0, CallTypes, CacheTypes

\* The row of t changes while an invalidation of t is still to come.
LEMMA RowChanges ==
  ASSUME Types0, StoreInv, CacheFreshUnlessRaced, NEW t \in Types, Race(t),
         UNCHANGED <<callVars, cache>>,
         \A u \in Types \ {t} : subs'[u] = subs[u],
         \A u \in Types \ {t} : InvalidationPending(u)' <=> InvalidationPending(u),
         InvalidationPending(t)'
  PROVE  StoreInv' /\ CacheFreshUnlessRaced'
<1>1. StoreInv' /\ \A u \in Types \ {t} : u \in raced' <=> u \in raced
  BY RaceKeeps
<1> QED BY <1>1 DEF CacheFreshUnlessRaced

\* The cache forgets t; nothing changes for the other types.
LEMMA RowForgotten ==
  ASSUME Types0, StoreInv, CacheFreshUnlessRaced, NEW t \in Types, Invalidate(t),
         UNCHANGED <<callVars, subs>>,
         \A u \in Types \ {t} : InvalidationPending(u)' <=> InvalidationPending(u)
  PROVE  StoreInv' /\ CacheFreshUnlessRaced'
<1>1. /\ StoreInv' /\ cache'[t] = NoCache
      /\ \A u \in Types \ {t} : cache'[u] = cache[u] /\ (u \in raced' <=> u \in raced)
  BY InvalidateKeeps
<1> QED BY <1>1 DEF CacheFreshUnlessRaced

\* Table, cache and the pending invalidations stay.
LEMMA RowsKept ==
  ASSUME CacheFreshUnlessRaced, StoreInv', UNCHANGED <<subs, cache, raced>>,
         \A u \in Types : InvalidationPending(u)' <=> InvalidationPending(u)
  PROVE  StoreInv' /\ CacheFreshUnlessRaced'
BY DEF CacheFreshUnlessRaced

\* How the table, the cache, the pending invalidations and the pending stores move
\* together.
LEMMA CacheStep ==
  ASSUME Types0, HandlerInv, StoreInv, CacheFreshUnlessRaced, [Next]_vars
  PROVE  StoreInv' /\ CacheFreshUnlessRaced'
<1> USE DEF Types0, SubTypes, InvalidationPending
<1>1. ASSUME NEW n \in 0..MaxCalls, Register(n) PROVE StoreInv' /\ CacheFreshUnlessRaced'
  <2>0. PICK id \in Subs : id = nextID + 1
    BY <1>1, BusAssumption DEF Register, Subs
  <2>1. PICK t \in Types : t = subType[id]
    OBVIOUS
  <2>2. /\ Race(t) /\ UNCHANGED <<callVars, cache, subType, hs>>
        /\ subs' = [subs EXCEPT ![t] = @ \cup {id}] /\ stage' = [stage EXCEPT ![id] = "adding"]
    BY <1>1, <2>0, <2>1 DEF Register
  <2>3. \A u \in Types \ {t} : InvalidationPending(u)' <=> InvalidationPending(u)
    BY <2>1, <2>2
  <2>4. InvalidationPending(t)'
    BY <2>1, <2>2
  <2> HIDE DEF InvalidationPending
  <2>5. \A u \in Types \ {t} : subs'[u] = subs[u]
    BY <2>2
  <2> QED BY <2>1, <2>2, <2>3, <2>4, <2>5, RowChanges
<1>2. ASSUME NEW s \in Subs, Registered(s) \/ Unsubscribed(s)
      PROVE  StoreInv' /\ CacheFreshUnlessRaced'
  <2> DEFINE t == subType[s]
  <2>1. /\ t \in Types /\ Invalidate(t) /\ UNCHANGED <<callVars, subs, subType, hs>>
        /\ \E g : stage' = [stage EXCEPT ![s] = g]
    BY <1>2 DEF Registered, Unsubscribed, hVars
  <2>2. \A u \in Types \ {t} : InvalidationPending(u)' <=> InvalidationPending(u)
    BY <2>1
  <2> QED BY <2>1, <2>2, RowForgotten
<1>3. ASSUME NEW s \in Subs, Unsubscribe(s) PROVE StoreInv' /\ CacheFreshUnlessRaced'
  <2> DEFINE t == subType[s]
  <2>1. t \in Types /\ UNCHANGED <<callVars, cache, subType, hs>>
    BY <1>3 DEF Unsubscribe, hVars
  <2>2. CASE s \in subs[t]
    <3>1. /\ Race(t) /\ subs' = [subs EXCEPT ![t] = @ \ {s}]
          /\ stage' = [stage EXCEPT ![s] = "unsubscribing"]
      BY <1>3, <2>2 DEF Unsubscribe
    <3>2. \A u \in Types \ {t} : InvalidationPending(u)' <=> InvalidationPending(u)
      BY <2>1, <3>1
    <3>3. InvalidationPending(t)'
      BY <2>1, <3>1
    <3>4. \A u \in Types \ {t} : subs'[u] = subs[u]
      BY <3>1
    <3> HIDE DEF InvalidationPending
    <3> QED BY <2>1, <3>1, <3>2, <3>3, <3>4, RowChanges
  <2>3. CASE s \notin subs[t]
    <3>1. /\ stage' = [stage EXCEPT ![s] = "unsubscribed"] /\ UNCHANGED <<subs, raced>>
          /\ stage[s] = "active"
      BY <1>3, <2>3 DEF Unsubscribe
    <3>2. \A u \in Types : InvalidationPending(u)' <=> InvalidationPending(u)
      BY <2>1, <3>1
    <3>3. StoreInv'
      BY <2>1, <3>1 DEF StoreInv, callVars
    <3> QED BY <2>1, <3>1, <3>2, <3>3, RowsKept
  <2> QED BY <2>2, <2>3
<1>4. ASSUME NEW c \in Calls, NEW s \in Subs, HandlerStep(c, s)
      PROVE  StoreInv' /\ CacheFreshUnlessRaced'
  <2> DEFINE t == subType[s]
  <2>0. t \in Types
    OBVIOUS
  <2>1. PICK p : Move(c, s, p)
    BY <1>4, HandlerMoves
  <2>2. hs'[c][s] = p /\ \A d \in Calls, r \in Subs : (d # c \/ r # s) => hs'[d][r] = hs[d][r]
    BY <2>1, MoveOnly
  <2>3. CASE DeleteExhausted(c, s) /\ s \in subs[t]
    <3>1. /\ Race(t) /\ subs' = [subs EXCEPT ![t] = @ \ {s}]
          /\ UNCHANGED <<callVars, cache, subType, stage>> /\ hs'[c][s] = "invalidating"
      BY <2>3, MoveOnly DEF DeleteExhausted
    <3>2. \A u \in Types \ {t} : InvalidationPending(u)' <=> InvalidationPending(u)
      BY <2>2, <3>1
    <3>3. InvalidationPending(t)'
      BY <2>2, <3>1
    <3>4. \A u \in Types \ {t} : subs'[u] = subs[u]
      BY <3>1
    <3> HIDE DEF InvalidationPending
    <3> QED BY <2>0, <3>1, <3>2, <3>3, <3>4, RowChanges
  <2>4. CASE InvalidateExhausted(c, s)
    <3>1. Invalidate(t) /\ UNCHANGED <<callVars, subs, subType, stage>>
      BY <2>4 DEF InvalidateExhausted, subVars
    <3>2. \A u \in Types \ {t} : InvalidationPending(u)' <=> InvalidationPending(u)
      BY <2>2, <3>1
    <3> HIDE DEF InvalidationPending
    <3> QED BY <2>0, <3>1, <3>2, RowForgotten
  <2>5. CASE ~(DeleteExhausted(c, s) /\ s \in subs[t]) /\ ~InvalidateExhausted(c, s)
    <3>1. /\ UNCHANGED <<subs, cache, raced, subType, stage, type, snap>>
          /\ hs[c][s] # "invalidating" /\ \E q : q # "invalidating" /\ Move(c, s, q)
      BY <1>4, <2>5 DEF HandlerStep, EnterHandler, LoadRemaining, CompareAndSwap,
         DeleteExhausted, HandlerReturns, HandlerPanics, Leave, subVars, callVars
    <3>2. hs'[c][s] # "invalidating"
      BY <3>1, MoveOnly
    <3>3. \A u \in Types : InvalidationPending(u)' <=> InvalidationPending(u)
      BY <2>2, <3>1, <3>2
    <3>4. \A d \in Calls : pc'[d] = "store" => pc[d] = "store"
      BY <1>4, HandlerMoves DEF Goto, CallTypes
    <3>5. StoreInv'
      BY <3>1, <3>4 DEF StoreInv
    <3> QED BY <3>1, <3>3, <3>5, RowsKept
  <2> QED BY <2>3, <2>4, <2>5
<1>5. ASSUME NEW c \in Calls, Snapshot(c) PROVE StoreInv' /\ CacheFreshUnlessRaced'
  <2>1. UNCHANGED <<subs, cache, raced, subType, stage, type>>
    BY <1>5 DEF Snapshot, subVars
  <2>2. \A s \in Subs : hs[c][s] # "invalidating" /\ hs'[c][s] # "invalidating"
    <3>1. \A s \in Subs : hs[c][s] # "invalidating"
      BY <1>5 DEF HandlerInv, Snapshot, InHandler
    <3> QED BY <1>5, <3>1, SnapshotStarts
  <2>3. \A d \in Calls \ {c} : hs'[d] = hs[d]
    BY <1>5, SnapshotStarts
  <2>4. \A u \in Types : InvalidationPending(u)' <=> InvalidationPending(u)
    BY <2>1, <2>2, <2>3
  <2>5. StoreInv'
    BY <1>5, <2>1, SnapshotStarts DEF StoreInv
  <2> QED BY <2>1, <2>4, <2>5, RowsKept
<1>6. ASSUME NEW c \in Calls, NEW p, CallGoes(c, p), Goto(c, p),
             UNCHANGED <<hVars, subVars, type, snap, kind>>
      PROVE  StoreInv' /\ CacheFreshUnlessRaced'
  <2>1. \A u \in Types : InvalidationPending(u)' <=> InvalidationPending(u)
    BY <1>6 DEF hVars, subVars
  <2>2. UNCHANGED raced /\ p # "store"
    BY <1>6 DEF CallGoes, Publish, PublishAsync, Store, BeginAsync, Submit, RetrieveWorker,
       Wake, DispatchReturns, SubmitFails, SubmitGoes, AfterSnapshot
  <2>3. StoreInv'
    BY <1>6, <2>2 DEF StoreInv, subVars, Goto, CallTypes
  <2>4. CASE Store(c)
    <3>1. /\ pc[c] = "store" /\ cache' = [cache EXCEPT ![type[c]] = snap[c]]
          /\ type[c] \in Types /\ UNCHANGED subs
      BY <2>4 DEF Store, CallTypes, subVars
    <3>2. cache'[type[c]] = snap[c] /\ \A u \in Types \ {type[c]} : cache'[u] = cache[u]
      BY <3>1 DEF CacheTypes
    <3>3. type[c] \notin raced => snap[c] = subs[type[c]]
      BY <3>1 DEF StoreInv
    <3> HIDE DEF InvalidationPending
    <3> QED BY <2>1, <2>2, <2>3, <3>1, <3>2, <3>3 DEF CacheFreshUnlessRaced
  <2>5. CASE ~Store(c)
    <3>1. UNCHANGED <<cache, subs>>
      BY <1>6, <2>5 DEF CallGoes, Publish, PublishAsync, BeginAsync, Submit, RetrieveWorker,
         Wake, DispatchReturns, SubmitFails, SubmitGoes, subVars
    <3> QED BY <2>1, <2>2, <2>3, <3>1, RowsKept
  <2> QED BY <2>4, <2>5
<1>7. ASSUME (\E k \in Closers : Close(k) \/ CloseStep(k)) \/ UNCHANGED vars
      PROVE  StoreInv' /\ CacheFreshUnlessRaced'
  <2>1. UNCHANGED <<subs, cache, raced, subType, stage, hs, pc, type, snap>>
    BY <1>7 DEF Close, CloseStep, ReleasePool, WaitReturns, vars, subVars, callVars, hVars
  <2> QED BY <2>1, RowsKept DEF StoreInv
<1>8. ASSUME NEW c \in Calls, Publish(c) \/ PublishAsync(c) \/ CallStep(c), ~Snapshot(c)
      PROVE  StoreInv' /\ CacheFreshUnlessRaced'
  BY <1>8, <1>6, CallGoesStep
<1> QED BY <1>1, <1>2, <1>3, <1>4, <1>5, <1>7, <1>8 DEF Next, CallStep

-----------------------------------------------------------------------------
(* The theorems. *)

\* The new bus.
LEMMA InitDispatch == Init => DispatchInv /\ StoreInv /\ CacheFreshUnlessRaced
<1> SUFFICES ASSUME Init PROVE DispatchInv /\ StoreInv /\ CacheFreshUnlessRaced
  OBVIOUS
<1> USE BusAssumption
<1>1. Running = {}
  BY DEF Init, Running, InHandler
<1>2. SlotInv
  BY <1>1, FS_EmptySet DEF SlotInv, Init
<1>3. KnownInv /\ PhaseInv
  BY DEF Init, KnownInv, PhaseInv
<1>4. DrawTypes /\ DrawInv
  BY DEF Init, DrawTypes, DrawInv
<1>5. StoreInv /\ CacheFreshUnlessRaced
  BY DEF Init, StoreInv, CacheFreshUnlessRaced
<1> QED BY <1>2, <1>3, <1>4, <1>5 DEF DispatchInv

\* Slots, snapshots, phases and counters of concurrent dispatches stay in step: the
\* inductive invariant behind the three theorems that follow.
THEOREM DispatchInvariant == Spec => []DispatchInv
<1>1. BusInv /\ DispatchInv /\ [Next]_vars => DispatchInv'
  BY SlotStep, KnownStep, PhaseStep, DrawStep DEF DispatchInv, BusInv
<1> QED BY <1>1, InitDispatch, BusInvariant, PTL DEF Spec

\* WithParallelDispatch(n): over all concurrent publishes together no more than n
\* handlers run at any time, whatever panics, for every n and every number of calls.
THEOREM ParallelBoundAlways == Spec => []ParallelBound
<1>1. DispatchInv => ParallelBound
  BY DEF DispatchInv, SlotInv, ParallelBound, Running
<1> QED BY <1>1, DispatchInvariant, PTL

\* A dispatch serves each handler of its snapshot exactly once and nobody else, and a
\* SubscribeN handler runs no more often than its count over all concurrent
\* publishes, for every number of calls, subscriptions and counts.
THEOREM DispatchExactAlways == Spec => []DispatchExact
<1>1. BusInv /\ DispatchInv => DispatchExact
  <2> SUFFICES ASSUME BusInv, DispatchInv PROVE DispatchExact
    OBVIOUS
  <2>1. TypeOK
    <3>1. wg \in Nat
      BY CountedFinite, FS_CardinalityType DEF BusInv, CounterInv
    <3>2. slots \in Nat
      BY RunningFinite, FS_CardinalityType DEF DispatchInv, SlotInv
    <3> QED BY <3>1, <3>2 DEF TypeOK, BusInv, Types0, SubTypes, CacheTypes, CallTypes,
         HandlerTypes, CloseTypes, DispatchInv, DrawTypes
  <2>2. AtMostN
    <3> SUFFICES ASSUME NEW s \in Subs, limit[s] > 0 PROVE Cardinality(Consumers(s)) <= limit[s]
      BY DEF AtMostN, Consumers
    <3>1. Cardinality(Consumers(s)) \in Nat /\ remaining[s] \in Nat
      BY ConsumersFinite, FS_CardinalityType DEF DispatchInv, DrawTypes
    <3>2. remaining[s] + Cardinality(Consumers(s)) = limit[s]
      BY DEF DispatchInv, DrawInv
    <3> QED BY <3>1, <3>2
  <2>3. AllHandlersServed
    <3> SUFFICES ASSUME NEW c \in Calls, pc[c] \in {"done", "failed"}, NEW s \in snap[c]
                 PROVE  \/ hs[c][s] \in {"ran", "failed"}
                        \/ hs[c][s] = "skipped" /\ limit[s] > 0 /\ remaining[s] = 0
      BY DEF AllHandlersServed
    <3>1. s \in Subs /\ hs[c][s] \in HPhase
      BY DEF BusInv, Types0, CallTypes, HandlerTypes
    <3>2. hs[c][s] \notin {"none", "todo", "panicked"} \cup InHandler
      BY <3>1 DEF DispatchInv, PhaseInv
    <3>3. hs[c][s] \in {"ran", "failed", "skipped"}
      BY <3>1, <3>2 DEF HPhase, Consuming, InHandler
    <3> QED BY <3>1, <3>3 DEF DispatchInv, DrawInv
  <2> QED BY <2>1, <2>2, <2>3 DEF DispatchExact
<1> QED BY <1>1, BusInvariant, DispatchInvariant, PTL

\* The snapshot cache: an entry is the table's row, or the invalidation that removes
\* it is still to come, or a store overlapped a change, for every interleaving of
\* publishes with Subscribe and Unsubscribe.
THEOREM CacheFreshAlways == Spec => []CacheFreshUnlessRaced
<1>1. BusInv /\ StoreInv /\ CacheFreshUnlessRaced /\ [Next]_vars => StoreInv' /\ CacheFreshUnlessRaced'
  BY CacheStep DEF BusInv
<1> QED BY <1>1, InitDispatch, BusInvariant, PTL DEF Spec
=============================================================================
