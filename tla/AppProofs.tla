----------------------------- MODULE AppProofs ------------------------------
(***************************************************************************)
(* The lifecycle of a dix Runtime, the walk over its modules, the cache of *)
(* its plan, and the authx engine, proved for every number of modules,     *)
(* calls, builders, requests and registrars. Each part of MCApp takes only *)
(* its own steps, so each has an invariant of its own.                     *)
(***************************************************************************)
EXTENDS MCApp, FiniteSetTheorems, SequenceTheorems, WellFoundedInduction, TLAPS

\* The least-number principle, from which the inductions below are made.
LEMMA LeastNatural ==
  ASSUME NEW T \in SUBSET Nat, T # {}
  PROVE  \E m \in T : \A n \in T : m <= n
  <1> DEFINE R == {ss \in Nat \X Nat : ss[1] < ss[2]}
  <1>1. IsWellFoundedOn(R, Nat)
    BY NatLessThanWellFounded DEF OpToRel
  <1> HIDE DEF R
  <1>2. PICK m \in T : \A n \in T : ~ (<<n, m>> \in R)
    BY <1>1, WFMin
  <1>3. \A n \in T : ~(n < m)
    BY <1>2 DEF R
  <1> QED BY <1>3

-----------------------------------------------------------------------------
(* dix: the lifecycle of a Runtime. *)

Increasing(s) == \A i, j \in 1..Len(s) : i < j => s[i] < s[j]
Listed(s, m) == \E i \in 1..Len(s) : s[i] = m

DixTyped ==
  /\ state \in State /\ container \in {"open", "shut"} /\ overlap \in BOOLEAN
  /\ cursor \in 1..(NumModules + 1) /\ stage \in {"config", "bind", "invoke", "failed", "built"}
  /\ startHooks \in Seq(Modules) /\ stopHooks \in Seq(Modules)
  /\ pc \in [Callers -> PC] /\ idx \in [Callers -> 0..NumModules]
  /\ ended \in [Modules -> Nat] /\ begun \subseteq Modules

\* What Build has registered of a kind of hooks: in the order of the modules, and only of
\* the modules it is through with.
InBuildOrder(s) ==
  /\ Increasing(s) /\ Len(s) <= NumModules
  /\ stage = "config" => s = <<>>
  /\ stage = "bind" => Len(s) < cursor /\ \A i \in 1..Len(s) : s[i] < cursor

\* Build registers hooks module by module, and hands out the Runtime only when it is
\* through.
BuildInv ==
  /\ InBuildOrder(startHooks) /\ InBuildOrder(stopHooks)
  /\ stage = "config" => cursor = 1
  /\ \A m \in Modules :
       Has("stop", m) /\ stage \in {"bind", "invoke", "built"} /\ (stage = "bind" => m < cursor) => Listed(stopHooks, m)
  /\ Paired => startHooks = stopHooks
  /\ stage = "built" <=> state # "created"
  /\ stage \in {"config", "bind", "invoke"} => container = "open"
  /\ stage # "built" => (\A p \in Callers : pc[p] = "idle") /\ (\A m \in Modules : ended[m] = 0) /\ begun = {}

\* The calls that run stop hooks, or have run them.
Unwinding(p) == pc[p] \in {"unwind", "shutdown", "failed"} \/ (p \in Stoppers /\ pc[p] = "done")
AtWork(p) == pc[p] \in {"checked", "hooks", "unwind", "shutdown"}

CallInv ==
  \A p \in Callers :
    /\ pc[p] \in {"checked", "hooks", "failed"} => p \in Starters
    /\ pc[p] = "hooks" => idx[p] <= Len(startHooks)
    /\ Unwinding(p) => idx[p] <= Len(stopHooks)
    /\ Unwinding(p) /\ pc[p] # "unwind" => idx[p] = 0 /\ container = "shut"
    /\ Unwinding(p) /\ p \in Stoppers =>
         \A i \in 1..Len(stopHooks) : i > idx[p] => ended[stopHooks[i]] > 0

\* The calls that are past the stop hook at place i: each of them ran it once at most.
Past(i) == { p \in Callers : Unwinding(p) /\ idx[p] < i }
CountInv ==
  /\ \A i \in 1..Len(stopHooks) : ended[stopHooks[i]] <= Cardinality(Past(i))
  /\ \A m \in Modules : ended[m] > 0 => Listed(stopHooks, m)

\* Unless calls overlapped, one call at a time is active and one at all unwinds, and
\* Runtime.state says how far the active one is.
AloneInv ==
  ~overlap =>
    /\ \A p, q \in Callers : (AtWork(p) \/ Unwinding(p)) /\ (AtWork(q) \/ Unwinding(q)) => p = q
    /\ \A p \in Callers :
         /\ pc[p] = "checked" => state = "built"
         /\ pc[p] = "hooks" => state = "starting"
         /\ pc[p] \in {"unwind", "shutdown"} => state = IF p \in Starters THEN "starting" ELSE "started"
         /\ Unwinding(p) /\ ~AtWork(p) => state = "stopped"
    /\ container = "shut" /\ stage = "built" => \E p \in Callers : Unwinding(p) /\ pc[p] # "unwind"

\* What a start has begun: the first modules with start hooks; and as it is rolled back,
\* what was begun and what has ended.
BegunInv ==
  /\ \A m \in begun : Listed(startHooks, m)
  /\ state \in {"created", "built"} /\ ~overlap => begun = {}
  /\ ~overlap => \A p \in Callers :
       /\ pc[p] = "hooks" => \A i \in 1..Len(startHooks) : startHooks[i] \in begun <=> i <= idx[p]
       /\ Paired /\ p \in Starters /\ Unwinding(p) =>
            \A i \in 1..Len(stopHooks) : stopHooks[i] \in begun <=> i <= idx[p] \/ ended[stopHooks[i]] > 0

LifecycleInv == DixTyped /\ BuildInv /\ CallInv /\ CountInv /\ AloneInv /\ BegunInv

BuildNext == PrepareFrameworkConfig \/ BindHooksAndSetup \/ RunInvokes \/ Built

\* Nothing is registered, nobody calls: the invariant holds before Build.
LEMMA LifecycleStarts == LifecycleInit => LifecycleInv
  <1> SUFFICES ASSUME LifecycleInit PROVE LifecycleInv  OBVIOUS
  <1>1. DixTyped
    <2>1. overlap \in BOOLEAN
      BY DEF LifecycleInit
    <2>2. idx \in [Callers -> 0..NumModules] /\ pc \in [Callers -> PC] /\ ended \in [Modules -> Nat]
      BY DixAssumption DEF LifecycleInit, PC
    <2> QED
      BY <2>1, <2>2, DixAssumption DEF LifecycleInit, DixTyped, State
  <1>2. BuildInv
    BY DixAssumption DEF LifecycleInit, BuildInv, InBuildOrder, Increasing, Modules
  <1>3. CallInv
    BY DEF LifecycleInit, CallInv, Unwinding
  <1>4. CountInv
    BY DEF LifecycleInit, CountInv, Modules
  <1>5. AloneInv
    BY DEF LifecycleInit, AloneInv, AtWork, Unwinding
  <1>6. BegunInv
    BY DEF LifecycleInit, BegunInv, Unwinding
  <1> QED
    BY <1>1, <1>2, <1>3, <1>4, <1>5, <1>6 DEF LifecycleInv

\* Before any call there is nothing to say of calls.
NoCalls ==
  /\ DixTyped /\ (stage = "built" => container = "open")
  /\ \A p \in Callers : pc[p] = "idle"
  /\ \A m \in Modules : ended[m] = 0
  /\ begun = {}

\* What is said of calls holds as long as there are none.
LEMMA BeforeCalls == NoCalls => CallInv /\ CountInv /\ AloneInv /\ BegunInv
  <1> SUFFICES ASSUME NoCalls PROVE CallInv /\ CountInv /\ AloneInv /\ BegunInv  OBVIOUS
  <1>1. \A p \in Callers : ~Unwinding(p) /\ ~AtWork(p) /\ pc[p] = "idle"
    BY DEF Unwinding, AtWork, NoCalls
  <1>2. CallInv
    BY <1>1 DEF CallInv
  <1>3. CountInv
    <2>1. \A i \in 1..Len(stopHooks) : ended[stopHooks[i]] = 0
      BY DEF DixTyped, NoCalls
    <2>2. ASSUME NEW i \in 1..Len(stopHooks) PROVE Cardinality(Past(i)) = 0
      <3>1. Past(i) = {}
        BY <1>1 DEF Past
      <3> QED BY <3>1, FS_EmptySet
    <2>3. \A m \in Modules : ~(ended[m] > 0)
      BY DEF NoCalls
    <2> QED
      BY <2>1, <2>2, <2>3 DEF CountInv
  <1>4. AloneInv
    BY <1>1 DEF AloneInv, NoCalls, DixTyped
  <1>5. BegunInv
    BY <1>1 DEF BegunInv, NoCalls
  <1> QED
    BY <1>2, <1>3, <1>4, <1>5

\* Registering the hook of the module Build is at.
LEMMA AppendOne ==
  ASSUME NEW s \in Seq(Modules), NEW c \in Modules, Increasing(s), Len(s) < c, \A i \in 1..Len(s) : s[i] < c
  PROVE  /\ Append(s, c) \in Seq(Modules) /\ Increasing(Append(s, c)) /\ Len(Append(s, c)) <= c
         /\ \A i \in 1..Len(Append(s, c)) : Append(s, c)[i] <= c
         /\ Listed(Append(s, c), c)
         /\ \A m \in Modules : Listed(s, m) => Listed(Append(s, c), m)
  <1> USE DixAssumption DEF Modules
  <1>1. PICK t : t = Append(s, c)  OBVIOUS
  <1>2. t \in Seq(Modules) /\ Len(t) = Len(s) + 1 /\ t[Len(s) + 1] = c /\ \A i \in 1..Len(s) : t[i] = s[i]
    BY <1>1
  <1>3. Increasing(t)
    <2> SUFFICES ASSUME NEW i \in 1..Len(t), NEW j \in 1..Len(t), i < j PROVE t[i] < t[j]
      BY DEF Increasing
    <2>1. i \in 1..Len(s) /\ t[i] = s[i]
      BY SMTT(40), <1>2
    <2>2. CASE j \in 1..Len(s)
      BY <2>1, <2>2, <1>2 DEF Increasing
    <2>3. CASE j = Len(s) + 1
      BY <2>1, <2>3, <1>2
    <2> QED BY <2>2, <2>3, <1>2
  <1>4. Len(t) <= c /\ (\A i \in 1..Len(t) : t[i] <= c)
    BY SMTT(40), <1>2
  <1>5. Listed(t, c)
    BY <1>2 DEF Listed
  <1>6. \A m \in Modules : Listed(s, m) => Listed(t, m)
    BY <1>2 DEF Listed
  <1> QED
    BY <1>1, <1>2, <1>3, <1>4, <1>5, <1>6

\* Build keeps the hooks of both kinds in the order of the modules, to the end or to its
\* failure.
LEMMA BuildStep == LifecycleInv /\ BuildNext => LifecycleInv'
  <1> SUFFICES ASSUME LifecycleInv, BuildNext PROVE LifecycleInv'  OBVIOUS
  <1> USE DixAssumption
  <1>0. /\ stage # "built" /\ stage \in {"config", "bind", "invoke"} /\ container = "open"
        /\ \A p \in Callers : pc[p] = "idle"
        /\ \A m \in Modules : ended[m] = 0
        /\ begun = {} /\ state = "created"
        /\ decl' = decl /\ pc' = pc /\ idx' = idx /\ begun' = begun /\ ended' = ended /\ overlap' = overlap
        /\ (Paired <=> Paired')
    BY DEF LifecycleInv, BuildInv, BuildNext, PrepareFrameworkConfig, BindHooksAndSetup, RunInvokes, Built, Paired, Has
  <1>1. DixTyped' /\ BuildInv'
    <2>1. CASE PrepareFrameworkConfig
      <3>1. DixTyped'
        BY <2>1, <1>0 DEF LifecycleInv, DixTyped, PrepareFrameworkConfig
      <3>2. InBuildOrder(startHooks)' /\ InBuildOrder(stopHooks)'
        BY <2>1, <1>0 DEF LifecycleInv, BuildInv, InBuildOrder, PrepareFrameworkConfig, Increasing
      <3>3. BuildInv'
        BY <2>1, <1>0, <3>2 DEF LifecycleInv, BuildInv, PrepareFrameworkConfig, Has, Modules, DixTyped
      <3> QED BY <3>1, <3>3
    <2>2. CASE BindHooksAndSetup
      <3> DEFINE st == startHooks'
                 sp == stopHooks'
      <3>1. /\ stage = "bind" /\ cursor \in Modules
            /\ st = startHooks \o Registered("start", cursor) /\ sp = stopHooks \o Registered("stop", cursor)
            /\ \/ cursor' = cursor + 1 /\ stage' = stage /\ container' = container
               \/ stage' = "failed" /\ container' = "shut" /\ cursor' = cursor
            /\ state' = state
        BY <2>2 DEF BindHooksAndSetup, LifecycleInv, DixTyped, Modules
      <3>2. /\ startHooks \in Seq(Modules) /\ Increasing(startHooks) /\ Len(startHooks) < cursor
            /\ \A i \in 1..Len(startHooks) : startHooks[i] < cursor
            /\ stopHooks \in Seq(Modules) /\ Increasing(stopHooks) /\ Len(stopHooks) < cursor
            /\ \A i \in 1..Len(stopHooks) : stopHooks[i] < cursor
        BY <3>1 DEF LifecycleInv, DixTyped, BuildInv, InBuildOrder
      <3>3. /\ st \in Seq(Modules) /\ Increasing(st) /\ Len(st) <= cursor /\ \A i \in 1..Len(st) : st[i] <= cursor
        <4>1. PICK t : t = st  OBVIOUS
        <4>2. IF Has("start", cursor) THEN t = Append(startHooks, cursor) ELSE t = startHooks
          BY <3>1, <3>2, <4>1 DEF Registered
        <4>3. cursor \in Modules /\ cursor \in Nat
          BY <3>1 DEF Modules
        <4>4. CASE Has("start", cursor)
          BY <3>2, <4>1, <4>2, <4>3, <4>4, AppendOne
        <4>5. CASE ~Has("start", cursor)
          <5>1. \A n \in Modules : n < cursor => n <= cursor
            BY <4>3 DEF Modules
          <5>2. Len(startHooks) \in Nat /\ \A i \in 1..Len(startHooks) : startHooks[i] \in Modules
            BY <3>2
          <5>3. Len(startHooks) <= cursor
            BY <3>2, <4>3, <5>2
          <5>4. \A i \in 1..Len(startHooks) : startHooks[i] <= cursor
            BY <3>2, <5>1, <5>2
          <5> QED BY <3>2, <4>1, <4>2, <4>5, <5>3, <5>4
        <4> QED BY <4>4, <4>5
      <3>4. /\ sp \in Seq(Modules) /\ Increasing(sp) /\ Len(sp) <= cursor /\ \A i \in 1..Len(sp) : sp[i] <= cursor
            /\ Has("stop", cursor) => Listed(sp, cursor)
            /\ \A m \in Modules : Listed(stopHooks, m) => Listed(sp, m)
        <4>1. PICK t : t = sp  OBVIOUS
        <4>2. IF Has("stop", cursor) THEN t = Append(stopHooks, cursor) ELSE t = stopHooks
          BY <3>1, <3>2, <4>1 DEF Registered
        <4>3. cursor \in Modules /\ cursor \in Nat
          BY <3>1 DEF Modules
        <4>4. CASE Has("stop", cursor)
          BY <3>2, <4>1, <4>2, <4>3, <4>4, AppendOne
        <4>5. CASE ~Has("stop", cursor)
          <5>1. \A n \in Modules : n < cursor => n <= cursor
            BY <4>3 DEF Modules
          <5>2. Len(stopHooks) \in Nat /\ \A i \in 1..Len(stopHooks) : stopHooks[i] \in Modules
            BY <3>2
          <5>3. Len(stopHooks) <= cursor
            BY <3>2, <4>3, <5>2
          <5>4. \A i \in 1..Len(stopHooks) : stopHooks[i] <= cursor
            BY <3>2, <5>1, <5>2
          <5> QED BY <3>2, <4>1, <4>2, <4>5, <5>3, <5>4
        <4> QED BY <4>4, <4>5
      <3>5. Paired => st = sp
        BY <3>1 DEF LifecycleInv, BuildInv, Paired, Registered
      <3> HIDE DEF st, sp
      <3>6. DixTyped'
        BY <3>1, <3>3, <3>4, <1>0 DEF LifecycleInv, DixTyped, st, sp, Modules
      <3>7. \A s \in Seq(Modules) :
              Increasing(s) /\ Len(s) <= cursor /\ (\A i \in 1..Len(s) : s[i] <= cursor) =>
                /\ Increasing(s) /\ Len(s) <= NumModules
                /\ stage' # "config"
                /\ stage' = "bind" => Len(s) < cursor' /\ \A i \in 1..Len(s) : s[i] < cursor'
        BY <3>1 DEF Modules
      <3>8. InBuildOrder(startHooks)'
        BY <3>3, <3>7 DEF InBuildOrder, Increasing, st
      <3>9. InBuildOrder(stopHooks)'
        BY <3>4, <3>7 DEF InBuildOrder, Increasing, sp
      <3>10. \A m \in Modules : Has("stop", m)' /\ stage' \in {"bind", "invoke", "built"} /\ (stage' = "bind" => m < cursor') => Listed(stopHooks, m)'
        <4> SUFFICES ASSUME NEW m \in Modules, Has("stop", m), stage' = "bind", m < cursor + 1
                     PROVE  Listed(sp, m)
          BY <3>1, <1>0 DEF Has, Listed, sp
        <4>1. CASE m = cursor
          BY <4>1, <3>4
        <4>2. CASE m < cursor
          BY <4>2, <3>1, <3>4 DEF LifecycleInv, BuildInv
        <4> QED BY <4>1, <4>2, <3>1 DEF Modules
      <3>11. BuildInv'
        BY <3>1, <3>5, <3>8, <3>9, <3>10, <1>0 DEF BuildInv, st, sp
      <3> QED BY <3>6, <3>11
    <2>3. CASE RunInvokes
      <3>1. DixTyped'
        BY <2>3, <1>0 DEF LifecycleInv, DixTyped, RunInvokes
      <3>2. InBuildOrder(startHooks)' /\ InBuildOrder(stopHooks)'
        BY <2>3, <1>0 DEF LifecycleInv, BuildInv, InBuildOrder, RunInvokes, Increasing
      <3>3. \A m \in Modules : Has("stop", m)' /\ stage' \in {"bind", "invoke", "built"} /\ (stage' = "bind" => m < cursor') => Listed(stopHooks, m)'
        BY <2>3, <1>0 DEF LifecycleInv, BuildInv, RunInvokes, Has, Modules, Listed, DixTyped
      <3>4. BuildInv'
        BY <2>3, <1>0, <3>2, <3>3 DEF LifecycleInv, BuildInv, RunInvokes
      <3> QED BY <3>1, <3>4
    <2>4. CASE Built
      <3>1. DixTyped'
        BY <2>4, <1>0 DEF LifecycleInv, DixTyped, Built, State
      <3>2. InBuildOrder(startHooks)' /\ InBuildOrder(stopHooks)'
        BY <2>4, <1>0 DEF LifecycleInv, BuildInv, InBuildOrder, Built, Increasing
      <3>3. \A m \in Modules : Has("stop", m)' /\ stage' \in {"bind", "invoke", "built"} /\ (stage' = "bind" => m < cursor') => Listed(stopHooks, m)'
        BY <2>4, <1>0 DEF LifecycleInv, BuildInv, Built, Has, Modules, Listed, DixTyped
      <3>4. BuildInv'
        BY <2>4, <1>0, <3>2, <3>3 DEF LifecycleInv, BuildInv, Built
      <3> QED BY <3>1, <3>4
    <2> QED BY <2>1, <2>2, <2>3, <2>4 DEF BuildNext
  <1>2. NoCalls'
    BY <1>0, <1>1 DEF BuildNext, PrepareFrameworkConfig, BindHooksAndSetup, RunInvokes, Built, NoCalls
  <1>3. (CallInv /\ CountInv /\ AloneInv /\ BegunInv)'
    BY <1>2, BeforeCalls, PTL
  <1> QED BY <1>1, <1>3 DEF LifecycleInv

Call(p) == StartCheck(p) \/ Stop(p) \/ Step(p)

\* What every step of a call keeps.
LEMMA CallFrame ==
  ASSUME LifecycleInv, NEW p \in Callers, Call(p)
  PROVE  /\ stage = "built" /\ stage' = stage /\ decl' = decl /\ cursor' = cursor
         /\ startHooks' = startHooks /\ stopHooks' = stopHooks
         /\ state' # "created" /\ (Paired' <=> Paired)
         /\ container = "shut" => container' = "shut"
         /\ \A q \in Callers : q # p => pc'[q] = pc[q] /\ idx'[q] = idx[q]
         /\ \A m \in Modules : ended'[m] >= ended[m]
         /\ overlap => overlap'
         /\ Unwinding(p) => Unwinding(p)' /\ idx'[p] <= idx[p]
         /\ DixTyped'
  <1> USE DixAssumption
  <1>0. DixTyped /\ BuildInv /\ CallInv
    BY DEF LifecycleInv
  <1>1. stage = "built" /\ state # "created"
    BY <1>0 DEF BuildInv, Call, StartCheck, Stop, Step, StartTransition, RunStartHook, StartDone,
                RunStopHook, ShutdownContainer, Stopped
  <1>2. UNCHANGED buildVars
    BY DEF Call, StartCheck, Stop, Step, StartTransition, RunStartHook, StartDone,
                RunStopHook, ShutdownContainer, Stopped
  <1>3. state' \in State /\ state' # "created"
    BY <1>0, <1>1 DEF DixTyped, State, Call, StartCheck, Stop, Step, StartTransition, RunStartHook, StartDone,
                RunStopHook, ShutdownContainer, Stopped
  <1>4. container' \in {"open", "shut"} /\ (container = "shut" => container' = "shut")
    BY <1>0 DEF DixTyped, Call, StartCheck, Stop, Step, StartTransition, RunStartHook, StartDone,
                RunStopHook, ShutdownContainer, Stopped
  <1>5. \E x \in PC : pc' = [pc EXCEPT ![p] = x]
    <2>1. CASE \E x \in PC : Goto(p, x)
      BY <2>1 DEF Goto
    <2>2. CASE pc' = pc
      <3>1. pc' = [pc EXCEPT ![p] = pc[p]] /\ pc[p] \in PC
        BY <2>2, <1>0 DEF DixTyped
      <3> QED BY <3>1
    <2> QED
      BY <2>1, <2>2 DEF PC, Call, StartCheck, Stop, Step, StartTransition, RunStartHook, FailedStart, StartDone,
                RunStopHook, ShutdownContainer, Stopped
  <1>6. Len(startHooks) \in 0..NumModules /\ Len(stopHooks) \in 0..NumModules
    BY <1>0 DEF DixTyped, BuildInv, InBuildOrder
  <1>7. \E n \in 0..NumModules : idx' = [idx EXCEPT ![p] = n]
    <2>0. idx[p] \in 0..NumModules
      BY <1>0 DEF DixTyped
    <2>1. CASE \E n \in 0..NumModules : At(p, n)
      BY <2>1 DEF At
    <2>2. CASE idx' = idx
      <3>1. idx' = [idx EXCEPT ![p] = idx[p]]
        BY <2>2, <1>0 DEF DixTyped
      <3> QED BY <3>1, <2>0
    <2>3. CASE StartCheck(p) \/ StartDone(p) \/ ShutdownContainer(p) \/ Stopped(p)
      BY <2>2, <2>3 DEF StartCheck, StartDone, ShutdownContainer, Stopped
    <2>4. CASE Stop(p)
      BY <2>1, <2>2, <2>4, <1>6 DEF Stop
    <2>5. CASE StartTransition(p)
      BY <2>1, <2>5 DEF StartTransition
    <2>6. CASE RunStartHook(p)
      <3>1. CASE At(p, idx[p] + 1)
        BY <2>0, <2>1, <2>6, <3>1, <1>6 DEF RunStartHook
      <3>2. CASE FailedStart(p)
        <4>1. PICK n : n = IF idx[p] > Len(stopHooks) THEN Len(stopHooks) ELSE idx[p]  OBVIOUS
        <4>2. At(p, n)
          BY <4>1, <3>2 DEF FailedStart
        <4>3. n \in 0..NumModules
          BY <4>1, <2>0, <1>6
        <4> QED BY <2>1, <4>2, <4>3
      <3> QED BY <2>6, <3>1, <3>2 DEF RunStartHook
    <2>7. CASE RunStopHook(p)
      BY <2>0, <2>1, <2>7 DEF RunStopHook
    <2> QED
      BY <2>3, <2>4, <2>5, <2>6, <2>7 DEF Call, Step
  <1>8. \A q \in Callers : q # p => pc'[q] = pc[q] /\ idx'[q] = idx[q]
    BY <1>0, <1>5, <1>7 DEF DixTyped
  <1>9. pc' \in [Callers -> PC] /\ idx' \in [Callers -> 0..NumModules]
    BY <1>0, <1>5, <1>7 DEF DixTyped
  <1>10. ended' \in [Modules -> Nat] /\ \A m \in Modules : ended'[m] >= ended[m]
    <2>1. CASE RunStopHook(p)
      <3>1. stopHooks[idx[p]] \in Modules
        BY <2>1, <1>0 DEF RunStopHook, DixTyped, CallInv, Unwinding
      <3> QED BY <2>1, <3>1, <1>0 DEF RunStopHook, DixTyped
    <2>2. CASE ended' = ended
      BY <2>2, <1>0 DEF DixTyped
    <2> QED
      BY <2>1, <2>2 DEF Call, StartCheck, Stop, Step, StartTransition, RunStartHook, StartDone,
                ShutdownContainer, Stopped
  <1>11. begun' \subseteq Modules
    <2>1. CASE RunStartHook(p)
      <3>1. startHooks[idx[p] + 1] \in Modules
        BY <2>1, <1>0 DEF RunStartHook, DixTyped
      <3> QED BY <2>1, <3>1, <1>0 DEF RunStartHook, FailedStart, DixTyped
    <2>2. CASE begun' = begun
      BY <2>2, <1>0 DEF DixTyped
    <2> QED
      BY <2>1, <2>2 DEF Call, StartCheck, Stop, Step, StartTransition, StartDone,
                RunStopHook, ShutdownContainer, Stopped
  <1>12. overlap' \in BOOLEAN /\ (overlap => overlap')
    <2>1. CASE Accepted(p)
      BY <2>1 DEF Accepted
    <2>2. CASE overlap' = overlap
      BY <2>2, <1>0 DEF DixTyped
    <2> QED
      BY <2>1, <2>2 DEF Call, StartCheck, Stop, Step, StartTransition, RunStartHook, StartDone,
                RunStopHook, ShutdownContainer, Stopped
  <1>13. ASSUME Unwinding(p) PROVE Unwinding(p)' /\ idx'[p] <= idx[p]
    <2>0. pc[p] \in {"unwind", "shutdown", "failed", "done"} /\ (pc[p] = "done" => p \in Stoppers)
          /\ pc \in [Callers -> PC] /\ idx \in [Callers -> 0..NumModules] /\ idx[p] \in 0..NumModules
      BY <1>13, <1>0 DEF Unwinding, DixTyped
    <2>1. CASE RunStopHook(p)
      BY <2>0, <2>1, <1>13 DEF RunStopHook, At, Unwinding
    <2>2. CASE ShutdownContainer(p)
      BY <2>0, <2>2 DEF ShutdownContainer, Goto, Unwinding
    <2>3. CASE Stopped(p)
      BY <2>0, <2>3 DEF Stopped, Goto, Unwinding, Callers
    <2> QED
      BY <2>0, <2>1, <2>2, <2>3 DEF Call, StartCheck, Stop, Step, StartTransition, RunStartHook, StartDone
  <1>14. Paired' <=> Paired
    BY <1>2 DEF Paired, Has, buildVars
  <1>15. DixTyped'
    BY <1>0, <1>1, <1>2, <1>3, <1>4, <1>9, <1>10, <1>11, <1>12 DEF DixTyped, buildVars
  <1> QED
    BY <1>1, <1>2, <1>3, <1>4, <1>8, <1>10, <1>12, <1>13, <1>14, <1>15 DEF buildVars

\* What was built stays as it is.
LEMMA CallKeepsBuild ==
  ASSUME LifecycleInv, NEW p \in Callers, Call(p)
  PROVE  BuildInv'
  <1>1. /\ stage = "built" /\ stage' = stage /\ decl' = decl /\ cursor' = cursor
        /\ startHooks' = startHooks /\ stopHooks' = stopHooks
        /\ state' # "created" /\ (Paired' <=> Paired)
    BY CallFrame
  <1>2. InBuildOrder(startHooks)' /\ InBuildOrder(stopHooks)'
    BY <1>1 DEF LifecycleInv, BuildInv, InBuildOrder, Increasing
  <1>3. \A m \in Modules : Has("stop", m)' => Listed(stopHooks, m)'
    BY <1>1 DEF LifecycleInv, BuildInv, Has, Listed
  <1> QED
    BY <1>1, <1>2, <1>3 DEF LifecycleInv, BuildInv

\* A hook has one place: running the stop hook at a place counts it, and no other one.
LEMMA StopHookCounts ==
  ASSUME LifecycleInv, NEW p \in Callers, RunStopHook(p)
  PROVE  /\ idx[p] \in 1..Len(stopHooks) /\ idx'[p] = idx[p] - 1 /\ pc' = pc
         /\ ended'[stopHooks[idx[p]]] = ended[stopHooks[idx[p]]] + 1
         /\ \A i \in 1..Len(stopHooks) : i # idx[p] => ended'[stopHooks[i]] = ended[stopHooks[i]]
         /\ \A m \in Modules : m # stopHooks[idx[p]] => ended'[m] = ended[m]
  <1>1. /\ idx[p] \in 1..Len(stopHooks) /\ stopHooks \in Seq(Modules)
        /\ ended \in [Modules -> Nat] /\ idx \in [Callers -> 0..NumModules] /\ Increasing(stopHooks)
    BY DixAssumption DEF LifecycleInv, DixTyped, CallInv, RunStopHook, Unwinding, BuildInv, InBuildOrder
  <1>2. PICK n : n = stopHooks[idx[p]]  OBVIOUS
  <1>3. n \in Modules
    BY <1>1, <1>2
  <1>4. ended' = [ended EXCEPT ![n] = @ + 1] /\ idx' = [idx EXCEPT ![p] = idx[p] - 1] /\ pc' = pc
    BY <1>2 DEF RunStopHook, At
  <1>5. \A i \in 1..Len(stopHooks) : i # idx[p] => stopHooks[i] \in Modules /\ stopHooks[i] # n
    <2>1. \A i \in 1..Len(stopHooks) : stopHooks[i] \in Modules
      BY <1>1
    <2>2. \A m \in Modules : ~(m < m)
      BY DixAssumption DEF Modules
    <2>3. \A i \in 1..Len(stopHooks) : i # idx[p] => i < idx[p] \/ idx[p] < i
      BY <1>1
    <2> QED BY <1>1, <1>2, <2>1, <2>2, <2>3 DEF Increasing
  <1>6. ended'[n] = ended[n] + 1 /\ \A m \in Modules : m # n => ended'[m] = ended[m]
    BY <1>1, <1>3, <1>4
  <1>7. \A i \in 1..Len(stopHooks) : i # idx[p] => ended'[stopHooks[i]] = ended[stopHooks[i]]
    BY <1>5, <1>6
  <1> QED
    BY <1>1, <1>2, <1>4, <1>6, <1>7

\* A call stays within the hooks, and a Stop has run the stop hooks behind it.
LEMMA CallKeepsCalls ==
  ASSUME LifecycleInv, NEW p \in Callers, Call(p)
  PROVE  CallInv'
  <1> USE DixAssumption
  <1>0. DixTyped /\ BuildInv /\ CallInv /\ DixTyped'
    BY CallFrame DEF LifecycleInv
  <1>1. /\ startHooks' = startHooks /\ stopHooks' = stopHooks
        /\ container = "shut" => container' = "shut"
        /\ \A q \in Callers : q # p => pc'[q] = pc[q] /\ idx'[q] = idx[q]
        /\ \A m \in Modules : ended'[m] >= ended[m]
    BY CallFrame
  <1>2. \A i \in 1..Len(stopHooks) : ended[stopHooks[i]] > 0 => ended'[stopHooks[i]] > 0
    <2>1. \A i \in 1..Len(stopHooks) : stopHooks[i] \in Modules
      BY <1>0 DEF DixTyped
    <2>2. \A m \in Modules : ended[m] > 0 => ended'[m] > 0
      BY <1>0, <1>1 DEF DixTyped
    <2> QED BY <2>1, <2>2
  <1> DEFINE Ok(q) ==
        /\ pc[q] \in {"checked", "hooks", "failed"} => q \in Starters
        /\ pc[q] = "hooks" => idx[q] <= Len(startHooks)
        /\ Unwinding(q) => idx[q] <= Len(stopHooks)
        /\ Unwinding(q) /\ pc[q] # "unwind" => idx[q] = 0 /\ container = "shut"
        /\ Unwinding(q) /\ q \in Stoppers =>
             \A i \in 1..Len(stopHooks) : i > idx[q] => ended[stopHooks[i]] > 0
  <1>3. \A q \in Callers : Ok(q)
    BY <1>0 DEF CallInv
  <1>4. ASSUME NEW q \in Callers, q # p PROVE Ok(q)'
    BY <1>1, <1>2, <1>3, <1>4 DEF Unwinding
  <1>5. Ok(p)'
    <2>0. /\ pc \in [Callers -> PC] /\ idx \in [Callers -> 0..NumModules] /\ idx[p] \in 0..NumModules
          /\ Len(startHooks) \in Nat /\ Len(stopHooks) \in Nat /\ (p \in Starters => p \notin Stoppers)
          /\ (p \in Starters \/ p \in Stoppers)
      BY <1>0 DEF DixTyped, Callers
    <2>1. CASE StartCheck(p)
      BY <2>0, <2>1, <1>1 DEF StartCheck, Goto, Unwinding
    <2>2. CASE Stop(p)
      BY <2>0, <2>2, <1>1 DEF Stop, Goto, At, Unwinding
    <2>3. CASE StartTransition(p)
      BY <2>0, <2>3, <1>1, <1>3 DEF StartTransition, Goto, At, Unwinding
    <2>4. CASE RunStartHook(p)
      <3>1. p \in Starters /\ p \notin Stoppers /\ idx[p] < Len(startHooks) /\ pc[p] = "hooks"
        BY <1>3, <2>0, <2>4 DEF RunStartHook
      <3>2. CASE FailedStart(p)
        BY <2>0, <3>1, <3>2, <1>1 DEF FailedStart, Goto, At, Unwinding
      <3>3. CASE At(p, idx[p] + 1) /\ pc' = pc
        BY <2>0, <3>1, <3>3, <1>1 DEF At, Unwinding
      <3> QED BY <2>4, <3>2, <3>3 DEF RunStartHook
    <2>5. CASE StartDone(p)
      BY <2>0, <2>5, <1>1, <1>3 DEF StartDone, Goto, Unwinding
    <2>6. CASE RunStopHook(p)
      <3>1. /\ idx[p] \in 1..Len(stopHooks) /\ idx'[p] = idx[p] - 1 /\ pc' = pc
            /\ ended'[stopHooks[idx[p]]] = ended[stopHooks[idx[p]]] + 1
        BY <2>6, StopHookCounts
      <3>2. pc[p] = "unwind"
        BY <2>6 DEF RunStopHook
      <3>3. ended[stopHooks[idx[p]]] \in Nat
        BY <3>1, <1>0 DEF DixTyped
      <3>4. \A i \in 1..Len(stopHooks) : i > idx'[p] => i = idx[p] \/ i > idx[p]
        BY <3>1, <2>0
      <3>5. Unwinding(p) /\ p \in Stoppers => \A i \in 1..Len(stopHooks) : i > idx'[p] => ended'[stopHooks[i]] > 0
        BY <3>1, <3>3, <3>4, <1>2, <1>3
      <3> QED BY <3>1, <3>2, <3>5, <1>1, <2>0 DEF Unwinding
    <2>7. CASE ShutdownContainer(p)
      BY <2>0, <2>7, <1>1, <1>2, <1>3 DEF ShutdownContainer, Goto, Unwinding
    <2>8. CASE Stopped(p)
      BY <2>0, <2>8, <1>1, <1>2, <1>3 DEF Stopped, Goto, Unwinding
    <2> QED
      BY <2>1, <2>2, <2>3, <2>4, <2>5, <2>6, <2>7, <2>8 DEF Call, Step
  <1>6. \A q \in Callers : Ok(q)'
    BY <1>4, <1>5
  <1> QED
    BY <1>6 DEF CallInv

\* A stop hook is counted for a call that gets past it by that.
LEMMA CallKeepsCounts ==
  ASSUME LifecycleInv, NEW p \in Callers, Call(p)
  PROVE  CountInv'
  <1> USE DixAssumption
  <1>0. DixTyped /\ CountInv /\ DixTyped'
    BY CallFrame DEF LifecycleInv
  <1>1. /\ stopHooks' = stopHooks
        /\ \A q \in Callers : q # p => pc'[q] = pc[q] /\ idx'[q] = idx[q]
        /\ Unwinding(p) => Unwinding(p)' /\ idx'[p] <= idx[p]
    BY CallFrame
  <1>2. ASSUME NEW i \in 1..Len(stopHooks)
        PROVE  /\ Past(i) \subseteq Past(i)' /\ IsFiniteSet(Past(i)') /\ IsFiniteSet(Past(i))
               /\ Cardinality(Past(i)) <= Cardinality(Past(i)')
               /\ Cardinality(Past(i)) \in Nat /\ Cardinality(Past(i)') \in Nat
    <2>1. ASSUME NEW q \in Past(i) PROVE q \in Past(i)'
      <3>1. CASE q = p
        BY <3>1, <1>0, <1>1 DEF Past, DixTyped
      <3>2. CASE q # p
        BY <3>2, <1>1 DEF Past, Unwinding
      <3> QED BY <3>1, <3>2
    <2>2. Past(i) \subseteq Callers /\ Past(i)' \subseteq Callers
      BY DEF Past
    <2>3. IsFiniteSet(Past(i)) /\ IsFiniteSet(Past(i)')
      BY <2>2, FS_Subset DEF Callers
    <2> QED
      BY <2>1, <2>3, FS_Subset, FS_CardinalityType
  <1>3. CASE RunStopHook(p)
    <2>1. /\ idx[p] \in 1..Len(stopHooks) /\ idx'[p] = idx[p] - 1 /\ pc' = pc
          /\ ended'[stopHooks[idx[p]]] = ended[stopHooks[idx[p]]] + 1
          /\ \A i \in 1..Len(stopHooks) : i # idx[p] => ended'[stopHooks[i]] = ended[stopHooks[i]]
          /\ \A m \in Modules : m # stopHooks[idx[p]] => ended'[m] = ended[m]
      BY <1>3, StopHookCounts
    <2>0. PICK i : i = idx[p]  OBVIOUS
    <2>2. Cardinality(Past(i)') = Cardinality(Past(i)) + 1
      <3>1. p \notin Past(i) /\ i \in 1..Len(stopHooks)
        BY <2>0, <2>1 DEF Past
      <3>2. { q \in Callers : Unwinding(q)' /\ idx'[q] < i } = Past(i) \cup {p}
        <4>1. Unwinding(p)' /\ idx'[p] < i
          BY <2>0, <1>3, <2>1 DEF RunStopHook, Unwinding
        <4>2. \A q \in Callers : q # p => (Unwinding(q)' <=> Unwinding(q)) /\ idx'[q] = idx[q]
          BY <1>1 DEF Unwinding
        <4> QED BY <4>1, <4>2 DEF Past
      <3>3. Cardinality(Past(i) \cup {p}) = Cardinality(Past(i)) + 1
        BY <3>1, <1>2, FS_AddElement
      <3>4. Cardinality({ q \in Callers : Unwinding(q)' /\ idx'[q] < i }) = Cardinality(Past(i)) + 1
        BY <3>2, <3>3
      <3> QED BY <3>4 DEF Past
    <2>3. \A j \in 1..Len(stopHooks) : ended'[stopHooks[j]] <= Cardinality(Past(j)')
      <3> SUFFICES ASSUME NEW j \in 1..Len(stopHooks) PROVE ended'[stopHooks[j]] <= Cardinality(Past(j)')
        OBVIOUS
      <3>0. ended[stopHooks[j]] \in Nat /\ ended[stopHooks[j]] <= Cardinality(Past(j))
        BY <1>0 DEF DixTyped, CountInv
      <3>1. CASE j = idx[p]
        BY <3>0, <3>1, <2>0, <2>1, <2>2, <1>2
      <3>2. CASE j # idx[p]
        BY <3>0, <3>2, <2>1, <1>2
      <3> QED BY <3>1, <3>2
    <2>4. \A m \in Modules : ended'[m] > 0 => Listed(stopHooks, m)
      BY <2>1, <1>0 DEF CountInv, Listed
    <2> QED
      BY <2>3, <2>4, <1>1 DEF CountInv, Listed, Past
  <1>4. CASE ended' = ended
    <2>1. \A i \in 1..Len(stopHooks) : ended'[stopHooks[i]] <= Cardinality(Past(i)')
      <3> SUFFICES ASSUME NEW i \in 1..Len(stopHooks) PROVE ended'[stopHooks[i]] <= Cardinality(Past(i)')
        OBVIOUS
      <3>0. ended[stopHooks[i]] \in Nat /\ ended[stopHooks[i]] <= Cardinality(Past(i))
        BY <1>0 DEF DixTyped, CountInv
      <3> QED BY <3>0, <1>2, <1>4
    <2> QED
      BY <2>1, <1>0, <1>1, <1>4 DEF CountInv, Listed, Past
  <1> QED
    BY <1>3, <1>4 DEF Call, StartCheck, Stop, Step, StartTransition, RunStartHook, StartDone,
                ShutdownContainer, Stopped

\* Runtime.state lets one call at a time in, as long as none is let in between another
\* one's check and its transition.
LEMMA CallKeepsAlone ==
  ASSUME LifecycleInv, NEW p \in Callers, Call(p)
  PROVE  AloneInv'
  <1> USE DixAssumption
  <1>0. DixTyped /\ CallInv /\ AloneInv /\ DixTyped'
    BY CallFrame DEF LifecycleInv
  <1>1. /\ stage = "built" /\ stage' = stage
        /\ \A q \in Callers : q # p => pc'[q] = pc[q] /\ idx'[q] = idx[q]
        /\ overlap => overlap'
        /\ pc \in [Callers -> PC] /\ (p \in Starters => p \notin Stoppers) /\ (p \in Starters \/ p \in Stoppers)
        /\ container \in {"open", "shut"}
    BY CallFrame, <1>0 DEF DixTyped, Callers
  <1> SUFFICES ASSUME ~overlap' PROVE
        /\ \A q, r \in Callers : (AtWork(q)' \/ Unwinding(q)') /\ (AtWork(r)' \/ Unwinding(r)') => q = r
        /\ \A q \in Callers :
             /\ pc'[q] = "checked" => state' = "built"
             /\ pc'[q] = "hooks" => state' = "starting"
             /\ pc'[q] \in {"unwind", "shutdown"} => state' = IF q \in Starters THEN "starting" ELSE "started"
             /\ Unwinding(q)' /\ ~AtWork(q)' => state' = "stopped"
        /\ container' = "shut" => \E q \in Callers : Unwinding(q)' /\ pc'[q] # "unwind"
    BY <1>1 DEF AloneInv
  <1>2. ~overlap
    BY <1>1
  <1>3. /\ \A q, r \in Callers : (AtWork(q) \/ Unwinding(q)) /\ (AtWork(r) \/ Unwinding(r)) => q = r
        /\ \A q \in Callers :
             /\ pc[q] = "checked" => state = "built"
             /\ pc[q] = "hooks" => state = "starting"
             /\ pc[q] \in {"unwind", "shutdown"} => state = IF q \in Starters THEN "starting" ELSE "started"
             /\ Unwinding(q) /\ ~AtWork(q) => state = "stopped"
        /\ container = "shut" => \E q \in Callers : Unwinding(q) /\ pc[q] # "unwind"
    BY <1>0, <1>1, <1>2 DEF AloneInv
  <1>4. \A q \in Callers : q # p => (AtWork(q)' <=> AtWork(q)) /\ (Unwinding(q)' <=> Unwinding(q))
    BY <1>1 DEF AtWork, Unwinding
  <1>5. CASE StartCheck(p) \/ Stop(p)
    <2>1. pc[p] = "idle" /\ ~AtWork(p) /\ ~Unwinding(p) /\ state' = state /\ container' = container
      BY <1>5 DEF StartCheck, Stop, AtWork, Unwinding
    <2>2. CASE Goto(p, "refused")
      <3>1. ~AtWork(p)' /\ ~Unwinding(p)' /\ pc'[p] = "refused"
        BY <2>2, <1>1 DEF Goto, AtWork, Unwinding
      <3> QED BY <3>1, <2>1, <1>1, <1>3, <1>4
    <2>3. CASE ~Goto(p, "refused")
      <3>0. Accepted(p)
        BY <2>3, <1>5 DEF StartCheck, Stop
      <3>1. \A q \in Callers : q # p => ~AtWork(q)
        BY <3>0, <1>1, <1>2 DEF Accepted, AtWork
      <3>2. state \in {"built", "started"}
        BY <2>3, <1>5 DEF StartCheck, Stop
      <3>3. \A q \in Callers : q # p => ~Unwinding(q)
        BY <3>1, <3>2, <1>3
      <3>4. container = "open"
        BY <3>3, <2>1, <1>1, <1>3
      <3>5. /\ pc'[p] = "checked" => state = "built"
            /\ pc'[p] # "hooks" /\ pc'[p] # "shutdown"
            /\ pc'[p] = "unwind" => p \in Stoppers /\ state = "started"
            /\ Unwinding(p)' => AtWork(p)'
        BY <2>3, <1>5, <1>1, <1>2 DEF StartCheck, Stop, Accepted, Goto, AtWork, Unwinding
      <3>6. \A q \in Callers : q # p => pc'[q] \notin {"checked", "hooks", "unwind", "shutdown"} /\ ~Unwinding(q)' /\ ~AtWork(q)'
        BY <3>1, <3>3, <1>1, <1>4 DEF AtWork
      <3>7. \A q \in Callers :
              /\ pc'[q] = "checked" => state' = "built"
              /\ pc'[q] = "hooks" => state' = "starting"
              /\ pc'[q] \in {"unwind", "shutdown"} => state' = IF q \in Starters THEN "starting" ELSE "started"
              /\ Unwinding(q)' /\ ~AtWork(q)' => state' = "stopped"
        <4> SUFFICES ASSUME NEW q \in Callers PROVE
              /\ pc'[q] = "checked" => state' = "built"
              /\ pc'[q] = "hooks" => state' = "starting"
              /\ pc'[q] \in {"unwind", "shutdown"} => state' = IF q \in Starters THEN "starting" ELSE "started"
              /\ Unwinding(q)' /\ ~AtWork(q)' => state' = "stopped"
          OBVIOUS
        <4>1. CASE q = p
          BY <4>1, <3>5, <2>1, <1>1
        <4>2. CASE q # p
          BY <4>2, <3>6
        <4> QED BY <4>1, <4>2
      <3> QED BY <3>4, <3>6, <3>7, <2>1
    <2> QED BY <2>2, <2>3
  <1>6. CASE Step(p)
    <2>1. AtWork(p)
      BY <1>6 DEF Step, StartTransition, RunStartHook, StartDone, RunStopHook, ShutdownContainer, Stopped, AtWork
    <2>2. \A q \in Callers : q # p => ~AtWork(q) /\ ~Unwinding(q) /\ ~AtWork(q)' /\ ~Unwinding(q)'
                                   /\ pc'[q] \notin {"checked", "hooks", "unwind", "shutdown"}
      BY <2>1, <1>1, <1>3, <1>4 DEF AtWork
    <2>3. /\ pc'[p] = "checked" => state' = "built"
          /\ pc'[p] = "hooks" => state' = "starting"
          /\ pc'[p] \in {"unwind", "shutdown"} => state' = IF p \in Starters THEN "starting" ELSE "started"
          /\ Unwinding(p)' /\ ~AtWork(p)' => state' = "stopped"
          /\ container' = "shut" => Unwinding(p)' /\ pc'[p] # "unwind"
      <3>0. /\ pc[p] \in {"checked", "hooks"} => p \in Starters /\ container = "open"
            /\ pc[p] = "unwind" => container = "open"
            /\ pc[p] = "shutdown" => Unwinding(p)
            /\ pc[p] = "checked" => state = "built"
            /\ pc[p] = "hooks" => state = "starting"
            /\ pc[p] \in {"unwind", "shutdown"} => state = IF p \in Starters THEN "starting" ELSE "started"
        BY <2>1, <2>2, <1>0, <1>1, <1>3 DEF CallInv, Unwinding
      <3>1. CASE StartTransition(p)
        BY <3>0, <3>1, <1>1 DEF StartTransition, Goto, Unwinding, AtWork
      <3>2. CASE RunStartHook(p)
        BY <3>0, <3>2, <1>1 DEF RunStartHook, FailedStart, Goto, Unwinding, AtWork
      <3>3. CASE StartDone(p)
        BY <3>0, <3>3, <1>1 DEF StartDone, Goto, Unwinding, AtWork
      <3>4. CASE RunStopHook(p)
        BY <3>0, <3>4, <1>1 DEF RunStopHook, Unwinding, AtWork
      <3>5. CASE ShutdownContainer(p)
        BY <3>0, <3>5, <1>1 DEF ShutdownContainer, Goto, Unwinding, AtWork
      <3>6. CASE Stopped(p)
        BY <3>0, <3>6, <1>1 DEF Stopped, Goto, Unwinding, AtWork
      <3> QED BY <1>6, <3>1, <3>2, <3>3, <3>4, <3>5, <3>6 DEF Step
    <2> QED BY <2>2, <2>3
  <1> QED
    BY <1>5, <1>6 DEF Call

\* While no call unwinds, no stop hook has run.
LEMMA NothingEnded ==
  ASSUME LifecycleInv, \A q \in Callers : ~Unwinding(q)
  PROVE  \A i \in 1..Len(stopHooks) : ended[stopHooks[i]] = 0
  <1> SUFFICES ASSUME NEW i \in 1..Len(stopHooks) PROVE ended[stopHooks[i]] = 0  OBVIOUS
  <1>1. ended[stopHooks[i]] <= Cardinality(Past(i)) /\ ended[stopHooks[i]] \in Nat
    BY DEF LifecycleInv, CountInv, DixTyped
  <1>2. Past(i) = {}
    BY DEF Past
  <1>3. Cardinality(Past(i)) = 0
    BY <1>2, FS_EmptySet
  <1> QED BY <1>1, <1>3

\* A start that fails is rolled back from the last hook that completed.
LEMMA CallKeepsBegun ==
  ASSUME LifecycleInv, NEW p \in Callers, Call(p)
  PROVE  BegunInv'
  <1> USE DixAssumption
  <1>0. DixTyped /\ CallInv /\ AloneInv /\ BegunInv /\ DixTyped' /\ BuildInv
    BY CallFrame DEF LifecycleInv
  <1>1. /\ startHooks' = startHooks /\ stopHooks' = stopHooks
        /\ \A q \in Callers : q # p => pc'[q] = pc[q] /\ idx'[q] = idx[q]
        /\ overlap => overlap'
        /\ Paired' <=> Paired
        /\ pc \in [Callers -> PC] /\ idx \in [Callers -> 0..NumModules] /\ idx[p] \in 0..NumModules
        /\ (p \in Starters => p \notin Stoppers) /\ (p \in Starters \/ p \in Stoppers)
        /\ Len(startHooks) \in Nat
    BY CallFrame, <1>0 DEF DixTyped, Callers
  <1>2. (\A m \in begun : Listed(startHooks, m))'
    <2>1. CASE RunStartHook(p)
      <3>1. \A m \in begun' : m \in begun \/ m = startHooks[idx[p] + 1]
        BY <2>1 DEF RunStartHook, FailedStart
      <3>2. idx[p] + 1 \in 1..Len(startHooks)
        BY <2>1, <1>1 DEF RunStartHook
      <3>3. \A m \in begun' : Listed(startHooks, m)
        BY <3>1, <3>2, <1>0 DEF BegunInv, Listed
      <3> QED BY <3>3, <1>1 DEF Listed
    <2>2. CASE begun' = begun
      BY <2>2, <1>0, <1>1 DEF BegunInv, Listed
    <2> QED
      BY <2>1, <2>2 DEF Call, StartCheck, Stop, Step, StartTransition, StartDone,
                RunStopHook, ShutdownContainer, Stopped
  <1> SUFFICES ASSUME ~overlap' PROVE
        /\ state' \in {"created", "built"} => begun' = {}
        /\ \A q \in Callers :
             /\ pc'[q] = "hooks" => \A i \in 1..Len(startHooks) : startHooks[i] \in begun' <=> i <= idx'[q]
             /\ Paired /\ q \in Starters /\ Unwinding(q)' =>
                  \A i \in 1..Len(stopHooks) : stopHooks[i] \in begun' <=> i <= idx'[q] \/ ended'[stopHooks[i]] > 0
    BY <1>1, <1>2 DEF BegunInv
  <1>3. ~overlap
    BY <1>1
  <1>4. /\ state \in {"created", "built"} => begun = {}
        /\ \A q \in Callers :
             /\ pc[q] = "hooks" => \A i \in 1..Len(startHooks) : startHooks[i] \in begun <=> i <= idx[q]
             /\ Paired /\ q \in Starters /\ Unwinding(q) =>
                  \A i \in 1..Len(stopHooks) : stopHooks[i] \in begun <=> i <= idx[q] \/ ended[stopHooks[i]] > 0
    BY <1>0, <1>3 DEF BegunInv
  <1>5. /\ \A q, r \in Callers : (AtWork(q) \/ Unwinding(q)) /\ (AtWork(r) \/ Unwinding(r)) => q = r
        /\ pc[p] = "checked" => state = "built"
        /\ pc[p] = "hooks" => state = "starting"
        /\ pc[p] \in {"unwind", "shutdown"} => state = IF p \in Starters THEN "starting" ELSE "started"
    BY <1>0, <1>3 DEF AloneInv
  <1>6. CASE StartCheck(p) \/ Stop(p)
    <2>1. state' = state /\ begun' = begun /\ ended' = ended
      BY <1>6 DEF StartCheck, Stop
    <2>2. pc'[p] # "hooks" /\ (p \in Starters => ~Unwinding(p)')
      BY <1>6, <1>1 DEF StartCheck, Stop, Goto, Unwinding
    <2>3. \A q \in Callers : q # p => pc'[q] = pc[q] /\ idx'[q] = idx[q] /\ (Unwinding(q)' <=> Unwinding(q))
      BY <1>1 DEF Unwinding
    <2> QED BY <2>1, <2>2, <2>3, <1>4
  <1>7. CASE Step(p)
    <2>1. AtWork(p)
      BY <1>7 DEF Step, StartTransition, RunStartHook, StartDone, RunStopHook, ShutdownContainer, Stopped, AtWork
    <2>2. \A q \in Callers : q # p => ~AtWork(q) /\ ~Unwinding(q)
      BY <2>1, <1>5
    <2>3. \A q \in Callers : q # p => pc'[q] # "hooks" /\ ~Unwinding(q)'
      BY <2>2, <1>1 DEF AtWork, Unwinding
    <2> SUFFICES
        /\ state' \in {"created", "built"} => begun' = {}
        /\ pc'[p] = "hooks" => \A i \in 1..Len(startHooks) : startHooks[i] \in begun' <=> i <= idx'[p]
        /\ Paired /\ p \in Starters /\ Unwinding(p)' =>
             \A i \in 1..Len(stopHooks) : stopHooks[i] \in begun' <=> i <= idx'[p] \/ ended'[stopHooks[i]] > 0
      BY <2>3
    <2>4. CASE StartTransition(p)
      <3>1. begun = {} /\ begun' = begun /\ state' = "starting" /\ idx'[p] = 0 /\ pc'[p] = "hooks"
        BY <2>4, <1>1, <1>4, <1>5 DEF StartTransition, Goto, At
      <3> QED BY <3>1 DEF Unwinding
    <2>5. CASE RunStartHook(p)
      <3>0. pc[p] = "hooks" /\ idx[p] < Len(startHooks) /\ state' = state /\ ended' = ended /\ state = "starting"
            /\ \A i \in 1..Len(startHooks) : startHooks[i] \in begun <=> i <= idx[p]
        BY <2>5, <1>4, <1>5 DEF RunStartHook
      <3>1. CASE At(p, idx[p] + 1) /\ begun' = begun \cup {startHooks[idx[p] + 1]} /\ pc' = pc
        <4>1. idx'[p] = idx[p] + 1 /\ pc'[p] = "hooks" /\ idx[p] + 1 \in 1..Len(startHooks)
          BY <3>0, <3>1, <1>1 DEF At
        <4>2. ASSUME NEW i \in 1..Len(startHooks) PROVE startHooks[i] \in begun' <=> i <= idx'[p]
          <5>1. CASE i = idx[p] + 1
            BY <5>1, <3>1, <4>1
          <5>2. CASE i # idx[p] + 1
            <6>1. startHooks[i] # startHooks[idx[p] + 1]
              <7>1. Increasing(startHooks) /\ startHooks[i] \in Modules /\ startHooks[idx[p] + 1] \in Modules
                <8>1. startHooks \in Seq(Modules) /\ Increasing(startHooks)
                  BY <1>0 DEF BuildInv, InBuildOrder, DixTyped
                <8> QED BY <8>1, <4>1
              <7>2. i < idx[p] + 1 \/ idx[p] + 1 < i
                BY <5>2, <4>1
              <7> QED BY <7>1, <7>2, <4>1 DEF Increasing, Modules
            <6>2. i <= idx[p] <=> i <= idx[p] + 1
              BY <5>2, <1>1
            <6> QED BY <6>1, <6>2, <3>0, <3>1, <4>1
          <5> QED BY <5>1, <5>2
        <4> QED BY <4>1, <4>2, <3>0 DEF Unwinding
      <3>2. CASE FailedStart(p)
        <4>1. pc'[p] = "unwind" /\ begun' = begun
          BY <3>2, <1>1 DEF FailedStart, Goto
        <4>2. ~Unwinding(p)
          BY <3>0 DEF Unwinding
        <4>3. \A q \in Callers : ~Unwinding(q)
          BY <2>2, <4>2
        <4>4. \A i \in 1..Len(stopHooks) : ended[stopHooks[i]] = 0
          BY <4>3, NothingEnded
        <4>5. ASSUME Paired PROVE startHooks = stopHooks /\ idx'[p] = idx[p]
          <5>1. startHooks = stopHooks
            BY <4>5, <1>0 DEF BuildInv
          <5>2. ~(idx[p] > Len(stopHooks))
            BY <5>1, <3>0, <1>1
          <5> QED BY <5>1, <5>2, <3>2, <1>1 DEF FailedStart, At
        <4>6. ASSUME Paired
              PROVE  \A i \in 1..Len(stopHooks) : stopHooks[i] \in begun' <=> i <= idx'[p] \/ ended'[stopHooks[i]] > 0
          BY <4>1, <4>4, <4>5, <4>6, <3>0
        <4> QED BY <4>1, <4>6, <3>0
      <3> QED BY <2>5, <3>1, <3>2 DEF RunStartHook
    <2>6. CASE StartDone(p)
      <3>1. pc'[p] = "done" /\ state' = "started" /\ p \in Starters
        BY <2>6, <1>0, <1>1 DEF StartDone, Goto, CallInv
      <3> QED BY <3>1, <1>1 DEF Unwinding
    <2>7. CASE RunStopHook(p)
      <3>1. /\ idx[p] \in 1..Len(stopHooks) /\ idx'[p] = idx[p] - 1 /\ pc' = pc
            /\ ended'[stopHooks[idx[p]]] = ended[stopHooks[idx[p]]] + 1
            /\ \A i \in 1..Len(stopHooks) : i # idx[p] => ended'[stopHooks[i]] = ended[stopHooks[i]]
        BY <2>7, StopHookCounts
      <3>2. pc[p] = "unwind" /\ Unwinding(p) /\ state' = state /\ begun' = begun
        BY <2>7 DEF RunStopHook, Unwinding
      <3>3. state \notin {"created", "built"}
        BY <3>2, <1>5
      <3>4. ASSUME Paired, p \in Starters, NEW i \in 1..Len(stopHooks)
            PROVE  stopHooks[i] \in begun' <=> i <= idx'[p] \/ ended'[stopHooks[i]] > 0
        <4>0. stopHooks[i] \in begun <=> i <= idx[p] \/ ended[stopHooks[i]] > 0
          BY <3>2, <3>4, <1>4
        <4>1. CASE i = idx[p]
          <5>1. ended[stopHooks[i]] \in Nat
            BY <1>0 DEF DixTyped
          <5> QED BY <5>1, <4>0, <4>1, <3>1, <3>2
        <4>2. CASE i # idx[p]
          <5>1. i <= idx[p] <=> i <= idx'[p]
            BY <4>2, <3>1
          <5> QED BY <5>1, <4>0, <4>2, <3>1, <3>2
        <4> QED BY <4>1, <4>2
      <3> QED BY <3>1, <3>2, <3>3, <3>4
    <2>8. CASE ShutdownContainer(p)
      <3>1. pc[p] = "unwind" /\ Unwinding(p) /\ pc'[p] = "shutdown" /\ state' = state /\ begun' = begun
            /\ ended' = ended /\ idx' = idx
        BY <2>8, <1>1 DEF ShutdownContainer, Goto, Unwinding
      <3> QED BY <3>1, <1>4, <1>5
    <2>9. CASE Stopped(p)
      <3>1. pc[p] = "shutdown" /\ Unwinding(p) /\ pc'[p] \in {"failed", "done"} /\ state' = "stopped" /\ begun' = begun
            /\ ended' = ended /\ idx' = idx
        BY <2>9, <1>1 DEF Stopped, Goto, Unwinding
      <3> QED BY <3>1, <1>4
    <2> QED
      BY <1>7, <2>4, <2>5, <2>6, <2>7, <2>8, <2>9 DEF Step
  <1> QED
    BY <1>6, <1>7 DEF Call

\* Every step of the lifecycle keeps the invariant.
LEMMA LifecycleStep == LifecycleInv /\ [LifecycleNext]_lifecycleVars => LifecycleInv'
  <1> SUFFICES ASSUME LifecycleInv, [LifecycleNext]_lifecycleVars PROVE LifecycleInv'  OBVIOUS
  <1>1. CASE BuildNext
    BY <1>1, BuildStep
  <1>2. ASSUME NEW p \in Callers, Call(p) PROVE LifecycleInv'
    BY <1>2, CallFrame, CallKeepsBuild, CallKeepsCalls, CallKeepsCounts, CallKeepsAlone, CallKeepsBegun DEF LifecycleInv
  <1>3. CASE UNCHANGED lifecycleVars
    <2>1. DixTyped'
      BY <1>3 DEF LifecycleInv, DixTyped, lifecycleVars, buildVars
    <2>2. BuildInv'
      BY <1>3 DEF LifecycleInv, BuildInv, InBuildOrder, Increasing, Listed, Has, Paired, lifecycleVars, buildVars
    <2>3. CallInv'
      BY <1>3 DEF LifecycleInv, CallInv, Unwinding, lifecycleVars, buildVars
    <2>4. CountInv'
      BY <1>3 DEF LifecycleInv, CountInv, Past, Unwinding, Listed, lifecycleVars, buildVars
    <2>5. AloneInv'
      BY <1>3 DEF LifecycleInv, AloneInv, AtWork, Unwinding, lifecycleVars, buildVars
    <2>6. BegunInv'
      BY <1>3 DEF LifecycleInv, BegunInv, Unwinding, Listed, Paired, Has, lifecycleVars, buildVars
    <2> QED BY <2>1, <2>2, <2>3, <2>4, <2>5, <2>6 DEF LifecycleInv
  <1> QED
    BY <1>1, <1>2, <1>3 DEF LifecycleNext, BuildNext, Call

\* What has ended has a caller that ended it.
LEMMA EndedBound ==
  ASSUME LifecycleInv, NEW m \in Modules
  PROVE  /\ ended[m] \in 0..Cardinality(Callers)
         /\ ~overlap => ended[m] <= 1
  <1>0. ended[m] \in Nat /\ IsFiniteSet(Callers) /\ Cardinality(Callers) \in Nat
    BY DixAssumption, FS_CardinalityType DEF LifecycleInv, DixTyped, Callers
  <1>1. CASE ended[m] = 0
    BY <1>0, <1>1
  <1>2. CASE ended[m] > 0
    <2>1. PICK i \in 1..Len(stopHooks) : stopHooks[i] = m
      BY <1>2 DEF LifecycleInv, CountInv, Listed
    <2>2. ended[m] <= Cardinality(Past(i))
      BY <2>1 DEF LifecycleInv, CountInv
    <2>3. Past(i) \subseteq Callers
      BY DEF Past
    <2>4. IsFiniteSet(Past(i)) /\ Cardinality(Past(i)) <= Cardinality(Callers) /\ Cardinality(Past(i)) \in Nat
      BY <2>3, <1>0, FS_Subset, FS_CardinalityType
    <2>5. ASSUME ~overlap PROVE Cardinality(Past(i)) <= 1
      <3>1. \A q, r \in Past(i) : q = r
        BY <2>5 DEF LifecycleInv, AloneInv, Past
      <3>2. CASE Past(i) = {}
        BY <3>2, FS_EmptySet
      <3>3. CASE Past(i) # {}
        <4>1. PICK q : Past(i) = {q}
          BY <3>1, <3>3
        <4>2. Cardinality({q}) = 1
          BY FS_Singleton
        <4> QED BY <4>1, <4>2
      <3> QED BY <3>2, <3>3
    <2> QED BY <1>0, <2>2, <2>4, <2>5
  <1> QED BY <1>0, <1>1, <1>2

\* The invariant says what StopsExact says.
LEMMA LifecycleExact == LifecycleInv => StopsExact
  <1> SUFFICES ASSUME LifecycleInv PROVE StopsExact  OBVIOUS
  <1> USE DixAssumption
  <1>1. TypeOK
    <2>1. ended \in [Modules -> 0..Cardinality(Callers)]
      BY EndedBound DEF LifecycleInv, DixTyped
    <2> QED BY <2>1 DEF TypeOK, LifecycleInv, DixTyped
  <1>2. StopRunsEverything
    <2>1. ASSUME NEW p \in Stoppers, pc[p] = "done"
          PROVE  (\A m \in Modules : Has("stop", m) => ended[m] > 0) /\ container = "shut"
      <3>1. p \in Callers /\ Unwinding(p) /\ pc[p] # "unwind"
        BY <2>1 DEF Callers, Unwinding
      <3>2. idx[p] = 0 /\ container = "shut" /\ \A i \in 1..Len(stopHooks) : i > idx[p] => ended[stopHooks[i]] > 0
        BY <2>1, <3>1 DEF LifecycleInv, CallInv
      <3>3. stage = "built"
        BY <2>1, <3>1 DEF LifecycleInv, BuildInv
      <3>4. \A m \in Modules : Has("stop", m) => Listed(stopHooks, m)
        BY <3>3 DEF LifecycleInv, BuildInv
      <3> QED BY <3>2, <3>4 DEF Listed
    <2>2. ~overlap => \A m \in Modules : ended[m] <= 1
      BY EndedBound
    <2> QED BY <2>1, <2>2 DEF StopRunsEverything
  <1>3. RollbackExactIfPaired
    <2> SUFFICES ASSUME Paired, ~overlap, NEW p \in Starters, pc[p] = "failed",
                        NEW m \in Modules, Has("start", m), Has("stop", m)
                 PROVE  m \in begun <=> ended[m] > 0
      BY DEF RollbackExactIfPaired, RollbackExact
    <2>1. p \in Callers /\ Unwinding(p) /\ pc[p] # "unwind"
      BY DEF Callers, Unwinding
    <2>2. idx[p] = 0 /\ stage = "built"
      BY <2>1 DEF LifecycleInv, CallInv, BuildInv
    <2>3. PICK i \in 1..Len(stopHooks) : stopHooks[i] = m
      BY <2>2 DEF LifecycleInv, BuildInv, Listed
    <2>4. stopHooks[i] \in begun <=> i <= idx[p] \/ ended[stopHooks[i]] > 0
      BY <2>1, <2>3 DEF LifecycleInv, BegunInv
    <2> QED BY <2>2, <2>3, <2>4
  <1> QED BY <1>1, <1>2, <1>3 DEF StopsExact

\* The step of DependentsStopFirst.
LEMMA StopsInOrder ==
  ASSUME LifecycleInv, [LifecycleNext]_lifecycleVars, NEW m \in Modules, ended'[m] > ended[m], Paired, ~overlap,
         NEW n \in begun, n > m
  PROVE  ended[n] > 0
  <1> USE DixAssumption
  <1>0. ended \in [Modules -> Nat] /\ begun \subseteq Modules /\ n \in Modules /\ stopHooks \in Seq(Modules) /\ Increasing(stopHooks)
    BY DEF LifecycleInv, DixTyped, BuildInv, InBuildOrder
  <1>1. PICK p \in Callers : RunStopHook(p)
    <2>1. ended' # ended
      BY <1>0
    <2> QED
      BY <2>1 DEF LifecycleNext, PrepareFrameworkConfig, BindHooksAndSetup, RunInvokes, Built, StartCheck, Stop, Step,
                  StartTransition, RunStartHook, StartDone, ShutdownContainer, Stopped, lifecycleVars
  <1>2. idx[p] \in 1..Len(stopHooks) /\ m = stopHooks[idx[p]] /\ pc[p] = "unwind"
    <2>1. /\ idx[p] \in 1..Len(stopHooks)
          /\ \A l \in Modules : l # stopHooks[idx[p]] => ended'[l] = ended[l]
      BY <1>1, StopHookCounts
    <2> QED BY <1>0, <1>1, <2>1 DEF RunStopHook
  <1>3. PICK j \in 1..Len(stopHooks) : stopHooks[j] = n
    BY DEF LifecycleInv, BegunInv, Listed, BuildInv
  <1>4. j > idx[p]
    <2>1. CASE j < idx[p]
      <3>1. stopHooks[j] < stopHooks[idx[p]]
        BY <1>0, <1>2, <1>3, <2>1 DEF Increasing
      <3> QED BY SMTT(40), <3>1, <1>0, <1>2, <1>3 DEF Modules
    <2>2. CASE j = idx[p]
      BY <2>2, <1>0, <1>2, <1>3 DEF Modules
    <2> QED BY <2>1, <2>2, <1>2, <1>3
  <1>5. Unwinding(p)
    BY <1>2 DEF Unwinding
  <1>6. CASE p \in Stoppers
    BY <1>3, <1>4, <1>5, <1>6 DEF LifecycleInv, CallInv
  <1>7. CASE p \in Starters
    <2>1. stopHooks[j] \in begun <=> j <= idx[p] \/ ended[stopHooks[j]] > 0
      BY <1>3, <1>5, <1>7 DEF LifecycleInv, BegunInv
    <2> QED BY <2>1, <1>2, <1>3, <1>4
  <1> QED BY <1>6, <1>7 DEF Callers

\* The step of NoHookAfterShutdown.
LEMMA HooksWhileOpen ==
  ASSUME LifecycleInv, [LifecycleNext]_lifecycleVars, begun' # begun \/ ended' # ended, ~overlap
  PROVE  container = "open"
  <1>1. PICK p \in Callers : RunStartHook(p) \/ RunStopHook(p)
    BY DEF LifecycleNext, PrepareFrameworkConfig, BindHooksAndSetup, RunInvokes, Built, StartCheck, Stop, Step,
           StartTransition, StartDone, ShutdownContainer, Stopped, lifecycleVars
  <1>2. pc[p] \in {"hooks", "unwind"} /\ AtWork(p)
    BY <1>1 DEF RunStartHook, RunStopHook, AtWork
  <1>3. stage = "built" /\ container \in {"open", "shut"}
    BY <1>2 DEF LifecycleInv, BuildInv, DixTyped
  <1>4. ASSUME container = "shut" PROVE FALSE
    <2>1. PICK q \in Callers : Unwinding(q) /\ pc[q] # "unwind"
      BY <1>3, <1>4 DEF LifecycleInv, AloneInv
    <2>2. p = q
      BY <1>2, <2>1 DEF LifecycleInv, AloneInv
    <2> QED BY <1>2, <2>1, <2>2 DEF Unwinding
  <1> QED BY <1>3, <1>4

\* A step of the application is one of the lifecycle, or leaves it alone.
LEMMA AppSteps == [Next]_vars => [LifecycleNext]_lifecycleVars /\ [LoadNext]_loadVars
  BY DEF Next, vars, lifecycleVars, loadVars

\* The invariant of the lifecycle holds in every behaviour of an application, for any
\* number of modules with any hooks, and any finite number of Start and Stop calls.
THEOREM LifecycleInvariant == Spec => []LifecycleInv
  <1>1. Init => LifecycleInv
    BY LifecycleStarts DEF Init
  <1>2. LifecycleInv /\ [Next]_vars => LifecycleInv'
    BY AppSteps, LifecycleStep
  <1> QED
    BY <1>1, <1>2, PTL DEF Spec

\* StopsExact, in every behaviour: an accepted Stop runs every stop hook and shuts the
\* container down; without overlapping calls none runs twice; and with paired hooks a
\* failed Start is rolled back exactly.
THEOREM StopsExactAlways == Spec => []StopsExact
  BY LifecycleInvariant, LifecycleExact, PTL

\* The step of EnvironmentStays.
LEMMA EnvironmentKept ==
  ASSUME [LoadNext]_loadVars, environ # NoValue
  PROVE  environ' = environ
  BY DEF LoadNext, BeginLoad, loadDotenv, loadFiles, loadEnv, loadArgs, loadDotenvFile, Over, loadVars

\* StepsAllowed, in every behaviour: without overlapping calls modules are stopped after
\* those that may depend on them, and no hook runs on a container that is shut down; and
\* dotenv files never replace what the environment says.
THEOREM StepsAllowedAlways == Spec => StepsAllowed
  <1>1. LifecycleInv /\ [Next]_vars =>
          [\A m \in Modules : ended'[m] > ended[m] /\ Paired /\ ~overlap => \A n \in begun : n > m => ended[n] > 0]_lifecycleVars
    BY AppSteps, StopsInOrder
  <1>2. LifecycleInv /\ [Next]_vars => [(begun' # begun \/ ended' # ended) /\ ~overlap => container = "open"]_lifecycleVars
    BY AppSteps, HooksWhileOpen
  <1>3. [Next]_vars => [environ # NoValue => environ' = environ]_loadVars
    BY AppSteps, EnvironmentKept
  <1> QED
    BY <1>1, <1>2, <1>3, LifecycleInvariant, PTL DEF Spec, StepsAllowed, DependentsStopFirst, NoHookAfterShutdown, EnvironmentStays

-----------------------------------------------------------------------------
(* authx: the engine, and the guard of its middlewares. *)

Records == [at : {"new", "before check", "authenticate", "checked", "before can", "authorize", "answered"},
            type : Types \cup {"none"}, manager : Int, authorizer : {"none", "allows", "denies", "fails"},
            hooks : Nat, before : SUBSET Nat, after : SUBSET Nat, verdict : Verdicts \cup {"none", ""}, status : Nat]
Registrations == [at : {"new", "resolved", "unsupported", "done"}, manager : Int, type : Types \cup {"none"}, kept : BOOLEAN]
Manager(m) == m = Func \/ m = NoManager \/ m \in 1..Len(managers)

AuthTyped ==
  /\ managers \in Seq([Types -> Verdicts \cup {"none"}]) /\ authn \in Int /\ Manager(authn)
  /\ authz \in {"none", "allows", "denies", "fails"} /\ hooks \in Nat
  /\ req \in [Requests -> Records] /\ inForce \in [Requests -> SUBSET Int]
  /\ accepted \in [Requests -> BOOLEAN] /\ allowed \in [Requests -> BOOLEAN]
  /\ reg \in [Registrars -> Registrations]

\* Of a request under way it is known what could have let it in: what it copied was in
\* force, and is among what counts as accepting and allowing it.
Watched(r) ==
  UnderWay(r) =>
    /\ authn \in inForce[r] /\ req[r].manager \in inForce[r] /\ req[r].type \in Types
    /\ req[r].manager # NoManager /\ Manager(req[r].manager)
    /\ \A m \in inForce[r] : AcceptsType(managers, m, req[r].type) => accepted[r]
    /\ authz = "allows" => allowed[r]

\* How far a request is, and what it has found out.
Told(q) ==
  /\ q.at \in {"new", "before check", "authenticate"} => q.verdict = "" /\ q.authorizer = "none"
  /\ q.at = "checked" => q.verdict # "" /\ q.authorizer = "none"
  /\ q.at \in {"before can", "authorize"} => q.verdict = "accepts"
  /\ q.at # "answered" => q.status # 200
  /\ q.at = "answered" => /\ q.verdict \in {"none", "refuses"} => q.status = 401
                          /\ q.verdict = "empty" => q.status = 403
                          /\ q.status = 200 => q.verdict = "accepts" /\ q.authorizer = "allows"
\* The hooks it calls.
Hooked(q) ==
  /\ q.at \in {"authenticate", "authorize"} => q.before = 1..q.hooks
  /\ q.after # {} => q.after = q.before
Progress(q) == Told(q) /\ Hooked(q)

Grounded(r) ==
  /\ req[r].verdict = "accepts" => accepted[r]
  /\ req[r].authorizer = "allows" => allowed[r]

\* A provider is registered with the manager in force, unless that was replaced.
Registering(g) ==
  /\ reg[g].at = "resolved" => reg[g].manager \in 1..Len(managers) /\ reg[g].type \in Types
  /\ reg[g].at \in {"resolved", "done"} /\ reg[g].kept =>
       authn \in 1..Len(managers) /\ reg[g].manager = authn /\ reg[g].type \in Types
  /\ reg[g].at = "done" /\ reg[g].kept => managers[authn][reg[g].type] # "none"

AuthInv ==
  /\ AuthTyped
  /\ \A r \in Requests : Watched(r) /\ Progress(req[r]) /\ Grounded(r)
  /\ \A g \in Registrars : Registering(g)

\* No request has begun: the invariant holds of a new Engine.
LEMMA AuthStarts == AuthInit => AuthInv
  <1> SUFFICES ASSUME AuthInit PROVE AuthInv  OBVIOUS
  <1>1. NoRequest \in Records
    BY DEF NoRequest, Records, NoManager
  <1>2. req = [r \in Requests |-> NoRequest] /\ inForce = [r \in Requests |-> {}]
    BY DEF AuthInit
  <1>3. req \in [Requests -> Records] /\ inForce \in [Requests -> SUBSET Int]
    BY <1>1, <1>2
  <1>4. accepted \in [Requests -> BOOLEAN] /\ allowed \in [Requests -> BOOLEAN]
    BY DEF AuthInit
  <1>5. reg \in [Registrars -> Registrations] /\ \A g \in Registrars : reg[g].at = "new"
    BY DEF AuthInit, Registrations, NoManager
  <1>6. managers \in Seq([Types -> Verdicts \cup {"none"}]) /\ Manager(authn) /\ authn \in Int
    <2>1. [t \in Types |-> "accepts"] \in [Types -> Verdicts \cup {"none"}]
      BY DEF Verdicts
    <2>2. PICK f : f = [t \in Types |-> "accepts"]  OBVIOUS
    <2>3. \/ managers = <<>> /\ authn = NoManager
          \/ managers = <<f>> /\ authn = 1
      BY <2>2 DEF AuthInit
    <2>4. CASE managers = <<>> /\ authn = NoManager
      BY <2>4 DEF Manager, NoManager
    <2>5. CASE managers = <<f>> /\ authn = 1
      <3>1. f \in [Types -> Verdicts \cup {"none"}]
        BY <2>1, <2>2
      <3>2. managers \in Seq([Types -> Verdicts \cup {"none"}]) /\ Len(managers) = 1
        BY <2>5, <3>1
      <3> QED BY <2>5, <3>2 DEF Manager
    <2> QED BY <2>3, <2>4, <2>5
  <1>7. AuthTyped
    BY <1>3, <1>4, <1>5, <1>6 DEF AuthTyped, AuthInit
  <1>8. \A r \in Requests : Watched(r) /\ Progress(req[r]) /\ Grounded(r)
    <2>1. NoRequest.at = "new" /\ NoRequest.verdict = "" /\ NoRequest.authorizer = "none" /\ NoRequest.status # 200 /\ NoRequest.after = {}
      BY DEF NoRequest
    <2>2. Told(NoRequest) /\ Hooked(NoRequest)
      BY <2>1 DEF Told, Hooked
    <2> QED
      BY <1>2, <2>1, <2>2 DEF Watched, UnderWay, Progress, Grounded
  <1>9. \A g \in Registrars : Registering(g)
    BY <1>5 DEF Registering
  <1> QED BY <1>7, <1>8, <1>9 DEF AuthInv

\* What a change of the configuration does to what is known of a request.
LEMMA Witnessed ==
  ASSUME AuthTyped, NEW ms, NEW an \in Int, NEW az, Witness(ms, an, az)
  PROVE  /\ inForce' \in [Requests -> SUBSET Int] /\ accepted' \in [Requests -> BOOLEAN] /\ allowed' \in [Requests -> BOOLEAN]
         /\ \A r \in Requests :
              /\ accepted[r] => accepted'[r]
              /\ allowed[r] => allowed'[r]
              /\ UnderWay(r) => /\ an \in inForce'[r] /\ inForce[r] \subseteq inForce'[r]
                                /\ \A m \in inForce'[r] : AcceptsType(ms, m, req[r].type) => accepted'[r]
                                /\ az = "allows" => allowed'[r]
  <1>1. inForce' = [r \in Requests |-> IF UnderWay(r) THEN inForce[r] \cup {an} ELSE inForce[r]]
    BY DEF Witness
  <1>2. inForce' \in [Requests -> SUBSET Int]
    BY <1>1 DEF AuthTyped
  <1>3. accepted' = [r \in Requests |->
          accepted[r] \/ (UnderWay(r) /\ \E m \in inForce'[r] : AcceptsType(ms, m, req[r].type))]
    BY DEF Witness
  <1>4. allowed' = [r \in Requests |-> allowed[r] \/ (UnderWay(r) /\ az = "allows")]
    BY DEF Witness
  <1>5. accepted' \in [Requests -> BOOLEAN]
    BY <1>3, Zenon
  <1>6. allowed' \in [Requests -> BOOLEAN]
    BY <1>4, Zenon
  <1>7. \A r \in Requests : accepted'[r] <=>
          accepted[r] \/ (UnderWay(r) /\ \E m \in inForce'[r] : AcceptsType(ms, m, req[r].type))
    BY <1>3, Zenon
  <1>8. \A r \in Requests : allowed'[r] <=> allowed[r] \/ (UnderWay(r) /\ az = "allows")
    BY <1>4, Zenon
  <1>9. \A r \in Requests : UnderWay(r) => an \in inForce'[r] /\ inForce[r] \subseteq inForce'[r]
    BY <1>1
  <1> QED
    BY <1>2, <1>5, <1>6, <1>7, <1>8, <1>9

\* A change of the configuration keeps the invariant if managers are only added or get
\* providers, and the registrars' part is kept.
LEMMA Configured ==
  ASSUME AuthInv, req' = req, Witness(managers', authn', authz'),
         managers' \in Seq([Types -> Verdicts \cup {"none"}]), Len(managers') >= Len(managers),
         authn' \in Int, Manager(authn)', authz' \in {"none", "allows", "denies", "fails"}, hooks' \in Nat,
         reg' \in [Registrars -> Registrations], \A g \in Registrars : Registering(g)'
  PROVE  AuthInv'
  <1>0. AuthTyped
    BY DEF AuthInv
  <1>1. PICK ms, an, az : ms = managers' /\ an = authn' /\ az = authz'  OBVIOUS
  <1>2. Witness(ms, an, az) /\ an \in Int
    BY <1>1
  <1>3. /\ inForce' \in [Requests -> SUBSET Int] /\ accepted' \in [Requests -> BOOLEAN] /\ allowed' \in [Requests -> BOOLEAN]
        /\ \A r \in Requests :
              /\ accepted[r] => accepted'[r]
              /\ allowed[r] => allowed'[r]
              /\ UnderWay(r) => /\ an \in inForce'[r] /\ inForce[r] \subseteq inForce'[r]
                                /\ \A m \in inForce'[r] : AcceptsType(ms, m, req[r].type) => accepted'[r]
                                /\ az = "allows" => allowed'[r]
    BY <1>0, <1>2, Witnessed
  <1>4. AuthTyped'
    BY <1>0, <1>3 DEF AuthTyped
  <1>5. ASSUME NEW r \in Requests PROVE Watched(r)' /\ Progress(req[r])' /\ Grounded(r)'
    <2>0. Watched(r) /\ Progress(req[r]) /\ Grounded(r)
      BY DEF AuthInv
    <2>1. UnderWay(r)' <=> UnderWay(r)
      BY DEF UnderWay
    <2>2. ASSUME UnderWay(r)
          PROVE  /\ authn' \in inForce'[r] /\ req'[r].manager \in inForce'[r] /\ req'[r].type \in Types
                 /\ req'[r].manager # NoManager /\ Manager(req[r].manager)'
                 /\ \A m \in inForce'[r] : AcceptsType(managers', m, req'[r].type) => accepted'[r]
                 /\ authz' = "allows" => allowed'[r]
      <3>1. req[r].manager \in inForce[r] /\ req[r].type \in Types /\ req[r].manager # NoManager /\ Manager(req[r].manager)
        BY <2>0, <2>2 DEF Watched
      <3>2. Manager(req[r].manager)'
        <4>1. Len(managers) \in Nat /\ Len(managers') \in Nat
          BY <1>0 DEF AuthTyped
        <4> QED BY <3>1, <4>1 DEF Manager
      <3> QED BY <3>1, <3>2, <2>2, <1>1, <1>3
    <2>3. Watched(r)'
      BY <2>1, <2>2 DEF Watched
    <2>4. Grounded(r)'
      BY <2>0, <1>3 DEF Grounded
    <2>5. Progress(req[r])'
      <3>1. PICK q : q = req[r]  OBVIOUS
      <3>2. Progress(q) /\ req'[r] = q
        BY <3>1, <2>0
      <3>3. Progress(req'[r])
        BY <3>2
      <3> QED BY <3>3
    <2> QED BY <2>3, <2>4, <2>5
  <1> QED BY <1>4, <1>5 DEF AuthInv

\* RegisterProvider finds or makes the manager that is in force.
LEMMA RegistersProvider ==
  ASSUME AuthInv, NEW g \in Registrars, RegisterProvider(g)
  PROVE  AuthInv'
  <1>0. AuthTyped /\ \A h \in Registrars : Registering(h)
    BY DEF AuthInv
  <1>1. PICK t \in Types : resolveProviderRegistrar(g, t) /\ Witness(managers', authn', authz)
    BY DEF RegisterProvider
  <1>2. authz' = authz /\ hooks' = hooks /\ req' = req
    BY DEF RegisterProvider
  <1>3. NewManager \in [Types -> Verdicts \cup {"none"}]
    BY DEF NewManager
  <1>4. \/ authn = NoManager /\ managers' = Append(managers, NewManager) /\ authn' = Len(managers) + 1
        \/ authn # NoManager /\ managers' = managers /\ authn' = authn
    BY <1>1 DEF resolveProviderRegistrar
  <1>5. /\ managers' \in Seq([Types -> Verdicts \cup {"none"}]) /\ Len(managers') >= Len(managers)
        /\ authn' \in Int /\ Manager(authn)' /\ authn' # NoManager
        /\ Len(managers) \in Nat
        /\ \A i \in 1..Len(managers) : i \in 1..Len(managers') /\ managers'[i] = managers[i]
    <2>1. CASE managers' = managers /\ authn' = authn /\ authn # NoManager
      BY <2>1, <1>0 DEF AuthTyped, Manager
    <2>2. CASE managers' = Append(managers, NewManager) /\ authn' = Len(managers) + 1
      <3>1. PICK f : f = NewManager  OBVIOUS
      <3>2. managers' = Append(managers, f) /\ f \in [Types -> Verdicts \cup {"none"}] /\ managers \in Seq([Types -> Verdicts \cup {"none"}])
        BY <3>1, <2>2, <1>3, <1>0 DEF AuthTyped
      <3>3. Len(managers') = Len(managers) + 1 /\ Len(managers) \in Nat /\ managers' \in Seq([Types -> Verdicts \cup {"none"}])
            /\ \A i \in 1..Len(managers) : managers'[i] = managers[i]
        BY <3>2
      <3> QED BY <2>2, <3>3 DEF Manager, NoManager
    <2> QED BY <1>4, <2>1, <2>2
  <1>6. PICK e : e = [at |-> IF authn' = Func THEN "unsupported" ELSE "resolved", manager |-> authn', type |-> t, kept |-> TRUE]
    OBVIOUS
  <1>7. reg' = [reg EXCEPT ![g] = e]
    BY <1>1, <1>6 DEF resolveProviderRegistrar
  <1>8. e \in Registrations /\ e.at = (IF authn' = Func THEN "unsupported" ELSE "resolved") /\ e.manager = authn' /\ e.type = t
    BY <1>5, <1>6 DEF Registrations
  <1>9. reg \in [Registrars -> Registrations] /\ reg' \in [Registrars -> Registrations] /\ reg'[g] = e
        /\ \A h \in Registrars : h # g => reg'[h] = reg[h]
    BY <1>0, <1>7, <1>8 DEF AuthTyped
  <1>10. ASSUME NEW h \in Registrars PROVE Registering(h)'
    <2>1. CASE h = g
      <3>1. authn' # Func => authn' \in 1..Len(managers')
        BY <1>5 DEF Manager
      <3>2. e.at = "resolved" => authn' # Func
        BY <1>8
      <3> QED BY <2>1, <3>1, <3>2, <1>8, <1>9 DEF Registering
    <2>2. CASE h # g
      <3>1. reg'[h] = reg[h] /\ Registering(h)
        BY <2>2, <1>0, <1>9
      <3>2. authn \in 1..Len(managers) => authn' = authn
        BY <1>4 DEF NoManager
      <3> QED BY <3>1, <3>2, <1>5 DEF Registering
    <2> QED BY <2>1, <2>2
  <1>11. Witness(managers', authn', authz')
    BY <1>1, <1>2
  <1>12. authz' \in {"none", "allows", "denies", "fails"} /\ hooks' \in Nat
    BY <1>0, <1>2 DEF AuthTyped
  <1> QED
    BY <1>2, <1>5, <1>9, <1>10, <1>11, <1>12, Configured

\* A provider is registered with the manager that was resolved, whichever is in force.
LEMMA Registers ==
  ASSUME AuthInv, NEW g \in Registrars, Register(g)
  PROVE  AuthInv'
  <1>0. AuthTyped /\ \A h \in Registrars : Registering(h)
    BY DEF AuthInv
  <1>1. authn' = authn /\ authz' = authz /\ hooks' = hooks /\ req' = req /\ Witness(managers', authn', authz') /\ reg[g].at = "resolved"
    BY DEF Register
  <1>2. PICK v \in Verdicts : managers' = [managers EXCEPT ![reg[g].manager] = [@ EXCEPT ![reg[g].type] = v]]
    BY DEF Register
  <1>3. PICK n, t : n = reg[g].manager /\ t = reg[g].type  OBVIOUS
  <1>4. n \in 1..Len(managers) /\ t \in Types
    BY <1>0, <1>1, <1>3 DEF Registering
  <1>5. PICK f : f = [managers[n] EXCEPT ![t] = v]  OBVIOUS
  <1>6. managers' = [managers EXCEPT ![n] = f]
    BY <1>2, <1>3, <1>5
  <1>7. managers \in Seq([Types -> Verdicts \cup {"none"}]) /\ managers[n] \in [Types -> Verdicts \cup {"none"}]
    BY <1>0, <1>4 DEF AuthTyped
  <1>8. f \in [Types -> Verdicts \cup {"none"}] /\ f[t] = v /\ (\A u \in Types : u # t => f[u] = managers[n][u]) /\ v # "none"
    BY <1>4, <1>5, <1>7 DEF Verdicts
  <1>9. managers' \in Seq([Types -> Verdicts \cup {"none"}]) /\ Len(managers') = Len(managers)
        /\ managers'[n] = f /\ \A i \in 1..Len(managers) : i # n => managers'[i] = managers[i]
    BY <1>4, <1>6, <1>7, <1>8
  <1>10. /\ reg' = [reg EXCEPT ![g].at = "done"] /\ reg \in [Registrars -> Registrations]
    BY <1>0 DEF AuthTyped, Register
  <1>11. reg' \in [Registrars -> Registrations] /\ \A h \in Registrars : h # g => reg'[h] = reg[h]
    <2>1. PICK e : e = [reg[g] EXCEPT !.at = "done"]  OBVIOUS
    <2>2. e \in Registrations
      BY <2>1, <1>10 DEF Registrations
    <2>3. reg' = [reg EXCEPT ![g] = e]
      BY <2>1, <1>10
    <2> QED BY <2>2, <2>3, <1>10
  <1>12. reg'[g].at = "done" /\ reg'[g].manager = n /\ reg'[g].type = t /\ reg'[g].kept = reg[g].kept
    BY <1>3, <1>10 DEF Registrations
  <1>13. ASSUME NEW h \in Registrars PROVE Registering(h)'
    <2>1. CASE h = g
      <3>1. Registering(g)
        BY <1>0
      <3>2. reg[g].kept => authn = n
        BY <3>1, <1>1, <1>3 DEF Registering
      <3> QED BY <2>1, <3>2, <1>1, <1>4, <1>8, <1>9, <1>12 DEF Registering
    <2>2. CASE h # g
      <3>1. reg'[h] = reg[h] /\ Registering(h)
        BY <2>2, <1>0, <1>11
      <3>2. ASSUME NEW i \in 1..Len(managers), NEW u \in Types, managers[i][u] # "none" PROVE managers'[i][u] # "none"
        BY <3>2, <1>8, <1>9
      <3> QED BY <3>1, <3>2, <1>1, <1>9 DEF Registering
    <2> QED BY <2>1, <2>2
  <1>14. Len(managers) \in Nat /\ Len(managers') >= Len(managers)
    BY <1>7, <1>9
  <1>15. authn' \in Int /\ Manager(authn)' /\ authz' \in {"none", "allows", "denies", "fails"} /\ hooks' \in Nat
    BY <1>0, <1>1, <1>9 DEF AuthTyped, Manager
  <1> QED
    BY <1>1, <1>9, <1>11, <1>13, <1>14, <1>15, Configured

\* Replacing the manager or the authorizer is seen by every request under way.
LEMMA Sets ==
  ASSUME AuthInv, SetAuthenticationManager \/ SetAuthorizer
  PROVE  AuthInv'
  <1>0. AuthTyped /\ \A h \in Registrars : Registering(h)
    BY DEF AuthInv
  <1>1. Len(managers) \in Nat
    BY <1>0 DEF AuthTyped
  <1>2. CASE SetAuthenticationManager
    <2>1. authz' = authz /\ hooks' = hooks /\ req' = req /\ Witness(managers', authn', authz')
      BY <1>2 DEF SetAuthenticationManager
    <2>2. /\ managers' \in Seq([Types -> Verdicts \cup {"none"}]) /\ Len(managers') >= Len(managers)
          /\ authn' \in Int /\ Manager(authn)'
      <3>1. CASE authn' = Func /\ managers' = managers
        BY <3>1, <1>0, <1>1 DEF AuthTyped, Manager, Func
      <3>2. CASE authn' = Len(managers) + 1 /\ managers' = Append(managers, NewManager)
        <4>1. PICK f : f = NewManager  OBVIOUS
        <4>2. f \in [Types -> Verdicts \cup {"none"}]
          BY <4>1 DEF NewManager
        <4>3. managers' \in Seq([Types -> Verdicts \cup {"none"}]) /\ Len(managers') = Len(managers) + 1
          BY <3>2, <4>1, <4>2, <1>0 DEF AuthTyped
        <4> QED BY <3>2, <4>3, <1>1 DEF Manager
      <3> QED BY <3>1, <3>2, <1>2 DEF SetAuthenticationManager
    <2>3. reg' = [g \in Registrars |-> [reg[g] EXCEPT !.kept = FALSE]] /\ reg \in [Registrars -> Registrations]
      BY <1>0, <1>2 DEF SetAuthenticationManager, AuthTyped
    <2>4. ASSUME NEW g \in Registrars
          PROVE  /\ reg'[g] \in Registrations /\ reg'[g].at = reg[g].at /\ ~reg'[g].kept
                 /\ reg'[g].manager = reg[g].manager /\ reg'[g].type = reg[g].type
      <3>1. PICK e : e = [reg[g] EXCEPT !.kept = FALSE]  OBVIOUS
      <3>2. reg'[g] = e /\ reg[g] \in Registrations
        BY <3>1, <2>3
      <3>3. e \in Registrations
        BY <3>1, <3>2 DEF Registrations
      <3>4. e.at = reg[g].at /\ ~e.kept /\ e.manager = reg[g].manager /\ e.type = reg[g].type
        BY <3>1, <3>2 DEF Registrations
      <3> QED BY <3>2, <3>3, <3>4
    <2>5. reg' \in [Registrars -> Registrations]
      BY <2>3, <2>4
    <2>6. \A g \in Registrars : Registering(g)'
      <3>1. \A i \in 1..Len(managers) : i \in 1..Len(managers')
        BY <2>2, <1>1
      <3> QED BY <2>4, <3>1, <1>0 DEF Registering
    <2>7. authz' \in {"none", "allows", "denies", "fails"} /\ hooks' \in Nat
      BY <1>0, <2>1 DEF AuthTyped
    <2> QED
      BY <2>1, <2>2, <2>5, <2>6, <2>7, Configured
  <1>3. CASE SetAuthorizer
    <2>1. hooks' = hooks /\ req' = req /\ managers' = managers /\ authn' = authn /\ reg' = reg
      BY <1>3 DEF SetAuthorizer
    <2>2. Witness(managers', authn', authz')
      BY <1>3, <2>1 DEF SetAuthorizer
    <2>3. authz' \in {"none", "allows", "denies", "fails"}
      BY <1>3 DEF SetAuthorizer
    <2>4. \A g \in Registrars : Registering(g)'
      BY <1>0, <2>1 DEF Registering
    <2>5. Manager(authn)'
      BY <1>0, <2>1 DEF AuthTyped, Manager
    <2>6. managers' \in Seq([Types -> Verdicts \cup {"none"}]) /\ Len(managers') >= Len(managers)
          /\ authn' \in Int /\ hooks' \in Nat /\ reg' \in [Registrars -> Registrations]
      BY <1>0, <1>1, <2>1 DEF AuthTyped
    <2> QED
      BY <2>1, <2>2, <2>3, <2>4, <2>5, <2>6, Configured
  <1> QED BY <1>2, <1>3

\* A step of a request that is under way, or ends it.
LEMMA RequestMoves ==
  ASSUME AuthInv, NEW r \in Requests, UNCHANGED <<engineVars, inForce, accepted, allowed, reg>>,
         NEW q \in Records, req' = [req EXCEPT ![r] = q], Progress(q), q.at # "new",
         q.at # "answered" => UnderWay(r) /\ q.manager = req[r].manager /\ q.type = req[r].type,
         q.verdict = "accepts" => accepted[r],
         q.authorizer = "allows" => allowed[r]
  PROVE  AuthInv'
  <1>0. AuthTyped /\ \A h \in Registrars : Registering(h)
    BY DEF AuthInv
  <1>1. managers' = managers /\ authn' = authn /\ authz' = authz /\ hooks' = hooks
        /\ inForce' = inForce /\ accepted' = accepted /\ allowed' = allowed /\ reg' = reg
    BY DEF engineVars
  <1>2. req' \in [Requests -> Records] /\ req'[r] = q /\ \A o \in Requests : o # r => req'[o] = req[o]
    BY <1>0 DEF AuthTyped
  <1>3. AuthTyped'
    BY <1>0, <1>1, <1>2 DEF AuthTyped, Manager
  <1>4. \A g \in Registrars : Registering(g)'
    BY <1>0, <1>1 DEF Registering
  <1>5. ASSUME NEW o \in Requests PROVE Watched(o)' /\ Progress(req[o])' /\ Grounded(o)'
    <2>0. Watched(o) /\ Progress(req[o]) /\ Grounded(o) /\ Watched(r)
      BY DEF AuthInv
    <2>1. CASE o = r
      <3>1. Progress(req'[o])
        BY <2>1, <1>2
      <3>2. Grounded(o)'
        BY <2>1, <1>1, <1>2 DEF Grounded
      <3>3. Watched(o)'
        <4>1. UnderWay(r)' => UnderWay(r) /\ q.manager = req[r].manager /\ q.type = req[r].type
          BY <1>2 DEF UnderWay
        <4> QED BY <4>1, <2>0, <2>1, <1>1, <1>2 DEF Watched, Manager, AcceptsType
      <3> QED BY <3>1, <3>2, <3>3
    <2>2. CASE o # r
      <3>1. PICK n : n = req[o]  OBVIOUS
      <3>2. Progress(n) /\ req'[o] = n
        BY <3>1, <2>0, <2>2, <1>2
      <3>3. Progress(req'[o])
        BY <3>2
      <3>4. Grounded(o)'
        BY <2>0, <3>1, <3>2, <1>1 DEF Grounded
      <3>5. Watched(o)'
        <4>1. UnderWay(o)' <=> UnderWay(o)
          BY <3>1, <3>2 DEF UnderWay
        <4> QED BY <4>1, <2>0, <3>1, <3>2, <1>1 DEF Watched, Manager, AcceptsType
      <3> QED BY <3>3, <3>4, <3>5
    <2> QED BY <2>1, <2>2
  <1> QED BY <1>3, <1>4, <1>5 DEF AuthInv

\* No error is answered as a success.
LEMMA ErrorStatus == \A err : StatusCodeFromError(err) \in {500, 401, 403}
  BY DEF StatusCodeFromError

\* The hooks of a copy are counted from 1.
LEMMA UpToNat == \A n \in Nat : 1..n \in SUBSET Nat
  OBVIOUS

\* A request that is refused has not been served.
LEMMA Refused ==
  ASSUME AuthInv, NEW r \in Requests, UNCHANGED <<engineVars, inForce, accepted, allowed, reg>>, NEW err, Refuse(r, err),
         req[r].at # "answered",
         req[r].verdict \in {"none", "refuses"} => StatusCodeFromError(err) = 401,
         req[r].verdict = "empty" => StatusCodeFromError(err) = 403
  PROVE  AuthInv'
  <1>0. AuthTyped /\ Progress(req[r]) /\ Grounded(r)
    BY DEF AuthInv
  <1>1. PICK c : c = StatusCodeFromError(err)  OBVIOUS
  <1>2. c \in Nat /\ c # 200
    BY <1>1, ErrorStatus
  <1>3. PICK q : q = [req[r] EXCEPT !.at = "answered", !.status = c]  OBVIOUS
  <1>4. req[r] \in Records /\ req' = [req EXCEPT ![r] = q]
    BY <1>0, <1>1, <1>3 DEF AuthTyped, Refuse
  <1>5. q \in Records
    BY ZenonT(60), <1>2, <1>3, <1>4 DEF Records
  <1>6. q.at = "answered" /\ q.status = c /\ q.verdict = req[r].verdict /\ q.authorizer = req[r].authorizer
        /\ q.before = req[r].before /\ q.after = req[r].after
    BY <1>3, <1>4 DEF Records
  <1>7. Progress(q)
    <2>1. Told(q)
      BY <1>1, <1>2, <1>6 DEF Told
    <2>2. Hooked(q)
      BY <1>0, <1>1, <1>2, <1>6 DEF Progress, Hooked
    <2> QED BY <2>1, <2>2 DEF Progress
  <1> QED
    BY ZenonT(60), <1>0, <1>4, <1>5, <1>6, <1>7, RequestMoves DEF Grounded

\* A request begins with what is in force at that moment.
LEMMA Checks ==
  ASSUME AuthInv, NEW r \in Requests, Check(r)
  PROVE  AuthInv'
  <1>0. AuthTyped /\ Progress(req[r]) /\ Grounded(r) /\ \A h \in Registrars : Registering(h)
    BY DEF AuthInv
  <1>1. managers' = managers /\ authn' = authn /\ authz' = authz /\ hooks' = hooks /\ reg' = reg /\ req[r].at = "new"
        /\ UNCHANGED <<engineVars, reg>>
    BY DEF Check, engineVars
  <1>2. CASE \E err \in {{"InvalidCredential"}, {}} : Refuse(r, err) /\ UNCHANGED <<inForce, accepted, allowed>>
    <2>1. PICK err \in {{"InvalidCredential"}, {}} : Refuse(r, err) /\ UNCHANGED <<inForce, accepted, allowed>>
      BY <1>2
    <2>2. req[r].verdict = ""
      BY <1>0, <1>1 DEF Progress, Told
    <2> QED BY <1>1, <2>1, <2>2, Refused
  <1>3. ASSUME NEW t \in Types,
               inForce' = [inForce EXCEPT ![r] = {authn}],
               accepted' = [accepted EXCEPT ![r] = AcceptsType(managers, authn, t)],
               allowed' = [allowed EXCEPT ![r] = authz = "allows"],
               NEW q, req' = [req EXCEPT ![r] = q],
               \/ /\ authn = NoManager
                  /\ q = [NoRequest EXCEPT !.at = "answered", !.type = t, !.status = StatusCodeFromError({"ManagerNotConfigured"})]
               \/ /\ authn # NoManager
                  /\ q = [NoRequest EXCEPT !.at = "before check", !.type = t, !.manager = authn, !.hooks = hooks]
        PROVE  AuthInv'
    <2>1. PICK c : c = StatusCodeFromError({"ManagerNotConfigured"})  OBVIOUS
    <2>2. c \in Nat /\ c # 200
      BY <2>1, ErrorStatus
    <2>3. authn \in Int /\ hooks \in Nat
      BY <1>0 DEF AuthTyped
    <2> DEFINE Start(x) ==
          /\ x \in Records /\ Told(x) /\ Hooked(x) /\ x.verdict = "" /\ x.authorizer = "none" /\ x.type = t
          /\ x.at # "answered" => x.manager = authn /\ authn # NoManager
    <2>3a. ASSUME authn = NoManager PROVE Start(q)
      <3>1. q = [at |-> "answered", type |-> t, manager |-> NoManager, authorizer |-> "none", hooks |-> 0,
                 before |-> {}, after |-> {}, verdict |-> "", status |-> c]
        BY <1>3, <2>1, <2>3a DEF NoRequest
      <3>2. q \in Records
        <4>1. NoManager \in Int /\ 0 \in Nat
          BY DEF NoManager
        <4> QED BY <2>2, <3>1, <4>1 DEF Records
      <3>3. q.at = "answered" /\ q.verdict = "" /\ q.authorizer = "none" /\ q.type = t /\ q.status = c /\ q.after = {}
        BY <3>1
      <3>4. Told(q) /\ Hooked(q)
        BY <2>2, <3>3 DEF Told, Hooked
      <3> QED BY <3>2, <3>3, <3>4
    <2>3b. ASSUME authn # NoManager PROVE Start(q)
      <3>1. q = [at |-> "before check", type |-> t, manager |-> authn, authorizer |-> "none", hooks |-> hooks,
                 before |-> {}, after |-> {}, verdict |-> "", status |-> 0]
        BY <1>3, <2>3b DEF NoRequest
      <3>2. q \in Records
        BY <2>3, <3>1 DEF Records
      <3>3. q.at = "before check" /\ q.verdict = "" /\ q.authorizer = "none" /\ q.type = t /\ q.status # 200 /\ q.after = {}
            /\ q.manager = authn
        <4>1. q.at = "before check" /\ q.verdict = "" /\ q.authorizer = "none" /\ q.type = t /\ q.status = 0 /\ q.after = {}
              /\ q.manager = authn
          BY <3>1
        <4>2. \A n : n = 0 => n # 200
          OBVIOUS
        <4> QED BY <4>1, <4>2
      <3>4. Told(q) /\ Hooked(q)
        BY <3>3 DEF Told, Hooked
      <3> QED BY <3>2, <3>3, <3>4, <2>3b
    <2>4. Start(q)
      BY <2>3a, <2>3b
    <2>5. q \in Records /\ Progress(q) /\ q.verdict = "" /\ q.authorizer = "none" /\ q.type = t
          /\ (q.at # "answered" => q.manager = authn /\ authn # NoManager)
      BY <2>4 DEF Progress
    <2>6. inForce' \in [Requests -> SUBSET Int] /\ inForce'[r] = {authn} /\ \A o \in Requests : o # r => inForce'[o] = inForce[o]
      BY <1>0, <1>3 DEF AuthTyped
    <2>7. accepted' \in [Requests -> BOOLEAN] /\ (accepted'[r] <=> AcceptsType(managers, authn, t))
          /\ \A o \in Requests : o # r => accepted'[o] = accepted[o]
      <3>1. AcceptsType(managers, authn, t) \in BOOLEAN
        BY DEF AcceptsType
      <3> QED BY <3>1, <1>0, <1>3, Zenon DEF AuthTyped
    <2>8. allowed' \in [Requests -> BOOLEAN] /\ (allowed'[r] <=> authz = "allows")
          /\ \A o \in Requests : o # r => allowed'[o] = allowed[o]
      BY <1>0, <1>3, Zenon DEF AuthTyped
    <2>9. req' \in [Requests -> Records] /\ req'[r] = q /\ \A o \in Requests : o # r => req'[o] = req[o]
      BY <1>0, <1>3, <2>5 DEF AuthTyped
    <2>10. AuthTyped'
      BY <1>0, <1>1, <2>6, <2>7, <2>8, <2>9 DEF AuthTyped, Manager
    <2>11. \A g \in Registrars : Registering(g)'
      BY <1>0, <1>1 DEF Registering
    <2>12. ASSUME NEW o \in Requests PROVE Watched(o)' /\ Progress(req[o])' /\ Grounded(o)'
      <3>0. Watched(o) /\ Progress(req[o]) /\ Grounded(o)
        BY DEF AuthInv
      <3>1. CASE o = r
        <4>1. Progress(req'[o])
          BY <3>1, <2>5, <2>9
        <4>2. Grounded(o)'
          BY <3>1, <2>5, <2>9 DEF Grounded
        <4>3. Watched(o)'
          <5>1. UnderWay(r)' => q.at # "answered"
            BY <2>9 DEF UnderWay
          <5>2. Manager(authn)
            BY <1>0 DEF AuthTyped
          <5> QED BY <5>1, <5>2, <3>1, <2>5, <2>6, <2>7, <2>8, <2>9, <1>1 DEF Watched, Manager
        <4> QED BY <4>1, <4>2, <4>3
      <3>2. CASE o # r
        <4>1. PICK n : n = req[o]  OBVIOUS
        <4>2. Progress(n) /\ req'[o] = n
          BY <4>1, <3>0, <3>2, <2>9
        <4>3. Progress(req'[o])
          BY <4>2
        <4>4. inForce'[o] = inForce[o] /\ accepted'[o] = accepted[o] /\ allowed'[o] = allowed[o]
          BY <3>2, <2>6, <2>7, <2>8
        <4>5. Grounded(o)'
          BY <3>0, <4>1, <4>2, <4>4 DEF Grounded
        <4>6. Watched(o)'
          <5>1. UnderWay(o)' <=> UnderWay(o)
            BY <4>1, <4>2 DEF UnderWay
          <5> QED BY <5>1, <3>0, <4>1, <4>2, <4>4, <1>1 DEF Watched, Manager, AcceptsType
        <4> QED BY <4>3, <4>5, <4>6
      <3> QED BY <3>1, <3>2
    <2> QED BY <2>10, <2>11, <2>12 DEF AuthInv
  <1> QED
    BY <1>2, <1>3 DEF Check

\* The hooks before a check are those of its copy.
LEMMA RunsBefore ==
  ASSUME AuthInv, NEW r \in Requests,
         RunBefore(r, "before check", "authenticate") \/ RunBefore(r, "before can", "authorize")
  PROVE  AuthInv'
  <1>0. AuthTyped /\ Progress(req[r]) /\ Grounded(r) /\ req[r] \in Records
    BY DEF AuthInv, AuthTyped
  <1>1. PICK to \in {"authenticate", "authorize"} :
          /\ req[r].at = (IF to = "authenticate" THEN "before check" ELSE "before can")
          /\ \/ AuthGoto(r, [req[r] EXCEPT !.at = to, !.before = 1..req[r].hooks, !.after = {}])
             \/ req[r].hooks > 0 /\ Refuse(r, {})
          /\ UNCHANGED <<engineVars, inForce, accepted, allowed, reg>>
    BY DEF RunBefore
  <1>2. req[r].verdict = (IF to = "authenticate" THEN "" ELSE "accepts") /\ req[r].status # 200 /\ UnderWay(r)
        /\ (to = "authenticate" => req[r].authorizer = "none")
    BY ZenonT(60), <1>0, <1>1 DEF Progress, Told, UnderWay
  <1>3. CASE Refuse(r, {})
    BY <1>1, <1>2, <1>3, Refused
  <1>4. CASE AuthGoto(r, [req[r] EXCEPT !.at = to, !.before = 1..req[r].hooks, !.after = {}])
    <2>1. PICK q : q = [req[r] EXCEPT !.at = to, !.before = 1..req[r].hooks, !.after = {}]  OBVIOUS
    <2>2. req' = [req EXCEPT ![r] = q]
      BY <1>4, <2>1 DEF AuthGoto
    <2>3. req[r].hooks \in Nat
      BY <1>0 DEF Records
    <2>4. 1..req[r].hooks \in SUBSET Nat
      BY <2>3, UpToNat
    <2>5. q \in Records
      BY <1>0, <1>1, <2>1, <2>4 DEF Records
    <2>6. q.at = to /\ q.before = 1..req[r].hooks /\ q.after = {} /\ q.verdict = req[r].verdict
          /\ q.authorizer = req[r].authorizer /\ q.status = req[r].status /\ q.manager = req[r].manager
          /\ q.type = req[r].type /\ q.hooks = req[r].hooks
      BY <1>0, <2>1 DEF Records
    <2>7. Progress(q)
      <3>1. Told(q)
        BY ZenonT(60), <1>2, <2>6 DEF Told
      <3>2. Hooked(q)
        BY <1>0, <1>1, <1>2, <2>6 DEF Progress, Hooked
      <3> QED BY <3>1, <3>2 DEF Progress
    <2> QED BY ZenonT(60), <1>0, <1>1, <1>2, <2>2, <2>5, <2>6, <2>7, RequestMoves DEF Grounded
  <1> QED BY <1>1, <1>3, <1>4

\* What a manager accepts was accepted while it was in force.
LEMMA Authenticates ==
  ASSUME AuthInv, NEW r \in Requests, Authenticate(r)
  PROVE  AuthInv'
  <1>0. AuthTyped /\ Progress(req[r]) /\ Grounded(r) /\ req[r] \in Records /\ Watched(r)
    BY DEF AuthInv, AuthTyped
  <1>1. req[r].at = "authenticate" /\ AfterCheck(r, Lookup(r)) /\ UNCHANGED <<engineVars, inForce, accepted, allowed, reg>>
    BY DEF Authenticate
  <1>2. UnderWay(r) /\ req[r].verdict = "" /\ req[r].authorizer = "none" /\ req[r].before = 1..req[r].hooks /\ req[r].status # 200
    BY <1>0, <1>1 DEF Progress, Told, Hooked, UnderWay
  <1>3. PICK v : v = Lookup(r)  OBVIOUS
  <1>4. req[r].type \in Types /\ (req[r].manager = Func \/ req[r].manager \in 1..Len(managers)) /\ req[r].manager \in inForce[r]
    BY <1>0, <1>2 DEF Watched, Manager
  <1>5. v \in Verdicts \cup {"none"} /\ v # ""
    <2>1. CASE req[r].manager = Func
      BY <2>1, <1>3 DEF Lookup, Verdicts
    <2>2. CASE req[r].manager # Func
      <3>1. managers[req[r].manager] \in [Types -> Verdicts \cup {"none"}]
        BY <2>2, <1>0, <1>4 DEF AuthTyped
      <3> QED BY <3>1, <2>2, <1>3, <1>4 DEF Lookup, Verdicts
    <2> QED BY <2>1, <2>2
  <1>6. v = "accepts" => accepted[r]
    <2>1. v = "accepts" => AcceptsType(managers, req[r].manager, req[r].type)
      BY <1>3, <1>4 DEF Lookup, AcceptsType
    <2> QED BY <2>1, <1>0, <1>2, <1>4 DEF Watched
  <1>7. PICK q : q = [req[r] EXCEPT !.at = "checked", !.after = 1..req[r].hooks, !.verdict = v]  OBVIOUS
  <1>8. req' = [req EXCEPT ![r] = q]
    BY <1>1, <1>3, <1>7 DEF AfterCheck, AuthGoto
  <1>9. req[r].hooks \in Nat
    BY <1>0 DEF Records
  <1>10. 1..req[r].hooks \in SUBSET Nat
    BY <1>9, UpToNat
  <1>11. q \in Records
    BY <1>0, <1>5, <1>7, <1>10 DEF Records
  <1>12. q.at = "checked" /\ q.before = req[r].before /\ q.after = 1..req[r].hooks /\ q.verdict = v
          /\ q.authorizer = req[r].authorizer /\ q.status = req[r].status /\ q.manager = req[r].manager
          /\ q.type = req[r].type /\ q.hooks = req[r].hooks
    BY <1>0, <1>7 DEF Records
  <1>13. Progress(q)
    <2>1. Told(q)
      BY ZenonT(60), <1>2, <1>5, <1>12 DEF Progress, Told
    <2>2. Hooked(q)
      BY <1>2, <1>5, <1>12 DEF Progress, Hooked
    <2> QED BY <2>1, <2>2 DEF Progress
  <1> QED BY <1>1, <1>2, <1>6, <1>8, <1>11, <1>12, <1>13, RequestMoves

\* Only what was accepted with a principal goes on to the authorizer.
LEMMA AsksCan ==
  ASSUME AuthInv, NEW r \in Requests, Can(r)
  PROVE  AuthInv'
  <1>0. AuthTyped /\ Progress(req[r]) /\ Grounded(r) /\ req[r] \in Records /\ Watched(r)
    BY DEF AuthInv, AuthTyped
  <1>1. req[r].at = "checked" /\ UNCHANGED <<engineVars, inForce, accepted, allowed, reg>>
    BY DEF Can
  <1>2. UnderWay(r) /\ req[r].verdict # "" /\ req[r].authorizer = "none" /\ req[r].status # 200
    BY <1>0, <1>1 DEF Progress, Told, UnderWay
  <1>3. req[r].verdict \in {"none", "refuses", "empty", "accepts"}
    BY <1>0, <1>2 DEF Records, Verdicts
  <1>4. CASE req[r].verdict # "accepts"
    <2>1. CheckError(r) = (IF req[r].verdict = "none" THEN {"ProviderNotFound"}
                           ELSE IF req[r].verdict = "refuses" THEN {"Unauthenticated"} ELSE {"PrincipalNotFound"})
      BY <1>3, <1>4 DEF CheckError, principalFromResult
    <2>2. PICK err : err = CheckError(r)  OBVIOUS
    <2>3. Refuse(r, err)
      BY <2>1, <2>2 DEF Can
    <2>4. /\ StatusCodeFromError({"ProviderNotFound"}) = 401 /\ StatusCodeFromError({"Unauthenticated"}) = 401
          /\ StatusCodeFromError({"PrincipalNotFound"}) = 403
      BY DEF StatusCodeFromError
    <2>5. /\ req[r].verdict \in {"none", "refuses"} => StatusCodeFromError(err) = 401
          /\ req[r].verdict = "empty" => StatusCodeFromError(err) = 403
      BY <1>3, <1>4, <2>1, <2>2, <2>4
    <2> QED BY <1>1, <2>3, <2>5, Refused
  <1>5. CASE req[r].verdict = "accepts"
    <2>1. CheckError(r) = {}
      BY <1>5 DEF CheckError, principalFromResult
    <2>2. ASSUME NEW err, Refuse(r, err) PROVE AuthInv'
      BY <2>2, <1>1, <1>5, Refused
    <2>3. CASE authz # "none" /\ AuthGoto(r, [req[r] EXCEPT !.at = "before can", !.authorizer = authz, !.hooks = hooks])
      <3>1. PICK q : q = [req[r] EXCEPT !.at = "before can", !.authorizer = authz, !.hooks = hooks]  OBVIOUS
      <3>2. req' = [req EXCEPT ![r] = q]
        BY <2>3, <3>1 DEF AuthGoto
      <3>3. q \in Records
        BY <1>0, <3>1 DEF Records, AuthTyped
      <3>4. q.at = "before can" /\ q.before = req[r].before /\ q.after = req[r].after /\ q.verdict = req[r].verdict
            /\ q.authorizer = authz /\ q.status = req[r].status /\ q.manager = req[r].manager
            /\ q.type = req[r].type
        BY <1>0, <3>1 DEF Records
      <3>5. Progress(q)
        <4>1. Told(q)
          BY <1>2, <1>5, <3>4 DEF Told
        <4>2. Hooked(q)
          BY ZenonT(60), <1>0, <1>2, <1>5, <3>4 DEF Progress, Hooked
        <4> QED BY <4>1, <4>2 DEF Progress
      <3>6. authz = "allows" => allowed[r]
        BY <1>0, <1>2 DEF Watched
      <3> QED BY <1>0, <1>1, <1>2, <3>2, <3>3, <3>4, <3>5, <3>6, RequestMoves DEF Grounded
    <2> QED BY <2>1, <2>2, <2>3 DEF Can
  <1> QED BY <1>4, <1>5

\* Only an authorizer that was in force and allows gives 200.
LEMMA Authorizes ==
  ASSUME AuthInv, NEW r \in Requests, Authorize(r)
  PROVE  AuthInv'
  <1>0. AuthTyped /\ Progress(req[r]) /\ Grounded(r) /\ req[r] \in Records
    BY DEF AuthInv, AuthTyped
  <1>1. req[r].at = "authorize" /\ UNCHANGED <<engineVars, inForce, accepted, allowed, reg>>
    BY DEF Authorize
  <1>2. req[r].verdict = "accepts" /\ req[r].before = 1..req[r].hooks
    BY <1>0, <1>1 DEF Progress, Told, Hooked
  <1>3. PICK c : c = Answer(r)  OBVIOUS
  <1>4. c \in Nat /\ (c = 200 => req[r].authorizer = "allows")
    <2>1. StatusCodeFromError({}) \in {500, 401, 403}
      BY ErrorStatus
    <2> QED BY <1>3, <2>1 DEF Answer
  <1>5. PICK q : q = [req[r] EXCEPT !.at = "answered", !.after = 1..req[r].hooks, !.status = c]  OBVIOUS
  <1>6. req' = [req EXCEPT ![r] = q]
    BY <1>3, <1>5 DEF Authorize, AuthGoto
  <1>7. req[r].hooks \in Nat
    BY <1>0 DEF Records
  <1>8. 1..req[r].hooks \in SUBSET Nat
    BY <1>7, UpToNat
  <1>9. q \in Records
    BY <1>0, <1>4, <1>5, <1>8 DEF Records
  <1>10. q.at = "answered" /\ q.before = req[r].before /\ q.after = 1..req[r].hooks /\ q.verdict = req[r].verdict
         /\ q.authorizer = req[r].authorizer /\ q.status = c
    BY <1>0, <1>5 DEF Records
  <1>11. Progress(q)
    <2>1. Told(q)
      BY <1>2, <1>4, <1>10 DEF Progress, Told
    <2>2. Hooked(q)
      BY <1>2, <1>4, <1>10 DEF Progress, Hooked
    <2> QED BY <2>1, <2>2 DEF Progress
  <1> QED BY <1>0, <1>1, <1>6, <1>9, <1>10, <1>11, RequestMoves DEF Grounded

\* Every step of the engine and the guard keeps the invariant.
LEMMA AuthStep == AuthInv /\ [AuthNext]_authVars => AuthInv'
  <1> SUFFICES ASSUME AuthInv, [AuthNext]_authVars PROVE AuthInv'  OBVIOUS
  <1>1. CASE RegisterHook
    <2>1. hooks' \in Nat
      BY <1>1 DEF RegisterHook, AuthInv, AuthTyped
    <2>2. managers' = managers /\ authn' = authn /\ authz' = authz /\ req' = req /\ reg' = reg
          /\ inForce' = inForce /\ accepted' = accepted /\ allowed' = allowed
      BY <1>1 DEF RegisterHook
    <2>3. AuthTyped'
      BY <2>1, <2>2 DEF AuthInv, AuthTyped, Manager
    <2>4. ASSUME NEW r \in Requests PROVE Watched(r)' /\ Progress(req'[r]) /\ Grounded(r)'
      BY <2>2 DEF AuthInv, Watched, Grounded, UnderWay, Manager, AcceptsType
    <2>5. \A g \in Registrars : Registering(g)'
      BY <2>2 DEF AuthInv, Registering
    <2> QED BY <2>3, <2>4, <2>5 DEF AuthInv
  <1>2. CASE UNCHANGED authVars
    <2>2. managers' = managers /\ authn' = authn /\ authz' = authz /\ req' = req /\ reg' = reg
          /\ inForce' = inForce /\ accepted' = accepted /\ allowed' = allowed /\ hooks' = hooks
      BY <1>2 DEF authVars, engineVars
    <2>3. AuthTyped'
      BY <2>2 DEF AuthInv, AuthTyped, Manager
    <2>4. ASSUME NEW r \in Requests PROVE Watched(r)' /\ Progress(req'[r]) /\ Grounded(r)'
      BY <2>2 DEF AuthInv, Watched, Grounded, UnderWay, Manager, AcceptsType
    <2>5. \A g \in Registrars : Registering(g)'
      BY <2>2 DEF AuthInv, Registering
    <2> QED BY <2>3, <2>4, <2>5 DEF AuthInv
  <1> QED
    BY <1>1, <1>2, Sets, RegistersProvider, Registers, Checks, RunsBefore, Authenticates, AsksCan, Authorizes DEF AuthNext

\* The invariant says what AuthExact says.
LEMMA AuthImplies == AuthInv => AuthExact
  <1> SUFFICES ASSUME AuthInv PROVE AuthExact  OBVIOUS
  <1>1. \A r \in Requests : Progress(req[r]) /\ Grounded(r)
    BY DEF AuthInv
  <1>2. HooksPaired
    BY <1>1 DEF HooksPaired, Progress, Hooked
  <1>3. StatusFaithful
    BY ZenonT(60), <1>1 DEF StatusFaithful, Progress, Told
  <1>4. ServedOnlyIfAllowed
    <2> SUFFICES ASSUME NEW r \in Requests, req[r].status = 200 PROVE accepted[r] /\ allowed[r]
      BY DEF ServedOnlyIfAllowed
    <2>1. req[r].at = "answered"
      BY <1>1 DEF Progress, Told
    <2>2. req[r].verdict = "accepts" /\ req[r].authorizer = "allows"
      BY <2>1, <1>1 DEF Progress, Told
    <2> QED BY <2>2, <1>1 DEF Grounded
  <1>5. RegisteredFound
    BY DEF AuthInv, AuthTyped, Registering, RegisteredFound
  <1> QED BY <1>2, <1>3, <1>4, <1>5 DEF AuthExact

\* AuthExact, in every behaviour, for any number of requests and registrars: requests are
\* served only if a manager and an authorizer that were in force meanwhile let them in,
\* hooks are called in pairs, what was registered is found, and refusals have their status.
THEOREM AuthExactAlways == Spec => []AuthExact
  <1>1. Init => AuthInv
    BY AuthStarts DEF Init
  <1>2. [Next]_vars => [AuthNext]_authVars
    BY DEF Next, vars, authVars
  <1>3. AuthInv /\ [Next]_vars => AuthInv'
    BY <1>2, AuthStep
  <1> QED
    BY <1>1, <1>3, AuthImplies, PTL DEF Spec

-----------------------------------------------------------------------------
(* dix: the walk over the import graph. *)

Boot == pass = "bootstrap"
Frames == [mod : Mods \cup {Root}, next : Nat]
Kid(m, j) == Children(m)[j]

WalkTyped ==
  /\ app \in AppRecords /\ pass \in {"bootstrap", "main", "done", "failed"}
  /\ path \in Seq(Frames) /\ flat \in Seq(Mods) /\ visited \subseteq Mods /\ known \subseteq Mods

\* The modules being visited are a chain of active imports from the App down, each once
\* and none of them visited.
PathChained ==
  /\ 1 <= Len(path) /\ path[1].mod = Root
  /\ \A i \in 2..Len(path) : path[i].mod \in Mods /\ path[i].mod \notin visited
  /\ \A i, j \in 2..Len(path) : path[i].mod = path[j].mod => i = j
  /\ \A i \in 1..Len(path) : 1 <= path[i].next /\ path[i].next <= Len(Children(path[i].mod)) + 1
  /\ \A i \in 1..Len(path) : i < Len(path) =>
       1 < path[i].next /\ path[i + 1].mod = Kid(path[i].mod, path[i].next - 1) /\ ActiveIn(Boot, path[i + 1].mod)

\* The imports a module has been through are visited, except the one being visited.
ImportsDone ==
  \A i \in 1..Len(path) : \A j \in 1..(path[i].next - 1) :
    ActiveIn(Boot, Kid(path[i].mod, j)) => Kid(path[i].mod, j) \in visited \/ (i < Len(path) /\ j = path[i].next - 1)

\* The list: what was visited, each once, after its active imports.
InOrder ==
  /\ visited = {flat[i] : i \in 1..Len(flat)}
  /\ \A i, j \in 1..Len(flat) : flat[i] = flat[j] => i = j
  /\ \A i \in 1..Len(flat) : \A j \in 1..Len(Children(flat[i])) :
       ActiveIn(Boot, Kid(flat[i], j)) => \E l \in 1..Len(flat) : l < i /\ flat[l] = Kid(flat[i], j)

\* All that was met can be reached, and has a name of its own.
MetReachable ==
  /\ known = visited \cup Visiting
  /\ \A m, n \in known : ~SameName(m, n)
  /\ \A S \in SUBSET Mods : Closed(Boot, S) => known \subseteq S

WalkSound == PathChained /\ ImportsDone /\ InOrder /\ MetReachable

-----------------------------------------------------------------------------
LEMMA ChildrenTyped ==
  ASSUME app \in AppRecords, NEW m \in Mods \cup {Root}
  PROVE  Children(m) \in Seq(Mods) /\ Len(Children(m)) \in Nat /\ \A j \in 1..Len(Children(m)) : Kid(m, j) \in Mods
  <1>1. app.roots \in Seq(Mods) /\ app.imports \in [Mods -> Seq(Mods)]
    BY DEF AppRecords
  <1>2. Children(m) \in Seq(Mods)
    BY <1>1 DEF Children
  <1> QED BY <1>2 DEF Kid

\* The active imports of a module, by their places.
LEMMA ActiveKids ==
  ASSUME app \in AppRecords, NEW m \in Mods \cup {Root}, NEW boot
  PROVE  \A x : x \in ActiveChildren(boot, m) <=> \E j \in 1..Len(Children(m)) : x = Kid(m, j) /\ ActiveIn(boot, x)
  <1>1. DOMAIN Children(m) = 1..Len(Children(m))
    BY ChildrenTyped
  <1> QED BY <1>1 DEF ActiveChildren, Kid

\* The next place of the module at the end of the path.
LEMMA RestOfPath ==
  ASSUME path \in Seq(Frames), 1 <= Len(path)
  PROVE  /\ Rest \in Seq(Frames) /\ Len(Rest) = Len(path) /\ Len(path) \in 1..Len(path)
         /\ \A i \in 1..Len(path) : Rest[i].mod = path[i].mod
         /\ \A i \in 1..Len(path) : Rest[i].next = IF i = Len(path) THEN path[i].next + 1 ELSE path[i].next
  <1>1. PICK n \in Nat : n = Len(path) /\ 1 <= n
    OBVIOUS
  <1>2. PICK f : f = [path[n] EXCEPT !.next = @ + 1]  OBVIOUS
  <1>3. f \in Frames /\ f.mod = path[n].mod /\ f.next = path[n].next + 1
    <2>1. path[n] \in Frames
      BY <1>1
    <2>2. path[n].mod \in Mods \cup {Root} /\ path[n].next \in Nat
      BY <2>1 DEF Frames
    <2>3. f.mod = path[n].mod /\ f.next = path[n].next + 1
      BY <1>2, <2>1 DEF Frames
    <2>4. f \in Frames
      BY <1>2, <2>1, <2>2 DEF Frames
    <2> QED BY <2>3, <2>4
  <1>4. Rest = [path EXCEPT ![n] = f]
    BY <1>1, <1>2 DEF Rest
  <1>5. Rest \in Seq(Frames) /\ Len(Rest) = n /\ \A i \in 1..n : Rest[i] = IF i = n THEN f ELSE path[i]
    BY <1>1, <1>3, <1>4
  <1> QED BY <1>1, <1>3, <1>5

\* Where the walk stands is reachable: so is an active import of it.
LEMMA AtHandReachable ==
  ASSUME WalkTyped, WalkSound, Top.next <= Len(Children(Top.mod)), ActiveIn(Boot, ModuleAtHand),
         NEW S \in SUBSET Mods, Closed(Boot, S)
  PROVE  ModuleAtHand \in S
  <1>1. PICK n \in Nat : n = Len(path) /\ 1 <= n
    BY DEF WalkTyped, WalkSound, PathChained
  <1>2. Top = path[n] /\ Top.mod \in Mods \cup {Root} /\ 1 <= Top.next /\ Top.next \in Nat
    <2>1. path[n] \in Frames /\ Top = path[n]
      BY <1>1 DEF Top, WalkTyped
    <2>2. path[n].mod \in Mods \cup {Root} /\ path[n].next \in Nat
      BY <2>1 DEF Frames
    <2>3. 1 <= path[n].next
      BY <1>1 DEF WalkSound, PathChained
    <2> QED BY <2>1, <2>2, <2>3
  <1>3. Len(Children(Top.mod)) \in Nat
    BY <1>2, ChildrenTyped DEF WalkTyped
  <1>4. Top.next \in 1..Len(Children(Top.mod)) /\ ModuleAtHand = Kid(Top.mod, Top.next)
    BY <1>2, <1>3 DEF ModuleAtHand, Kid
  <1>5. ModuleAtHand \in ActiveChildren(Boot, Top.mod)
    BY <1>2, <1>4, ActiveKids DEF WalkTyped
  <1>6. Top.mod = Root \/ Top.mod \in S
    <2>1. CASE n = 1
      BY <1>1, <1>2, <2>1 DEF WalkSound, PathChained
    <2>2. CASE n # 1
      <3>1. n \in 2..Len(path)
        BY <1>1, <2>2
      <3>2. Top.mod \in Visiting
        BY <1>2, <3>1 DEF Visiting
      <3> QED BY <3>2 DEF WalkSound, MetReachable
    <2> QED BY <2>1, <2>2
  <1> QED BY <1>5, <1>6 DEF Closed

LEMMA AtHandMod ==
  ASSUME WalkTyped, WalkSound, Top.next <= Len(Children(Top.mod))
  PROVE  /\ ModuleAtHand \in Mods /\ Top.mod \in Mods \cup {Root} /\ Len(path) \in Nat /\ 1 <= Len(path)
         /\ Top.next \in 1..Len(Children(Top.mod)) /\ ModuleAtHand = Kid(Top.mod, Top.next)
  <1>1. PICK n \in Nat : n = Len(path) /\ 1 <= n
    BY DEF WalkTyped, WalkSound, PathChained
  <1>2. Top = path[n] /\ Top.mod \in Mods \cup {Root} /\ 1 <= Top.next /\ Top.next \in Nat
    <2>1. path[n] \in Frames /\ Top = path[n]
      BY <1>1 DEF Top, WalkTyped
    <2>2. path[n].mod \in Mods \cup {Root} /\ path[n].next \in Nat
      BY <2>1 DEF Frames
    <2>3. 1 <= path[n].next
      BY <1>1 DEF WalkSound, PathChained
    <2> QED BY <2>1, <2>2, <2>3
  <1>3. Len(Children(Top.mod)) \in Nat
    BY <1>2, ChildrenTyped DEF WalkTyped
  <1>4. Top.next \in 1..Len(Children(Top.mod)) /\ ModuleAtHand = Kid(Top.mod, Top.next)
    BY <1>2, <1>3 DEF ModuleAtHand, Kid
  <1> QED BY <1>1, <1>2, <1>4, ChildrenTyped DEF WalkTyped

\* What the unchanged variables keep.
LEMMA GraphKept ==
  ASSUME UNCHANGED <<app, profile>>, Boot' = Boot
  PROVE  /\ \A m : Children(m)' = Children(m)
         /\ \A m, j : Kid(m, j)' = Kid(m, j)
         /\ \A m : ActiveIn(Boot, m)' <=> ActiveIn(Boot, m)
         /\ \A S : Closed(Boot, S)' <=> Closed(Boot, S)
         /\ \A m, n : SameName(m, n)' <=> SameName(m, n)
  <1>1. \A m : Children(m)' = Children(m)
    BY DEF Children
  <1>2. \A m, j : Kid(m, j)' = Kid(m, j)
    BY <1>1 DEF Kid
  <1>3. \A m : ActiveIn(Boot, m)' <=> ActiveIn(Boot, m)
    BY DEF ActiveIn, isActiveForProfile, isActiveForProfileBootstrap
  <1>4. \A m : ActiveChildren(Boot, m)' = ActiveChildren(Boot, m)
    BY <1>1, <1>3 DEF ActiveChildren
  <1>5. \A S : Closed(Boot, S)' <=> Closed(Boot, S)
    BY <1>4 DEF Closed
  <1> QED BY <1>1, <1>2, <1>3, <1>5 DEF SameName

\* An import that is not active, or visited already, is passed over.
LEMMA WalkPasses ==
  ASSUME WalkTyped, WalkSound, Top.next <= Len(Children(Top.mod)), path' = Rest,
         UNCHANGED <<app, pass, profile, visited, flat, known>>,
         ActiveIn(Boot, ModuleAtHand) => ModuleAtHand \in visited
  PROVE  WalkTyped' /\ WalkSound'
  <1>0. PICK n \in Nat : n = Len(path) /\ 1 <= n
    BY AtHandMod
  <1>1. /\ path' \in Seq(Frames) /\ Len(path') = n /\ n \in 1..n
        /\ \A i \in 1..n : path'[i].mod = path[i].mod
        /\ \A i \in 1..n : path'[i].next = IF i = n THEN path[i].next + 1 ELSE path[i].next
    BY <1>0, RestOfPath DEF WalkTyped
  <1>2. Boot' = Boot
    BY DEF Boot
  <1>3. /\ \A m : Children(m)' = Children(m)
        /\ \A m, j : Kid(m, j)' = Kid(m, j)
        /\ \A m : ActiveIn(Boot, m)' <=> ActiveIn(Boot, m)
        /\ \A S : Closed(Boot, S)' <=> Closed(Boot, S)
        /\ \A m, p : SameName(m, p)' <=> SameName(m, p)
    BY <1>2, GraphKept
  <1>4. WalkTyped'
    BY <1>1 DEF WalkTyped
  <1>5. Top = path[n] /\ Top.next \in Nat /\ Top.next \in 1..Len(Children(Top.mod)) /\ ModuleAtHand = Kid(Top.mod, Top.next)
        /\ Len(Children(Top.mod)) \in Nat
    <2>1. Top.mod \in Mods \cup {Root} /\ Top = path[n]
      BY <1>0, AtHandMod DEF Top
    <2> QED BY <2>1, AtHandMod, ChildrenTyped DEF WalkTyped
  <1>6. \A i \in 2..n : i \in 1..n
    OBVIOUS
  <1>7. PathChained'
    <2>1. 1 <= Len(path') /\ path'[1].mod = Root
      BY <1>0, <1>1 DEF WalkSound, PathChained
    <2>2. \A i \in 2..n : path'[i].mod \in Mods /\ path'[i].mod \notin visited'
      BY <1>0, <1>1, <1>6 DEF WalkSound, PathChained
    <2>3. \A i, j \in 2..n : path'[i].mod = path'[j].mod => i = j
      BY <1>0, <1>1, <1>6 DEF WalkSound, PathChained
    <2>4. \A i \in 1..n : 1 <= path'[i].next /\ path'[i].next <= Len(Children(path'[i].mod)) + 1
      <3> SUFFICES ASSUME NEW i \in 1..n PROVE 1 <= path'[i].next /\ path'[i].next <= Len(Children(path'[i].mod)) + 1
        OBVIOUS
      <3>1. CASE i = n
        BY <1>1, <1>5, <3>1
      <3>2. CASE i # n
        BY <1>0, <1>1, <3>2 DEF WalkSound, PathChained
      <3> QED BY <3>1, <3>2
    <2>5. \A i \in 1..n : i < n =>
            1 < path'[i].next /\ path'[i + 1].mod = Kid(path'[i].mod, path'[i].next - 1) /\ ActiveIn(Boot, path'[i + 1].mod)
      <3> SUFFICES ASSUME NEW i \in 1..n, i < n
                   PROVE  1 < path'[i].next /\ path'[i + 1].mod = Kid(path'[i].mod, path'[i].next - 1) /\ ActiveIn(Boot, path'[i + 1].mod)
        OBVIOUS
      <3>1. i # n /\ i + 1 \in 1..n
        BY <1>0
      <3>2. path'[i].next = path[i].next /\ path'[i].mod = path[i].mod /\ path'[i + 1].mod = path[i + 1].mod
        BY <1>1, <3>1
      <3>3. 1 < path[i].next /\ path[i + 1].mod = Kid(path[i].mod, path[i].next - 1) /\ ActiveIn(Boot, path[i + 1].mod)
        BY <1>0 DEF WalkSound, PathChained
      <3> QED BY <3>2, <3>3
    <2> QED BY <1>1, <1>3, <2>1, <2>2, <2>3, <2>4, <2>5 DEF PathChained
  <1>8. ImportsDone'
    <2>1. ASSUME NEW i \in 1..n, NEW j \in 1..(path'[i].next - 1), ActiveIn(Boot, Kid(path'[i].mod, j))
          PROVE  Kid(path'[i].mod, j) \in visited \/ (i < n /\ j = path'[i].next - 1)
      <3>1. CASE i = n
        <4>1. path'[n].next = path[n].next + 1 /\ path'[n].mod = path[n].mod
          BY <1>1
        <4>2. j = Top.next \/ j \in 1..(path[n].next - 1)
          BY <1>5, <2>1, <3>1, <4>1
        <4>3. CASE j = Top.next
          BY <1>5, <2>1, <3>1, <4>1, <4>3
        <4>4. CASE j \in 1..(path[n].next - 1)
          BY <1>0, <2>1, <3>1, <4>1, <4>4 DEF WalkSound, ImportsDone
        <4> QED BY <4>2, <4>3, <4>4
      <3>2. CASE i # n
        <4>1. path'[i].next = path[i].next /\ path'[i].mod = path[i].mod
          BY <1>1, <3>2
        <4> QED BY <1>0, <2>1, <4>1 DEF WalkSound, ImportsDone
      <3> QED BY <3>1, <3>2
    <2> QED BY <1>1, <1>3, <2>1 DEF ImportsDone
  <1>9. InOrder'
    BY <1>3 DEF WalkSound, InOrder
  <1>10. MetReachable'
    <2>1. Visiting' = Visiting
      BY <1>0, <1>1 DEF Visiting
    <2> QED BY <1>3, <2>1 DEF WalkSound, MetReachable
  <1> QED BY <1>4, <1>7, <1>8, <1>9, <1>10 DEF WalkSound

\* An import that was not met yet is entered.
LEMMA WalkEnters ==
  ASSUME WalkTyped, WalkSound, Top.next <= Len(Children(Top.mod)), path' = Append(Rest, Frame(ModuleAtHand)),
         UNCHANGED <<app, pass, profile, visited, flat>>, known' = known \cup {ModuleAtHand},
         ActiveIn(Boot, ModuleAtHand), ModuleAtHand \notin visited, ModuleAtHand \notin Visiting,
         \A x \in known : ~SameName(ModuleAtHand, x)
  PROVE  WalkTyped' /\ WalkSound'
  <1>0. PICK n \in Nat : n = Len(path) /\ 1 <= n
    BY AtHandMod
  <1>01. PICK rest : rest = Rest  OBVIOUS
  <1>02. /\ rest \in Seq(Frames) /\ Len(rest) = n /\ n \in 1..n
         /\ \A i \in 1..n : rest[i].mod = path[i].mod
         /\ \A i \in 1..n : rest[i].next = IF i = n THEN path[i].next + 1 ELSE path[i].next
    BY <1>0, <1>01, RestOfPath DEF WalkTyped
  <1>03. PICK hand \in Mods : hand = ModuleAtHand
    BY AtHandMod
  <1>04. PICK fr : fr = Frame(hand)  OBVIOUS
  <1>05. fr \in Frames /\ fr.mod = hand /\ fr.next = 1
    BY <1>03, <1>04 DEF Frame, Frames
  <1>06. path' = Append(rest, fr)
    BY <1>01, <1>03, <1>04
  <1>07. path' \in Seq(Frames) /\ Len(path') = n + 1 /\ path'[n + 1] = fr /\ \A i \in 1..n : path'[i] = rest[i]
    BY <1>02, <1>05, <1>06
  <1>1. /\ \A i \in 1..n : path'[i].mod = path[i].mod
        /\ \A i \in 1..n : path'[i].next = IF i = n THEN path[i].next + 1 ELSE path[i].next
        /\ path'[n + 1].mod = hand /\ path'[n + 1].next = 1 /\ n + 1 \in 1..(n + 1)
    BY <1>02, <1>05, <1>07
  <1>2. Boot' = Boot
    BY DEF Boot
  <1>3. /\ \A m : Children(m)' = Children(m)
        /\ \A m, j : Kid(m, j)' = Kid(m, j)
        /\ \A m : ActiveIn(Boot, m)' <=> ActiveIn(Boot, m)
        /\ \A S : Closed(Boot, S)' <=> Closed(Boot, S)
        /\ \A m, p : SameName(m, p)' <=> SameName(m, p)
    BY <1>2, GraphKept
  <1>4. WalkTyped'
    BY <1>03, <1>07 DEF WalkTyped
  <1>5. Top = path[n] /\ Top.next \in Nat /\ Top.next \in 1..Len(Children(Top.mod)) /\ hand = Kid(Top.mod, Top.next)
        /\ Len(Children(Top.mod)) \in Nat
    <2>1. Top.mod \in Mods \cup {Root} /\ Top = path[n]
      BY <1>0, AtHandMod DEF Top
    <2> QED BY <1>03, <2>1, AtHandMod, ChildrenTyped DEF WalkTyped
  <1>6. \A i \in 2..n : path[i].mod # hand
    BY <1>0, <1>03 DEF Visiting
  <1>7. PathChained'
    <2>1. 1 <= Len(path') /\ path'[1].mod = Root
      BY <1>0, <1>1, <1>07 DEF WalkSound, PathChained
    <2>2. \A i \in 2..(n + 1) : i = n + 1 \/ (i \in 2..n /\ i \in 1..n)
      BY <1>0
    <2>21. /\ \A i \in 2..n : path[i].mod \in Mods /\ path[i].mod \notin visited
           /\ \A i, j \in 2..n : path[i].mod = path[j].mod => i = j
      BY <1>0 DEF WalkSound, PathChained
    <2>3. \A i \in 2..(n + 1) : path'[i].mod \in Mods /\ path'[i].mod \notin visited'
      BY ZenonT(60), <1>03, <1>1, <2>2, <2>21
    <2>4. \A i, j \in 2..(n + 1) : path'[i].mod = path'[j].mod => i = j
      BY <1>1, <1>6, <2>2, <2>21
    <2>5. \A i \in 1..(n + 1) : 1 <= path'[i].next /\ path'[i].next <= Len(Children(path'[i].mod)) + 1
      <3> SUFFICES ASSUME NEW i \in 1..(n + 1) PROVE 1 <= path'[i].next /\ path'[i].next <= Len(Children(path'[i].mod)) + 1
        OBVIOUS
      <3>1. CASE i = n
        <4>1. path'[i].next = Top.next + 1 /\ path'[i].mod = Top.mod
          BY <1>1, <1>02, <1>5, <3>1
        <4> QED BY <1>5, <4>1
      <3>2. CASE i = n + 1
        <4>1. Len(Children(hand)) \in Nat
          BY <1>03, ChildrenTyped DEF WalkTyped
        <4>2. path'[i].next = 1 /\ path'[i].mod = hand
          BY <1>1, <3>2
        <4> QED BY <4>1, <4>2
      <3>3. CASE i # n /\ i # n + 1
        <4>1. i \in 1..n
          BY <1>0, <3>3
        <4> QED BY <1>0, <1>1, <3>3, <4>1 DEF WalkSound, PathChained
      <3> QED BY <3>1, <3>2, <3>3
    <2>6. \A i \in 1..(n + 1) : i < n + 1 =>
            1 < path'[i].next /\ path'[i + 1].mod = Kid(path'[i].mod, path'[i].next - 1) /\ ActiveIn(Boot, path'[i + 1].mod)
      <3> SUFFICES ASSUME NEW i \in 1..(n + 1), i < n + 1
                   PROVE  1 < path'[i].next /\ path'[i + 1].mod = Kid(path'[i].mod, path'[i].next - 1) /\ ActiveIn(Boot, path'[i + 1].mod)
        OBVIOUS
      <3>1. CASE i = n
        <4>1. path'[i].next = Top.next + 1 /\ path'[i].mod = Top.mod /\ path'[i + 1].mod = hand
          BY <1>1, <1>02, <1>5, <3>1
        <4>2. 1 < Top.next + 1 /\ (Top.next + 1) - 1 = Top.next
          BY <1>5
        <4> QED BY <1>03, <1>5, <4>1, <4>2
      <3>2. CASE i # n
        <4>1. i \in 1..n /\ i + 1 \in 1..n /\ i < n
          BY <1>0, <3>2
        <4>2. path'[i].next = path[i].next /\ path'[i].mod = path[i].mod /\ path'[i + 1].mod = path[i + 1].mod
          BY <1>1, <3>2, <4>1
        <4>3. 1 < path[i].next /\ path[i + 1].mod = Kid(path[i].mod, path[i].next - 1) /\ ActiveIn(Boot, path[i + 1].mod)
          BY <1>0, <4>1 DEF WalkSound, PathChained
        <4> QED BY <4>2, <4>3
      <3> QED BY <3>1, <3>2
    <2> QED BY <1>07, <1>3, <2>1, <2>3, <2>4, <2>5, <2>6 DEF PathChained
  <1>8. ImportsDone'
    <2>1. ASSUME NEW i \in 1..(n + 1), NEW j \in 1..(path'[i].next - 1), ActiveIn(Boot, Kid(path'[i].mod, j))
          PROVE  Kid(path'[i].mod, j) \in visited \/ (i < n + 1 /\ j = path'[i].next - 1)
      <3>0. i # n + 1
        <4> SUFFICES ASSUME i = n + 1 PROVE FALSE  OBVIOUS
        <4>1. path'[i].next - 1 = 0
          BY <1>1
        <4>2. j \in 1..0
          BY <2>1, <4>1
        <4> QED BY <4>2
      <3>1. CASE i = n
        <4>1. path'[n].next = path[n].next + 1 /\ path'[n].mod = path[n].mod
          BY <1>1, <1>02
        <4>2. j = path'[n].next - 1 \/ j \in 1..(path[n].next - 1)
          BY <1>5, <2>1, <3>1, <4>1
        <4>3. CASE j = path'[n].next - 1
          BY <1>0, <3>1, <4>3
        <4>4. CASE j \in 1..(path[n].next - 1)
          BY <1>0, <2>1, <3>1, <4>1, <4>4 DEF WalkSound, ImportsDone
        <4> QED BY <4>2, <4>3, <4>4
      <3>2. CASE i # n
        <4>0. i \in 1..n /\ i < n + 1
          BY <1>0, <3>0, <3>2
        <4>1. path'[i].next = path[i].next /\ path'[i].mod = path[i].mod
          BY <1>1, <3>2, <4>0
        <4> QED BY <1>0, <2>1, <4>0, <4>1 DEF WalkSound, ImportsDone
      <3> QED BY <3>1, <3>2
    <2> QED BY <1>07, <1>3, <2>1 DEF ImportsDone
  <1>9. InOrder'
    BY <1>3 DEF WalkSound, InOrder
  <1>10. MetReachable'
    <2>1. Visiting' = Visiting \cup {hand}
      <3>1. 2..(n + 1) = 2..n \cup {n + 1} /\ 2..n \subseteq 1..n
        BY <1>0
      <3> QED BY SMTT(40), <1>0, <1>07, <1>1, <3>1 DEF Visiting
    <2>2. known' = visited' \cup Visiting'
      BY <1>03, <2>1 DEF WalkSound, MetReachable
    <2>3. \A m, p \in known' : ~SameName(m, p)
      BY DEF WalkSound, MetReachable, SameName
    <2>4. \A S \in SUBSET Mods : Closed(Boot, S) => known' \subseteq S
      BY AtHandReachable DEF WalkSound, MetReachable
    <2> QED BY <1>3, <2>2, <2>3, <2>4 DEF MetReachable
  <1> QED BY <1>4, <1>7, <1>8, <1>9, <1>10 DEF WalkSound

\* A module is left: all its active imports are in the list.
LEMMA WalkLeaves ==
  ASSUME WalkTyped, WalkSound, Finish
  PROVE  WalkTyped' /\ WalkSound'
  <1>00. /\ Top.mod # Root /\ Top.next > Len(Children(Top.mod)) /\ path' = SubSeq(path, 1, Len(path) - 1)
         /\ visited' = visited \cup {Top.mod} /\ flat' = Append(flat, Top.mod) /\ UNCHANGED <<app, pass, profile, known>>
    BY DEF Finish
  <1>0. PICK n \in Nat : n = Len(path) - 1 /\ Len(path) = n + 1 /\ 1 <= n /\ Top = path[n + 1]
    <2>1. Len(path) \in Nat /\ 1 <= Len(path) /\ path[1].mod = Root /\ Top = path[Len(path)]
      BY DEF WalkTyped, WalkSound, PathChained, Top
    <2>2. Len(path) # 1
      BY <1>00, <2>1
    <2>3. Len(path) - 1 \in Nat /\ 1 <= Len(path) - 1 /\ Len(path) = (Len(path) - 1) + 1
      BY <2>1, <2>2
    <2> QED BY <2>1, <2>3
  <1>1. path' \in Seq(Frames) /\ Len(path') = n /\ \A i \in 1..n : path'[i] = path[i]
    BY <1>00, <1>0 DEF WalkTyped
  <1>2. PICK hand \in Mods : hand = Top.mod /\ hand \notin visited /\ \A i \in 2..n : path[i].mod # hand
    <2>1. n + 1 \in 2..Len(path) /\ \A i \in 2..n : i \in 2..Len(path) /\ i # n + 1
      BY <1>0
    <2>2. /\ \A i \in 2..Len(path) : path[i].mod \in Mods /\ path[i].mod \notin visited
          /\ \A i, j \in 2..Len(path) : path[i].mod = path[j].mod => i = j
      BY DEF WalkSound, PathChained
    <2>3. path[n + 1].mod \in Mods /\ path[n + 1].mod \notin visited
      BY <2>1, <2>2
    <2>4. \A i \in 2..n : path[i].mod # path[n + 1].mod
      BY <2>1, <2>2
    <2> QED BY <1>0, <2>3, <2>4
  <1>3. Boot' = Boot
    BY <1>00 DEF Boot
  <1>4. /\ \A m : Children(m)' = Children(m)
        /\ \A m, j : Kid(m, j)' = Kid(m, j)
        /\ \A m : ActiveIn(Boot, m)' <=> ActiveIn(Boot, m)
        /\ \A S : Closed(Boot, S)' <=> Closed(Boot, S)
        /\ \A m, p : SameName(m, p)' <=> SameName(m, p)
    BY <1>00, <1>3, GraphKept
  <1>5. PICK l \in Nat : l = Len(flat)
    BY DEF WalkTyped
  <1>6. flat' \in Seq(Mods) /\ Len(flat') = l + 1 /\ flat'[l + 1] = hand /\ \A i \in 1..l : flat'[i] = flat[i]
    BY <1>00, <1>2, <1>5 DEF WalkTyped
  <1>7. WalkTyped'
    BY <1>00, <1>1, <1>2, <1>6 DEF WalkTyped
  <1>8. PathChained'
    <2>1. \A i \in 1..n : i \in 1..Len(path) /\ (i < n => i < Len(path) /\ i + 1 \in 1..n)
      BY <1>0
    <2>2. \A i \in 2..n : i \in 2..Len(path) /\ i \in 1..n
      BY <1>0
    <2>3. 1 <= n /\ path'[1].mod = Root
      BY <1>0, <1>1 DEF WalkSound, PathChained
    <2>4. \A i \in 2..n : path'[i].mod \in Mods /\ path'[i].mod \notin visited'
      BY <1>00, <1>1, <1>2, <2>2 DEF WalkSound, PathChained
    <2>5. \A i, j \in 2..n : path'[i].mod = path'[j].mod => i = j
      BY <1>1, <2>2 DEF WalkSound, PathChained
    <2>6. \A i \in 1..n : 1 <= path'[i].next /\ path'[i].next <= Len(Children(path'[i].mod)) + 1
      BY <1>1, <2>1 DEF WalkSound, PathChained
    <2>7. \A i \in 1..n : i < n =>
            1 < path'[i].next /\ path'[i + 1].mod = Kid(path'[i].mod, path'[i].next - 1) /\ ActiveIn(Boot, path'[i + 1].mod)
      BY <1>1, <2>1 DEF WalkSound, PathChained
    <2> QED BY <1>1, <1>4, <2>3, <2>4, <2>5, <2>6, <2>7 DEF PathChained
  <1>9. ImportsDone'
    <2>1. ASSUME NEW i \in 1..n, NEW j \in 1..(path'[i].next - 1), ActiveIn(Boot, Kid(path'[i].mod, j))
          PROVE  Kid(path'[i].mod, j) \in visited' \/ (i < n /\ j = path'[i].next - 1)
      <3>1. path'[i] = path[i] /\ i \in 1..Len(path) /\ i < Len(path)
        BY <1>0, <1>1
      <3>2. Kid(path[i].mod, j) \in visited \/ j = path[i].next - 1
        BY <2>1, <3>1 DEF WalkSound, ImportsDone
      <3>3. CASE i = n /\ j = path[i].next - 1
        <4>1. path[n + 1].mod = Kid(path[n].mod, path[n].next - 1)
          BY <3>1, <3>3 DEF WalkSound, PathChained
        <4> QED BY <1>00, <1>0, <3>1, <3>3, <4>1
      <3>4. CASE i < n /\ j = path[i].next - 1
        BY <3>1, <3>4
      <3>5. CASE Kid(path[i].mod, j) \in visited
        BY <1>00, <3>1, <3>5
      <3>6. i = n \/ i < n
        BY <1>0
      <3> QED BY <3>2, <3>3, <3>4, <3>5, <3>6
    <2> QED BY <1>1, <1>4, <2>1 DEF ImportsDone
  <1>10. \A j \in 1..Len(Children(hand)) : ActiveIn(Boot, Kid(hand, j)) => Kid(hand, j) \in visited
    <2>1. path[n + 1].next \in Nat /\ Len(Children(hand)) \in Nat
      <3>1. path[n + 1] \in Frames
        BY <1>0 DEF WalkTyped
      <3>2. path[n + 1].next \in Nat
        BY <3>1 DEF Frames
      <3> QED BY <1>2, <3>2, ChildrenTyped DEF WalkTyped
    <2>2. \A j \in 1..Len(Children(hand)) : j \in 1..(path[n + 1].next - 1)
      BY <1>00, <1>0, <1>2, <2>1
    <2>3. n + 1 \in 1..Len(path) /\ ~(n + 1 < Len(path))
      BY <1>0
    <2> QED BY <1>0, <1>2, <2>2, <2>3 DEF WalkSound, ImportsDone
  <1>11. InOrder'
    <2>0. 1..(l + 1) = 1..l \cup {l + 1} /\ \A i \in 1..l : i < l + 1
      BY <1>5
    <2>1. visited' = {flat'[i] : i \in 1..(l + 1)}
      <3>1. visited = {flat[i] : i \in 1..l}
        BY <1>5 DEF WalkSound, InOrder
      <3>2. {flat'[i] : i \in 1..(l + 1)} = {flat[i] : i \in 1..l} \cup {hand}
        BY <1>6, <2>0
      <3> QED BY <1>00, <1>2, <3>1, <3>2
    <2>2. \A i \in 1..l : flat[i] \in visited
      BY <1>5 DEF WalkSound, InOrder
    <2>3. \A i, j \in 1..(l + 1) : flat'[i] = flat'[j] => i = j
      BY <1>2, <1>5, <1>6, <2>0, <2>2 DEF WalkSound, InOrder
    <2>4. ASSUME NEW i \in 1..(l + 1), NEW j \in 1..Len(Children(flat'[i])), ActiveIn(Boot, Kid(flat'[i], j))
          PROVE  \E x \in 1..(l + 1) : x < i /\ flat'[x] = Kid(flat'[i], j)
      <3>1. CASE i = l + 1
        <4>1. flat'[i] = hand
          BY <1>6, <3>1
        <4>2. Kid(hand, j) \in visited
          BY <1>10, <2>4, <4>1
        <4>3. PICK x \in 1..l : flat[x] = Kid(hand, j)
          BY <1>5, <4>2 DEF WalkSound, InOrder
        <4>4. x < i /\ flat'[x] = Kid(flat'[i], j) /\ x \in 1..(l + 1)
          BY <1>6, <2>0, <3>1, <4>1, <4>3
        <4> QED BY <4>4
      <3>2. CASE i \in 1..l
        <4>1. flat'[i] = flat[i]
          BY <1>6, <3>2
        <4>2. PICK x \in 1..l : x < i /\ flat[x] = Kid(flat[i], j)
          BY <1>5, <2>4, <3>2, <4>1 DEF WalkSound, InOrder
        <4> QED BY <1>6, <2>0, <4>1, <4>2
      <3> QED BY <2>0, <3>1, <3>2
    <2> QED BY <1>4, <1>6, <2>1, <2>3, <2>4 DEF InOrder
  <1>12. MetReachable'
    <2>1. Visiting = Visiting' \cup {hand}
      <3>1. 2..Len(path) = 2..n \cup {n + 1} /\ \A i \in 2..n : i \in 1..n
        BY <1>0
      <3> QED BY SMTT(40), <1>0, <1>1, <1>2, <3>1 DEF Visiting
    <2>2. known' = visited' \cup Visiting'
      BY <1>00, <1>2, <2>1 DEF WalkSound, MetReachable
    <2> QED BY <1>00, <1>4, <2>2 DEF WalkSound, MetReachable
  <1> QED BY <1>7, <1>8, <1>9, <1>11, <1>12 DEF WalkSound

-----------------------------------------------------------------------------
\* A walk begins.
WalkFresh == WalkTyped /\ path = <<Frame(Root)>> /\ visited = {} /\ known = {} /\ flat = <<>>

LEMMA FreshSound == WalkFresh => WalkSound
  <1> SUFFICES ASSUME WalkFresh PROVE WalkSound  OBVIOUS
  <1>1. WalkTyped /\ path = <<Frame(Root)>> /\ visited = {} /\ known = {} /\ flat = <<>>
    BY DEF WalkFresh
  <1>2. PICK fr : fr = Frame(Root)  OBVIOUS
  <1>3. fr.mod = Root /\ fr.next = 1
    BY <1>2 DEF Frame
  <1>4. Len(path) = 1 /\ path[1] = fr /\ Len(flat) = 0
    BY <1>1, <1>2
  <1>5. Len(Children(Root)) \in Nat
    BY <1>1, ChildrenTyped DEF WalkTyped
  <1>6. PathChained
    BY <1>3, <1>4, <1>5 DEF PathChained
  <1>7. ImportsDone
    <2>1. \A i \in 1..Len(path) : path[i].next - 1 = 0
      BY <1>3, <1>4
    <2>2. \A j \in 1..0 : FALSE
      OBVIOUS
    <2> QED BY <2>1, <2>2 DEF ImportsDone
  <1>8. InOrder
    BY <1>1, <1>4 DEF InOrder
  <1>9. Visiting = {}
    BY <1>4 DEF Visiting
  <1>10. MetReachable
    BY <1>1, <1>9 DEF MetReachable
  <1> QED BY <1>6, <1>7, <1>8, <1>10 DEF WalkSound

LEMMA FreshSoundNext == WalkFresh' => WalkSound'
  BY FreshSound, PTL

\* A walk that is through has listed what can be reached, and found nothing bad.
LEMMA WalkThrough ==
  ASSUME WalkTyped, WalkSound, Top.mod = Root, Top.next > Len(app.roots)
  PROVE  /\ visited = Reachable(Boot) /\ ~Bad(Boot)
         /\ {flat[i] : i \in DOMAIN flat} = Reachable(Boot) /\ Len(flat) = Cardinality(Reachable(Boot))
         /\ \A i, j \in DOMAIN flat : flat[j] \in ActiveChildren(Boot, flat[i]) => j < i
  <1>0. PICK l \in Nat : l = Len(flat) /\ DOMAIN flat = 1..l
    BY DEF WalkTyped
  <1>1. Len(path) = 1 /\ path[1].mod = Root /\ Top = path[1]
    <2>1. Len(path) \in Nat /\ 1 <= Len(path) /\ path[1].mod = Root /\ Top = path[Len(path)]
          /\ \A i \in 2..Len(path) : path[i].mod \in Mods
      BY DEF WalkTyped, WalkSound, PathChained, Top
    <2>2. ASSUME Len(path) # 1 PROVE FALSE
      <3>0. PICK n \in Nat : n = Len(path)
        BY <2>1
      <3>1. n \in 2..n
        BY <2>1, <2>2, <3>0
      <3> QED BY <2>1, <3>0, <3>1, GraphAssumption
    <2> QED BY <2>1, <2>2
  <1>2. Children(Root) = app.roots /\ Len(Children(Root)) \in Nat /\ path[1].next \in Nat
    <2>1. path[1] \in Frames
      <3>1. 1 \in 1..Len(path)
        BY <1>1
      <3> QED BY <3>1 DEF WalkTyped
    <2>2. path[1].next \in Nat
      BY <2>1 DEF Frames
    <2>3. Len(Children(Root)) \in Nat
      BY ChildrenTyped DEF WalkTyped
    <2> QED BY <2>2, <2>3 DEF Children
  <1>3. \A j \in 1..Len(Children(Root)) : ActiveIn(Boot, Kid(Root, j)) => Kid(Root, j) \in visited
    <2>1. \A j \in 1..Len(Children(Root)) : j \in 1..(path[1].next - 1)
      BY <1>1, <1>2
    <2>2. 1 \in 1..Len(path) /\ ~(1 < Len(path))
      BY <1>1
    <2> QED BY <1>1, <2>1, <2>2 DEF WalkSound, ImportsDone
  <1>4. \A i \in 1..l : flat[i] \in visited /\ flat[i] \in Mods
    BY <1>0 DEF WalkTyped, WalkSound, InOrder
  <1>5. \A m \in visited : \E i \in 1..l : flat[i] = m
    BY <1>0 DEF WalkSound, InOrder
  <1>6. ASSUME NEW i \in 1..l, NEW x \in ActiveChildren(Boot, flat[i])
        PROVE  \E y \in 1..l : y < i /\ flat[y] = x
    <2>1. PICK j \in 1..Len(Children(flat[i])) : x = Kid(flat[i], j) /\ ActiveIn(Boot, x)
      BY <1>4, ActiveKids DEF WalkTyped
    <2> QED BY <1>0, <2>1 DEF WalkSound, InOrder
  <1>7. Closed(Boot, visited)
    <2>1. ActiveChildren(Boot, Root) \subseteq visited
      BY <1>3, ActiveKids DEF WalkTyped
    <2>2. \A m \in visited : ActiveChildren(Boot, m) \subseteq visited
      BY ZenonT(60), <1>4, <1>5, <1>6
    <2> QED BY <2>1, <2>2 DEF Closed
  <1>8. visited = Reachable(Boot)
    <2>1. visited \subseteq Mods /\ visited \in SUBSET Mods
      BY DEF WalkTyped
    <2>2. \A S \in SUBSET Mods : Closed(Boot, S) => visited \subseteq S
      BY DEF WalkSound, MetReachable
    <2> QED BY <1>7, <2>1, <2>2 DEF Reachable
  <1>9. {flat[i] : i \in DOMAIN flat} = Reachable(Boot)
    BY <1>0, <1>8 DEF WalkSound, InOrder
  <1>10. Len(flat) = Cardinality(Reachable(Boot))
    <2>1. IsFiniteSet(1..l) /\ Cardinality(1..l) = l
      <3>1. l \in Int /\ 1 \in Int /\ (1 > l => l = 0) /\ l - 1 + 1 = l
        OBVIOUS
      <3> QED BY <3>1, FS_Interval
    <2>2. flat \in [1..l -> visited]
      BY <1>0, <1>4 DEF WalkTyped
    <2>3. flat \in Bijection(1..l, visited)
      <3>1. \A i, j \in 1..l : flat[i] = flat[j] => i = j
        BY <1>0 DEF WalkSound, InOrder
      <3> QED BY <1>5, <2>2, <3>1 DEF Bijection, Injection, Surjection, IsInjective
    <2>4. ExistsBijection(1..l, visited)
      BY <2>3 DEF ExistsBijection
    <2>5. Cardinality(visited) = l
      BY <2>1, <2>4, FS_Bijection
    <2> QED BY <1>0, <1>8, <2>5
  <1>11. \A i, j \in DOMAIN flat : flat[j] \in ActiveChildren(Boot, flat[i]) => j < i
    <2> SUFFICES ASSUME NEW i \in 1..l, NEW j \in 1..l, flat[j] \in ActiveChildren(Boot, flat[i]) PROVE j < i
      BY <1>0
    <2>1. PICK y \in 1..l : y < i /\ flat[y] = flat[j]
      BY <1>6
    <2> QED BY <1>0, <2>1 DEF WalkSound, InOrder
  <1>12. ~Cyclic(Boot)
    <2> SUFFICES ASSUME NEW S \in SUBSET Reachable(Boot), S # {}, \A m \in S : ActiveChildren(Boot, m) \cap S # {}
                 PROVE  FALSE
      BY DEF Cyclic
    <2> DEFINE T == {i \in 1..l : flat[i] \in S}
    <2>1. T \in SUBSET Nat
      BY <1>0
    <2>2. T # {}
      BY <1>5, <1>8
    <2> HIDE DEF T
    <2>3. PICK i \in T : \A j \in T : i <= j
      BY <2>1, <2>2, LeastNatural
    <2>4. i \in 1..l /\ flat[i] \in S
      BY DEF T
    <2>5. PICK x : x \in ActiveChildren(Boot, flat[i]) /\ x \in S
      BY <2>4
    <2>6. PICK y \in 1..l : y < i /\ flat[y] = x
      BY <1>6, <2>4, <2>5
    <2>7. y \in T
      BY <2>5, <2>6 DEF T
    <2> QED BY <2>3, <2>4, <2>6, <2>7
  <1>13. ~Ambiguous(Boot)
    <2>1. Reachable(Boot) \subseteq known
      BY <1>8 DEF WalkSound, MetReachable
    <2> QED BY <2>1 DEF WalkSound, MetReachable, Ambiguous
  <1> QED BY <1>8, <1>9, <1>10, <1>11, <1>12, <1>13 DEF Bad

\* A walk that fails has met something bad.
LEMMA WalkRefuses ==
  ASSUME WalkTyped, WalkSound, Top.next <= Len(Children(Top.mod)), ActiveIn(Boot, ModuleAtHand),
         (\E x \in known : SameName(ModuleAtHand, x)) \/ ModuleAtHand \in Visiting
  PROVE  Bad(Boot)
  <1>0. PICK hand \in Mods : hand = ModuleAtHand
    BY AtHandMod
  <1>1. hand \in Reachable(Boot)
    BY <1>0, AtHandReachable DEF Reachable
  <1>2. known \subseteq Reachable(Boot)
    BY DEF WalkTyped, WalkSound, MetReachable, Reachable
  <1>3. CASE \E x \in known : SameName(hand, x)
    BY <1>1, <1>2, <1>3 DEF Bad, Ambiguous
  <1>4. CASE hand \in Visiting
    <2>0. PICK n \in Nat : n = Len(path) /\ 1 <= n
      BY AtHandMod
    <2>1. PICK x \in 2..n : path[x].mod = hand
      BY <1>4, <2>0 DEF Visiting
    <2> DEFINE S == {path[i].mod : i \in x..n}
    <2>2. x \in x..n /\ \A i \in x..n : i \in 2..n /\ i \in 1..n
      BY <2>0
    <2>3. S \subseteq Reachable(Boot)
      <3>1. S \subseteq Visiting
        BY <2>0, <2>2 DEF Visiting
      <3> QED BY <1>2, <3>1 DEF WalkSound, MetReachable
    <2>4. hand \in S
      BY <2>1, <2>2
    <2>5. ASSUME NEW i \in x..n PROVE \E y \in S : y \in ActiveChildren(Boot, path[i].mod)
      <3>0. path[i].mod \in Mods
        BY <2>0, <2>2 DEF WalkSound, PathChained
      <3>1. CASE i = n
        <4>1. Top = path[n] /\ Top.next \in 1..Len(Children(Top.mod)) /\ hand = Kid(Top.mod, Top.next)
          BY <1>0, <2>0, AtHandMod DEF Top
        <4>2. hand \in ActiveChildren(Boot, path[i].mod)
          BY <1>0, <3>0, <3>1, <4>1, ActiveKids DEF WalkTyped
        <4> QED BY <2>4, <4>2
      <3>2. CASE i # n
        <4>1. i \in 1..n /\ i < n /\ i + 1 \in x..n
          BY <2>0, <2>2, <3>2
        <4>2. /\ 1 < path[i].next /\ path[i + 1].mod = Kid(path[i].mod, path[i].next - 1) /\ ActiveIn(Boot, path[i + 1].mod)
              /\ path[i].next <= Len(Children(path[i].mod)) + 1
          BY <2>0, <4>1 DEF WalkSound, PathChained
        <4>3. path[i].next \in Nat /\ Len(Children(path[i].mod)) \in Nat
          <5>1. path[i] \in Frames
            BY <2>0, <4>1 DEF WalkTyped
          <5>2. path[i].next \in Nat
            BY <5>1 DEF Frames
          <5> QED BY <3>0, <5>2, ChildrenTyped DEF WalkTyped
        <4>4. path[i].next - 1 \in 1..Len(Children(path[i].mod))
          BY <4>2, <4>3
        <4>5. path[i + 1].mod \in ActiveChildren(Boot, path[i].mod)
          BY <3>0, <4>2, <4>4, ActiveKids DEF WalkTyped
        <4> QED BY <4>1, <4>5
      <3> QED BY <3>1, <3>2
    <2>6. \A m \in S : ActiveChildren(Boot, m) \cap S # {}
      BY <2>5
    <2> HIDE DEF S
    <2> QED BY <2>3, <2>4, <2>6 DEF Bad, Cyclic
  <1> QED BY <1>0, <1>3, <1>4

-----------------------------------------------------------------------------
\* How the profile was found, and why a walk failed.
ProfileFound ==
  /\ app.configured = FALSE => {bootFlat[i] : i \in DOMAIN bootFlat} = Reachable(TRUE)
  /\ profile = "dev" <=> app.configured = FALSE /\ app.provider \in Reachable(TRUE)
WalkRefused ==
  Bad(FALSE) \/ (app.configured = FALSE /\ (Bad(TRUE) \/ (app.provider \in Reachable(TRUE) /\ app.resolves = FALSE)))

WalkInv ==
  /\ WalkTyped
  /\ pass # "failed" => WalkSound
  /\ pass = "bootstrap" => app.configured = FALSE
  /\ pass \in {"main", "done"} => ProfileFound
  /\ pass = "done" => Top.mod = Root /\ Top.next > Len(app.roots)
  /\ pass = "failed" => WalkRefused

LEMMA WalkStarts == Init => WalkInv
  <1> SUFFICES ASSUME Init PROVE WalkInv  OBVIOUS
  <1>1. app \in AppRecords /\ pass \in {"bootstrap", "main"} /\ (pass = "bootstrap" <=> app.configured = FALSE)
        /\ profile = "default"
    <2>1. CASE WalkInit
      <3>1. app \in AppRecords
        BY <2>1, GraphAssumption DEF WalkInit
      <3>2. app.configured \in BOOLEAN
        BY <3>1 DEF AppRecords
      <3> QED BY <2>1, <3>1, <3>2 DEF WalkInit
    <2>2. CASE SomeApp
      <3>1. PICK imports : imports = [m \in Mods |-> <<>>]  OBVIOUS
      <3>2. PICK name : name = [m \in Mods |-> NoName]  OBVIOUS
      <3>3. PICK always : always = Always  OBVIOUS
      <3>4. PICK active : active = [m \in Mods |-> always]  OBVIOUS
      <3>5. always \in [profiles : SUBSET Profiles, exclude : SUBSET Profiles, disabled : BOOLEAN]
        BY <3>3 DEF Always
      <3>6. imports \in [Mods -> Seq(Mods)] /\ name \in [Mods -> ModNames]
            /\ active \in [Mods -> [profiles : SUBSET Profiles, exclude : SUBSET Profiles, disabled : BOOLEAN]]
        <4>1. imports \in [Mods -> Seq(Mods)]
          BY <3>1
        <4>2. NoName \in ModNames
          BY GraphAssumption
        <4>3. name \in [Mods -> ModNames]
          BY <3>2, <4>2
        <4>4. active \in [Mods -> [profiles : SUBSET Profiles, exclude : SUBSET Profiles, disabled : BOOLEAN]]
          BY <3>4, <3>5
        <4> QED BY <4>1, <4>3, <4>4
      <3>7. app = [roots |-> <<>>, imports |-> imports, name |-> name, active |-> active, provider |-> 0,
                   configured |-> TRUE, resolves |-> TRUE]
        BY <2>2, <3>1, <3>2, <3>3, <3>4 DEF SomeApp
      <3>8. app.configured = TRUE
        BY <3>7
      <3>9. app \in AppRecords
        BY <3>6, <3>7 DEF AppRecords
      <3> QED BY <2>2, <3>8, <3>9 DEF SomeApp
    <2> QED BY <2>1, <2>2 DEF Init
  <1>2. path = <<Frame(Root)>> /\ visited = {} /\ known = {} /\ flat = <<>>
    BY DEF Init, WalkInit, SomeApp
  <1>3. Frame(Root) \in Frames
    BY DEF Frame, Frames
  <1>4. WalkTyped
    BY <1>1, <1>2, <1>3 DEF WalkTyped
  <1>5. WalkSound
    BY <1>2, <1>4, FreshSound DEF WalkFresh
  <1>6. pass = "main" => ProfileFound
    BY <1>1 DEF ProfileFound
  <1> QED BY <1>1, <1>4, <1>5, <1>6 DEF WalkInv

\* Reachability speaks of the App and the profile only.
LEMMA ReachesSame ==
  ASSUME UNCHANGED app
  PROVE  /\ Reachable(TRUE)' = Reachable(TRUE) /\ Bad(TRUE)' = Bad(TRUE)
         /\ profile' = profile => Reachable(FALSE)' = Reachable(FALSE) /\ Bad(FALSE)' = Bad(FALSE)
  <1>1. ASSUME NEW boot \in BOOLEAN, boot = TRUE \/ profile' = profile
        PROVE  Reachable(boot)' = Reachable(boot) /\ Bad(boot)' = Bad(boot)
    <2>1. \A m : ActiveIn(boot, m)' <=> ActiveIn(boot, m)
      BY <1>1 DEF ActiveIn, isActiveForProfile, isActiveForProfileBootstrap
    <2>2. \A m : Children(m)' = Children(m)
      BY DEF Children
    <2>3. \A m : ActiveChildren(boot, m)' = ActiveChildren(boot, m)
      BY <2>1, <2>2 DEF ActiveChildren
    <2>4. \A S : Closed(boot, S)' <=> Closed(boot, S)
      BY <2>3 DEF Closed
    <2>5. Reachable(boot)' = Reachable(boot)
      BY <2>4 DEF Reachable
    <2>6. \A m, n : SameName(m, n)' <=> SameName(m, n)
      BY DEF SameName
    <2>7. Cyclic(boot)' = Cyclic(boot)
      BY <2>3, <2>5 DEF Cyclic
    <2>8. Ambiguous(boot)' = Ambiguous(boot)
      BY <2>5, <2>6 DEF Ambiguous
    <2> QED BY <2>5, <2>7, <2>8 DEF Bad
  <1> QED BY <1>1

\* What no profile restricts is active in every one.
LEMMA BootstrapAmong ==
  ASSUME app \in AppRecords
  PROVE  Reachable(TRUE) \subseteq Reachable(FALSE)
  <1>1. \A m : isActiveForProfileBootstrap(m) => isActiveForProfile(m, profile)
    BY DEF isActiveForProfileBootstrap, isActiveForProfile
  <1>2. \A m \in Mods \cup {Root} : ActiveChildren(TRUE, m) \subseteq ActiveChildren(FALSE, m)
    BY <1>1 DEF ActiveChildren, ActiveIn
  <1>3. \A S \in SUBSET Mods : Closed(FALSE, S) => Closed(TRUE, S)
    BY <1>2 DEF Closed
  <1> QED BY <1>3 DEF Reachable

LEMMA WalkStep == WalkInv /\ [WalkNext]_walkVars => WalkInv'
  <1> SUFFICES ASSUME WalkInv, [WalkNext]_walkVars PROVE WalkInv'  OBVIOUS
  <1>0. WalkTyped /\ app \in AppRecords
    BY DEF WalkInv, WalkTyped
  <1>1. ASSUME UNCHANGED <<app, profile, bootFlat, pass>>, WalkTyped', WalkSound', pass \in {"bootstrap", "main"} PROVE WalkInv'
    <2>1. Reachable(TRUE)' = Reachable(TRUE)
      BY <1>1, ReachesSame
    <2>2. ProfileFound => ProfileFound'
      BY <1>1, <2>1 DEF ProfileFound
    <2> QED BY <1>1, <2>2 DEF WalkInv
  <1>2. ASSUME UNCHANGED <<app, profile, bootFlat, path, visited, known, flat>>, pass' = "failed", WalkRefused PROVE WalkInv'
    <2>1. Reachable(TRUE)' = Reachable(TRUE) /\ Bad(TRUE)' = Bad(TRUE) /\ Bad(FALSE)' = Bad(FALSE)
      BY <1>2, ReachesSame
    <2>2. WalkRefused'
      BY <1>2, <2>1 DEF WalkRefused
    <2>3. WalkTyped'
      BY <1>0, <1>2 DEF WalkTyped
    <2> QED BY <1>2, <2>2, <2>3 DEF WalkInv
  <1>3. CASE Walk
    <2>1. pass \in {"bootstrap", "main"} /\ Top.next <= Len(Children(Top.mod)) /\ WalkSound
      BY <1>3 DEF Walk, WalkInv
    <2>2. Active(ModuleAtHand) <=> ActiveIn(Boot, ModuleAtHand)
      BY DEF Active, ActiveIn, Boot
    <2>3. CASE ~ActiveIn(Boot, ModuleAtHand)
      <3>1. path' = Rest /\ UNCHANGED <<app, pass, profile, visited, known, flat, bootFlat>>
        BY <1>3, <2>2, <2>3 DEF Walk
      <3>2. WalkTyped' /\ WalkSound'
        BY <1>0, <2>1, <2>3, <3>1, WalkPasses
      <3> QED BY <1>1, <2>1, <3>1, <3>2
    <2>4. CASE ActiveIn(Boot, ModuleAtHand)
      <3>0. beginVisit(ModuleAtHand)
        BY <1>3, <2>2, <2>4 DEF Walk
      <3>1. CASE (\E x \in known : SameName(ModuleAtHand, x)) \/ (ModuleAtHand \notin visited /\ ModuleAtHand \in Visiting)
        <4>1. Fail
          BY <3>0, <3>1 DEF beginVisit
        <4>2. Bad(Boot)
          BY <1>0, <2>1, <2>4, <3>1, WalkRefuses
        <4>3. WalkRefused
          <5>1. CASE pass = "bootstrap"
            <6>1. Boot = TRUE /\ app.configured = FALSE
              BY <5>1 DEF Boot, WalkInv
            <6> QED BY <4>2, <6>1 DEF WalkRefused
          <5>2. CASE pass # "bootstrap"
            <6>1. Boot = FALSE
              BY <5>2 DEF Boot
            <6> QED BY <4>2, <6>1 DEF WalkRefused
          <5> QED BY <5>1, <5>2
        <4> QED BY <1>2, <4>1, <4>3 DEF Fail
      <3>2. CASE ~((\E x \in known : SameName(ModuleAtHand, x)) \/ (ModuleAtHand \notin visited /\ ModuleAtHand \in Visiting))
        <4>1. /\ known' = known \cup {ModuleAtHand}
              /\ path' = (IF ModuleAtHand \in visited THEN Rest ELSE Append(Rest, Frame(ModuleAtHand)))
              /\ UNCHANGED <<app, pass, profile, visited, flat, bootFlat>>
          BY <3>0, <3>2 DEF beginVisit
        <4>2. CASE ModuleAtHand \in visited
          <5>1. known' = known
            BY <2>1, <4>1, <4>2 DEF WalkSound, MetReachable
          <5>2. WalkTyped' /\ WalkSound'
            BY <1>0, <2>1, <4>1, <4>2, <5>1, WalkPasses
          <5> QED BY <1>1, <2>1, <4>1, <5>2
        <4>3. CASE ModuleAtHand \notin visited
          <5>1. WalkTyped' /\ WalkSound'
            BY <1>0, <2>1, <2>4, <3>2, <4>1, <4>3, WalkEnters
          <5> QED BY <1>1, <2>1, <4>1, <5>1
        <4> QED BY <4>2, <4>3
      <3> QED BY <3>1, <3>2
    <2> QED BY <2>3, <2>4
  <1>4. CASE Finish
    <2>1. WalkSound /\ pass \in {"bootstrap", "main"} /\ UNCHANGED <<app, pass, profile, bootFlat>>
      BY <1>4 DEF Finish, WalkInv
    <2>2. WalkTyped' /\ WalkSound'
      BY <1>0, <1>4, <2>1, WalkLeaves
    <2> QED BY <1>1, <2>1, <2>2
  <1>5. CASE ResolveProfile
    <2>1. pass = "bootstrap" /\ Top.mod = Root /\ Top.next > Len(app.roots) /\ WalkSound /\ app.configured = FALSE /\ Boot = TRUE
      BY <1>5 DEF ResolveProfile, WalkInv, Boot
    <2>2. {flat[i] : i \in DOMAIN flat} = Reachable(TRUE)
      BY <1>0, <2>1, WalkThrough
    <2>3. InFlat(app.provider) <=> app.provider \in Reachable(TRUE)
      BY <2>2 DEF InFlat
    <2>4. app.resolves \in BOOLEAN
      BY <1>0 DEF AppRecords
    <2>5. CASE InFlat(app.provider) /\ ~app.resolves
      <3>1. Fail
        BY <1>5, <2>5 DEF ResolveProfile
      <3>2. app.resolves = FALSE
        BY <2>4, <2>5
      <3>3. WalkRefused
        BY <2>1, <2>3, <2>5, <3>2 DEF WalkRefused
      <3> QED BY <1>2, <3>1, <3>3 DEF Fail
    <2>6. CASE ~(InFlat(app.provider) /\ ~app.resolves)
      <3>1. /\ pass' = "main" /\ profile' = (IF InFlat(app.provider) THEN "dev" ELSE "default")
            /\ path' = <<Frame(Root)>> /\ visited' = {} /\ known' = {}
            /\ flat' = <<>> /\ bootFlat' = flat /\ UNCHANGED app
        BY <1>5, <2>6 DEF ResolveProfile
      <3>2. Frame(Root) \in Frames
        BY DEF Frame, Frames
      <3>3. WalkTyped'
        BY <1>0, <3>1, <3>2 DEF WalkTyped
      <3>4. WalkSound'
        BY <3>1, <3>3, FreshSoundNext DEF WalkFresh
      <3>5. Reachable(TRUE)' = Reachable(TRUE)
        BY <3>1, ReachesSame
      <3>6. ProfileFound'
        BY <2>1, <2>2, <2>3, <3>1, <3>5 DEF ProfileFound
      <3> QED BY <3>1, <3>3, <3>4, <3>6 DEF WalkInv
    <2> QED BY <2>5, <2>6
  <1>6. CASE Planned
    <2>1. pass = "main" /\ Top.mod = Root /\ Top.next > Len(app.roots) /\ pass' = "done"
          /\ UNCHANGED <<app, profile, path, visited, known, flat, bootFlat>> /\ WalkSound /\ ProfileFound
      BY <1>6 DEF Planned, WalkInv
    <2>2. WalkTyped'
      BY <1>0, <2>1 DEF WalkTyped
    <2>3. Boot' = Boot
      BY <2>1 DEF Boot
    <2>4. /\ \A m : Children(m)' = Children(m)
          /\ \A m, j : Kid(m, j)' = Kid(m, j)
          /\ \A m : ActiveIn(Boot, m)' <=> ActiveIn(Boot, m)
          /\ \A S : Closed(Boot, S)' <=> Closed(Boot, S)
          /\ \A m, n : SameName(m, n)' <=> SameName(m, n)
      BY <2>1, <2>3, GraphKept
    <2>5. PathChained' /\ ImportsDone' /\ InOrder'
      BY <2>1, <2>4 DEF WalkSound, PathChained, ImportsDone, InOrder
    <2>6. MetReachable'
      BY <2>1, <2>4 DEF WalkSound, MetReachable, Visiting
    <2>7. Reachable(TRUE)' = Reachable(TRUE)
      BY <2>1, ReachesSame
    <2>8. ProfileFound'
      BY <2>1, <2>7 DEF ProfileFound
    <2>9. Top' = Top
      BY <2>1 DEF Top
    <2> QED BY <2>1, <2>2, <2>5, <2>6, <2>8, <2>9 DEF WalkInv, WalkSound
  <1>7. CASE UNCHANGED walkVars
    <2>1. UNCHANGED <<app, pass, profile, path, visited, known, flat, bootFlat>>
      BY <1>7 DEF walkVars
    <2>2. WalkTyped' /\ Top' = Top
      BY <1>0, <2>1 DEF WalkTyped, Top
    <2>3. Boot' = Boot
      BY <2>1 DEF Boot
    <2>4. /\ \A m : Children(m)' = Children(m)
          /\ \A m, j : Kid(m, j)' = Kid(m, j)
          /\ \A m : ActiveIn(Boot, m)' <=> ActiveIn(Boot, m)
          /\ \A S : Closed(Boot, S)' <=> Closed(Boot, S)
          /\ \A m, n : SameName(m, n)' <=> SameName(m, n)
      BY <2>1, <2>3, GraphKept
    <2>5. ASSUME WalkSound PROVE WalkSound'
      <3>1. PathChained' /\ ImportsDone' /\ InOrder'
        BY <2>1, <2>4, <2>5 DEF WalkSound, PathChained, ImportsDone, InOrder
      <3>2. MetReachable'
        BY <2>1, <2>4, <2>5 DEF WalkSound, MetReachable, Visiting
      <3> QED BY <3>1, <3>2 DEF WalkSound
    <2>6. Reachable(TRUE)' = Reachable(TRUE) /\ Bad(TRUE)' = Bad(TRUE) /\ Bad(FALSE)' = Bad(FALSE)
      BY <2>1, ReachesSame
    <2>7. (ProfileFound => ProfileFound') /\ (WalkRefused => WalkRefused')
      BY <2>1, <2>6 DEF ProfileFound, WalkRefused
    <2> QED BY <2>1, <2>2, <2>5, <2>7 DEF WalkInv
  <1> QED BY <1>3, <1>4, <1>5, <1>6, <1>7 DEF WalkNext

LEMMA WalkExact ==
  ASSUME WalkInv
  PROVE  FlattenExact
  <1>0. WalkTyped /\ app \in AppRecords /\ app.configured \in BOOLEAN /\ app.resolves \in BOOLEAN
    <2>1. app \in AppRecords
      BY DEF WalkInv, WalkTyped
    <2>2. app.configured \in BOOLEAN /\ app.resolves \in BOOLEAN
      BY <2>1 DEF AppRecords
    <2> QED BY <2>1, <2>2 DEF WalkInv
  <1>1. (~app.configured <=> app.configured = FALSE) /\ (~app.resolves <=> app.resolves = FALSE)
    BY <1>0
  <1>2. CASE pass = "done"
    <2>1. WalkSound /\ ProfileFound /\ Top.mod = Root /\ Top.next > Len(app.roots) /\ Boot = FALSE
      BY <1>2 DEF WalkInv, Boot
    <2>2. /\ ~Bad(FALSE)
          /\ {flat[i] : i \in DOMAIN flat} = Reachable(FALSE) /\ Len(flat) = Cardinality(Reachable(FALSE))
          /\ \A i, j \in DOMAIN flat : flat[j] \in ActiveChildren(FALSE, flat[i]) => j < i
      BY <1>0, <2>1, WalkThrough
    <2>3. Reachable(TRUE) \subseteq Reachable(FALSE)
      BY <1>0, BootstrapAmong
    <2> QED BY <1>1, <1>2, <2>1, <2>2, <2>3 DEF FlattenExact, ProfileFound
  <1>3. CASE pass = "failed"
    BY <1>1, <1>3 DEF WalkInv, WalkRefused, FlattenExact
  <1>4. CASE pass # "done" /\ pass # "failed"
    BY <1>4 DEF FlattenExact
  <1> QED BY <1>2, <1>3, <1>4

\* FlattenExact, for every finite set of modules and every way they import one another.
THEOREM FlattenExactAlways == Spec => []FlattenExact
  <1>1. Init => WalkInv
    BY WalkStarts
  <1>2. [Next]_vars => [WalkNext]_walkVars
    BY DEF Next, vars, walkVars
  <1>3. WalkInv => FlattenExact
    BY WalkExact
  <1> QED BY <1>1, <1>2, <1>3, WalkStep, PTL DEF Spec

-----------------------------------------------------------------------------
(* dix: the plan cache. *)

CacheTyped ==
  /\ declared \in BOOLEAN /\ plans \in Nat
  /\ builder \in [Builders -> {"idle", "compute", "store", "done"}]
  /\ DOMAIN got = Builders /\ DOMAIN seen = Builders

\* A call at work has seen what the provider says now; a plan computed in a call has a
\* profile seen in it; plans are stored only where the profile cannot change.
CacheKept ==
  /\ declared = FALSE => current = "default" /\ cache.profile = "default"
  /\ \A b \in Builders :
       /\ builder[b] = "compute" => current \in seen[b]
       /\ builder[b] \in {"store", "done"} => got[b].profile \in seen[b]
       /\ builder[b] = "store" => declared = FALSE /\ got[b].id # 0
       /\ builder[b] # "idle" /\ declared = FALSE => "default" \in seen[b] 
       /\ builder[b] \in {"store", "done"} /\ declared = FALSE => got[b].profile = "default"
       /\ builder[b] = "done" /\ declared = FALSE => got[b] = cache /\ cache.id # 0

CacheInv == CacheTyped /\ CacheKept

LEMMA CacheStarts == CacheInit => CacheInv
  <1> SUFFICES ASSUME CacheInit PROVE CacheInv  OBVIOUS
  <1>1. declared \in BOOLEAN
    BY DEF CacheInit
  <1>2. CacheTyped
    BY <1>1 DEF CacheInit, CacheTyped
  <1>3. \A b \in Builders : builder[b] = "idle"
    BY DEF CacheInit
  <1>4. NoPlan.profile = "default"
    BY DEF NoPlan
  <1>5. CacheKept
    BY <1>3, <1>4 DEF CacheInit, CacheKept
  <1> QED BY <1>2, <1>5 DEF CacheInv

LEMMA CacheStep == CacheInv /\ [CacheNext]_cacheVars => CacheInv'
  <1> SUFFICES ASSUME CacheInv, [CacheNext]_cacheVars PROVE CacheInv'  OBVIOUS
  <1>0. CacheTyped /\ CacheKept
    BY DEF CacheInv
  <1>1. ASSUME NEW p \in Profiles, SetProfile(p) PROVE CacheInv'
    <2>1. /\ declared /\ current' = p /\ UNCHANGED <<declared, cache, plans, builder, got>>
          /\ seen' = [b \in Builders |-> IF builder[b] \in {"idle", "done"} THEN seen[b] ELSE seen[b] \cup {p}]
      BY <1>1 DEF SetProfile
    <2>2. declared = TRUE
      BY <1>0, <2>1 DEF CacheTyped
    <2>3. CacheTyped'
      BY <1>0, <2>1 DEF CacheTyped
    <2>4. \A b \in Builders : seen[b] \subseteq seen'[b] /\ (builder[b] = "compute" => p \in seen'[b])
      BY <2>1
    <2>5. CacheKept'
      BY <1>0, <2>1, <2>2, <2>4 DEF CacheKept
    <2> QED BY <2>3, <2>5 DEF CacheInv
  <1>2. ASSUME NEW b \in Builders, LookUpPlan(b) PROVE CacheInv'
    <2>1. /\ builder[b] = "idle" /\ seen' = [seen EXCEPT ![b] = {current}] /\ UNCHANGED <<declared, current, cache, plans>>
          /\ \/ /\ ~declared /\ cache.id # 0
                /\ got' = [got EXCEPT ![b] = cache] /\ builder' = [builder EXCEPT ![b] = "done"]
             \/ builder' = [builder EXCEPT ![b] = "compute"] /\ UNCHANGED got
      BY <1>2 DEF LookUpPlan, buildPlanCacheable
    <2>2. CacheTyped'
      BY <1>0, <2>1 DEF CacheTyped
    <2>3. seen'[b] = {current} /\ \A c \in Builders : c # b => seen'[c] = seen[c] /\ builder'[c] = builder[c] /\ got'[c] = got[c]
      BY <1>0, <2>1 DEF CacheTyped
    <2>4. \/ declared = FALSE /\ cache.id # 0 /\ got'[b] = cache /\ builder'[b] = "done"
          \/ builder'[b] = "compute"
      BY <1>0, <2>1 DEF CacheTyped
    <2>5. CacheKept'
      BY <1>0, <2>1, <2>3, <2>4 DEF CacheKept
    <2> QED BY <2>2, <2>5 DEF CacheInv
  <1>3. ASSUME NEW b \in Builders, ComputePlan(b) PROVE CacheInv'
    <2>1. PICK new : new = [id |-> plans + 1, profile |-> current]  OBVIOUS
    <2>2. new.id = plans + 1 /\ new.profile = current
      BY <2>1
    <2>3. /\ builder[b] = "compute" /\ plans' = plans + 1 /\ got' = [got EXCEPT ![b] = new]
          /\ builder' = [builder EXCEPT ![b] = IF ~declared THEN "store" ELSE "done"]
          /\ UNCHANGED <<declared, current, cache, seen>>
      BY <1>3, <2>1 DEF ComputePlan, buildPlanCacheable
    <2>4. CacheTyped'
      BY <1>0, <2>3 DEF CacheTyped
    <2>5. got'[b] = new /\ \A c \in Builders : c # b => builder'[c] = builder[c] /\ got'[c] = got[c]
      BY <1>0, <2>3 DEF CacheTyped
    <2>6. (declared = FALSE /\ builder'[b] = "store") \/ (declared = TRUE /\ builder'[b] = "done")
      BY <1>0, <2>3 DEF CacheTyped
    <2>7. new.id # 0
      BY <1>0, <2>2 DEF CacheTyped
    <2>8. CacheKept'
      BY <1>0, <2>2, <2>3, <2>5, <2>6, <2>7 DEF CacheKept
    <2> QED BY <2>4, <2>8 DEF CacheInv
  <1>4. ASSUME NEW b \in Builders, StorePlan(b) PROVE CacheInv'
    <2>1. /\ builder[b] = "store" /\ cache' = (IF cache.id = 0 THEN got[b] ELSE cache) /\ got' = [got EXCEPT ![b] = cache']
          /\ builder' = [builder EXCEPT ![b] = "done"] /\ UNCHANGED <<declared, current, plans, seen>>
      BY <1>4 DEF StorePlan
    <2>2. CacheTyped'
      BY <1>0, <2>1 DEF CacheTyped
    <2>3. got'[b] = cache' /\ builder'[b] = "done" /\ \A c \in Builders : c # b => builder'[c] = builder[c] /\ got'[c] = got[c]
      BY <1>0, <2>1 DEF CacheTyped
    <2>4. declared = FALSE /\ got[b].id # 0 /\ got[b].profile = "default"
      BY <1>0, <2>1 DEF CacheKept
    <2>5. cache'.id # 0 /\ cache'.profile = "default" /\ (cache.id # 0 => cache' = cache)
      BY <1>0, <2>1, <2>4 DEF CacheKept
    <2>6. CacheKept'
      BY <1>0, <2>1, <2>3, <2>4, <2>5 DEF CacheKept
    <2> QED BY <2>2, <2>6 DEF CacheInv
  <1>5. CASE UNCHANGED cacheVars
    <2>1. UNCHANGED <<declared, current, cache, plans, builder, got, seen>>
      BY <1>5 DEF cacheVars
    <2> QED BY <1>0, <2>1 DEF CacheInv, CacheTyped, CacheKept
  <1> QED BY <1>1, <1>2, <1>3, <1>4, <1>5 DEF CacheNext

\* PlansFresh, for any number of goroutines that build one App.
THEOREM PlansFreshAlways == Spec => []PlansFresh
  <1>1. Init => CacheInv
    BY CacheStarts DEF Init
  <1>2. [Next]_vars => [CacheNext]_cacheVars
    BY DEF Next, vars, cacheVars
  <1>3. CacheInv => PlansFresh
    BY DEF CacheInv, CacheTyped, CacheKept, PlansFresh
  <1> QED BY <1>1, <1>2, <1>3, CacheStep, PTL DEF Spec
=============================================================================
