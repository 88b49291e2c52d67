--------------------------- MODULE ServicesProofs ---------------------------
(***************************************************************************)
(* What runs beside an application, proved for every value of the bounds:  *)
(* the configuration watcher, a server that is started and stopped, a      *)
(* websocket connection, the dispatcher of an observer and the health      *)
(* report. Each part of MCServices takes only its own steps, so each has   *)
(* an invariant of its own.                                                *)
(***************************************************************************)
EXTENDS MCServices, FiniteSetTheorems, WellFoundedInduction, TLAPS

-----------------------------------------------------------------------------
(* configx: the Watcher. *)

WatchTyped ==
  /\ version \in Versions /\ good \subseteq Versions
  /\ loop \in {"idle", "run", "stopped"} /\ phase \in [Reloads -> Phase]
  /\ subs \in 0..MaxHandlers /\ started \in 0..MaxReloads
  /\ cfg \in good /\ typed \in good
  /\ got \in [Reloads -> Versions] /\ timer \in BOOLEAN
  /\ \A v \in good : v <= version

\* The timer is armed only while the loop runs.
TimerInv == timer => loop = "run"

\* A reload has read files that exist by now, and what it is to store they loaded to.
GotInv ==
  /\ \A r \in Reloads : phase[r] \in {"store", "notify"} => got[r] \in good
  /\ \A r \in Reloads : phase[r] = "none" <=> r > started

\* Of reloads at the same time each is in overlap; one that is not has read nothing older
\* than what is in force.
AloneInv ==
  /\ \A r, q \in Active : r # q => r \in overlap
  /\ \A r \in Active : r \notin overlap /\ phase[r] \in {"store", "notify"} => cfg <= got[r] /\ typed <= got[r]

WatchInv == WatchTyped /\ TimerInv /\ GotInv /\ AloneInv

\* The watcher begins with the configuration it was made with and no reload.
LEMMA WatchStarts == WatchInit => WatchInv
  <1> SUFFICES ASSUME WatchInit PROVE WatchInv  OBVIOUS
  <1> USE WatchAssumption
  <1>1. WatchTyped
    <2>1. 0 \in Versions /\ 0 \in 0..MaxHandlers /\ 0 \in 0..MaxReloads
      BY DEF Versions
    <2>2. phase \in [Reloads -> Phase] /\ got \in [Reloads -> Versions]
      BY <2>1 DEF WatchInit, Phase
    <2>3. timer \in BOOLEAN
      BY DEF WatchInit
    <2>4. good \subseteq Versions /\ cfg \in good /\ typed \in good /\ \A v \in good : v <= version
      BY <2>1 DEF WatchInit
    <2> QED BY <2>1, <2>2, <2>3, <2>4 DEF WatchInit, WatchTyped
  <1>2. TimerInv /\ GotInv
    BY DEF WatchInit, TimerInv, GotInv, Reloads
  <1>3. AloneInv
    BY DEF WatchInit, AloneInv, Active
  <1> QED BY <1>1, <1>2, <1>3 DEF WatchInv

\* A step of a reload.
LEMMA ReloadKeeps ==
  ASSUME WatchInv, NEW r \in Reloads, ReloadStep(r)
  PROVE  WatchInv' /\ (r \notin overlap => cfg' >= cfg /\ typed' >= typed)
  <1> USE WatchAssumption
  <1>0. WatchTyped /\ TimerInv /\ GotInv /\ AloneInv
    BY DEF WatchInv
  <1>1. /\ version' = version /\ good' = good /\ loop' = loop /\ timer' = timer /\ subs' = subs
        /\ started' = started /\ overlap' = overlap
    BY DEF ReloadStep, Load, Store, CallHandler, ReloadEnds, loopVars
  <1>2. TimerInv'
    BY <1>0, <1>1 DEF TimerInv
  <1>3. r \in Active
    BY DEF ReloadStep, Load, Store, CallHandler, ReloadEnds, Active
  <1>4. phase \in [Reloads -> Phase] /\ got \in [Reloads -> Versions] /\ version \in Versions /\ cfg \in good /\ typed \in good
        /\ good \subseteq Versions /\ (\A v \in good : v <= version) /\ \A v \in Versions : v \in Nat
    BY <1>0 DEF WatchTyped, Versions
  <1>5. \A q \in Active : q # r => q \in overlap
    BY <1>0, <1>3 DEF AloneInv
  <1>6. phase[r] # "none"
    BY <1>3 DEF Active
  \* The facts from which the rest follows, for each of the steps.
  <1> DEFINE Rest ==
        /\ phase' \in [Reloads -> Phase] /\ got' \in [Reloads -> Versions] /\ cfg' \in good /\ typed' \in good
        /\ \A q \in Reloads : q # r => phase'[q] = phase[q] /\ got'[q] = got[q]
        /\ phase'[r] # "none"
        /\ phase'[r] \in {"store", "notify"} => got'[r] \in good
        /\ r \notin overlap => cfg' >= cfg /\ typed' >= typed
        /\ r \notin overlap /\ phase'[r] \in {"store", "notify"} => cfg' <= got'[r] /\ typed' <= got'[r]
  <1>11. Rest
    <2>7. CASE Load(r)
      BY <1>4, <2>7 DEF Load, Phase
    <2>8. CASE Store(r)
      <3>1. got' = got /\ typed' = typed
        BY <2>8 DEF Store
      <3>2. phase[r] = "store" => got[r] \in good
        BY <1>0 DEF GotInv
      <3>3. r \notin overlap /\ phase[r] = "store" => cfg <= got[r] /\ typed <= got[r]
        BY <1>0, <1>3 DEF AloneInv
      <3>4. got[r] \in Nat /\ cfg \in Nat /\ typed \in Nat
        BY <1>4
      <3>5. CASE phase[r] = "store"
        <4>1. phase' = [phase EXCEPT ![r] = "notify"] /\ cfg' = got[r]
          BY <2>8, <3>5 DEF Store
        <4> QED BY <1>4, <3>1, <3>2, <3>3, <3>4, <3>5, <4>1 DEF Phase
      <3>6. CASE phase[r] = "failed"
        <4>1. phase' = [phase EXCEPT ![r] = "notifyErr"] /\ cfg' = cfg
          BY <2>8, <3>6 DEF Store
        <4> QED BY <1>4, <3>1, <3>4, <4>1 DEF Phase
      <3> QED BY <2>8, <3>5, <3>6 DEF Store
    <2>9. CASE CallHandler(r)
      <3>1. got' = got /\ cfg' = cfg /\ phase' = phase /\ (typed' = typed \/ (phase[r] = "notify" /\ typed' = got[r]))
        BY <2>9 DEF CallHandler
      <3>2. phase[r] = "notify" => got[r] \in good
        BY <1>0 DEF GotInv
      <3>3. r \notin overlap /\ phase[r] \in {"store", "notify"} => cfg <= got[r] /\ typed <= got[r]
        BY <1>0, <1>3 DEF AloneInv
      <3>4. got[r] \in Nat /\ cfg \in Nat /\ typed \in Nat /\ phase[r] \in {"notify", "notifyErr"}
        BY <1>4, <2>9 DEF CallHandler
      <3> QED BY <1>4, <1>6, <3>1, <3>2, <3>3, <3>4
    <2>10. CASE ReloadEnds(r)
      <3>1. got' = got /\ cfg' = cfg /\ typed' = typed /\ phase' = [phase EXCEPT ![r] = "done"]
        BY <2>10 DEF ReloadEnds
      <3>2. cfg \in Nat /\ typed \in Nat
        BY <1>4
      <3> QED BY <1>4, <3>1, <3>2 DEF Phase
    <2> QED BY <2>7, <2>8, <2>9, <2>10 DEF ReloadStep
  <1> HIDE DEF Rest
  <1>12. WatchTyped'
    BY <1>0, <1>1, <1>11 DEF WatchTyped, Rest
  <1>13. GotInv'
    BY <1>0, <1>1, <1>6, <1>11 DEF GotInv, Rest
  <1>14. AloneInv'
    <2>1. \A q \in Active' : q # r => q \in Active
      BY <1>11 DEF Active, Rest
    <2>2. \A p, q \in Active' : p # q => p \in overlap'
      BY <2>1, <1>0, <1>1, <1>3, <1>5 DEF AloneInv
    <2>3. ASSUME NEW q \in Active', q \notin overlap', phase'[q] \in {"store", "notify"} PROVE cfg' <= got'[q] /\ typed' <= got'[q]
      <3>1. q = r
        BY <2>1, <2>3, <1>1, <1>5
      <3> QED BY <2>3, <3>1, <1>1, <1>11 DEF Rest
    <2> QED BY <2>2, <2>3 DEF AloneInv
  <1> QED
    BY <1>2, <1>11, <1>12, <1>13, <1>14 DEF WatchInv, Rest

\* The other steps.
LEMMA WatchKeeps ==
  ASSUME WatchInv, Write \/ Trigger \/ OnChange \/ Cancel \/ Close \/ Start \/ ResetTimer \/ Stop \/ Fire \/ UNCHANGED watchVars
  PROVE  WatchInv'
  <1> USE WatchAssumption
  <1>0. WatchTyped /\ TimerInv /\ GotInv /\ AloneInv
    BY DEF WatchInv
  <1>1. CASE Fire
    <2>1. /\ version' = version /\ good' = good /\ loop' = loop /\ timer' = FALSE /\ subs' = subs
          /\ started' = started + 1 /\ cfg' = cfg /\ typed' = typed /\ got' = got
          /\ started < MaxReloads /\ phase' = [phase EXCEPT ![started + 1] = "load"]
          /\ overlap' = IF Active = {} THEN overlap ELSE overlap \cup Active \cup {started + 1}
      BY <1>1 DEF Fire
    <2>2. PICK n : n = started + 1  OBVIOUS
    <2>3. n \in Reloads /\ phase' = [phase EXCEPT ![n] = "load"] /\ phase \in [Reloads -> Phase] /\ phase[n] = "none"
      BY <1>0, <2>1, <2>2 DEF WatchTyped, GotInv, Reloads
    <2>4. phase' \in [Reloads -> Phase] /\ phase'[n] = "load" /\ \A q \in Reloads : q # n => phase'[q] = phase[q]
      BY <2>3 DEF Phase
    <2>5. WatchTyped'
      <3>1. timer' \in BOOLEAN
        BY <2>1
      <3>2. started' \in 0..MaxReloads
        BY <1>0, <2>1 DEF WatchTyped
      <3> QED BY <1>0, <2>1, <2>4, <3>1, <3>2 DEF WatchTyped
    <2>6. TimerInv'
      BY <2>1 DEF TimerInv
    <2>7. GotInv'
      <3>1. \A q \in Reloads : q # n => (q > started + 1 <=> q > started)
        BY <2>2, <1>0 DEF WatchTyped, Reloads
      <3>2. ~(n > started + 1)
        BY <2>2, <1>0 DEF WatchTyped
      <3> QED BY <1>0, <2>1, <2>4, <3>1, <3>2 DEF GotInv
    <2>8. Active' = Active \cup {n} /\ n \notin Active
      BY <2>3, <2>4 DEF Active
    <2>9. AloneInv'
      <3>1. CASE Active = {}
        BY <3>1, <2>4, <2>8 DEF AloneInv
      <3>2. CASE Active # {}
        BY <3>2, <2>1, <2>2, <2>8 DEF AloneInv
      <3> QED BY <3>1, <3>2
    <2> QED BY <2>5, <2>6, <2>7, <2>9 DEF WatchInv
  <1>2. CASE Write
    <2>1. /\ version' = version + 1 /\ version < MaxWrites /\ loop' = loop /\ timer' = timer /\ subs' = subs
          /\ started' = started /\ cfg' = cfg /\ typed' = typed /\ got' = got /\ phase' = phase /\ overlap' = overlap
          /\ (good' = good \/ good' = good \cup {version + 1})
      BY <1>2 DEF Write, reloadVars
    <2>2. WatchTyped'
      <3>1. timer' \in BOOLEAN
        BY <1>0, <2>1 DEF WatchTyped
      <3>2. version' \in Versions /\ good' \subseteq Versions /\ cfg' \in good' /\ typed' \in good'
            /\ \A v \in good' : v <= version'
        <4>1. PICK w : w = version + 1  OBVIOUS
        <4>2. w \in Versions /\ w \in Int /\ w <= w /\ version \in Int /\ version < w
          BY <1>0, <2>1, <4>1 DEF WatchTyped, Versions
        <4>3. good \subseteq Versions /\ cfg \in good /\ typed \in good /\ \A v \in good : v <= version
          BY <1>0 DEF WatchTyped
        <4>4. \A v \in good : v <= w
          BY <4>2, <4>3 DEF Versions
        <4>5. good' = good \/ good' = good \cup {w}
          BY <2>1, <4>1
        <4> QED BY <2>1, <4>1, <4>2, <4>3, <4>4, <4>5
      <3> QED BY <1>0, <2>1, <3>1, <3>2 DEF WatchTyped
    <2>3. TimerInv' /\ GotInv' /\ AloneInv'
      BY <1>0, <2>1 DEF TimerInv, GotInv, AloneInv, Active
    <2> QED BY <2>2, <2>3 DEF WatchInv
  <1>3. CASE Trigger \/ OnChange \/ Cancel \/ Close \/ Start \/ ResetTimer \/ Stop \/ UNCHANGED watchVars
    <2>1. /\ version' = version /\ good' = good
          /\ started' = started /\ cfg' = cfg /\ typed' = typed /\ got' = got /\ phase' = phase /\ overlap' = overlap
      BY <1>3 DEF Trigger, OnChange, Cancel, Close, Start, ResetTimer, Stop, watchVars, reloadVars, loopVars
    <2>2. subs' \in 0..MaxHandlers
      BY <1>0, <1>3 DEF WatchTyped, Trigger, OnChange, Cancel, Close, Start, ResetTimer, Stop, watchVars, reloadVars, loopVars
    <2>3. timer' \in BOOLEAN /\ loop' \in {"idle", "run", "stopped"}
      BY <1>0, <1>3 DEF WatchTyped, Trigger, OnChange, Cancel, Close, Start, ResetTimer, Stop, watchVars, reloadVars, loopVars
    <2>4. TimerInv'
      BY <1>0, <1>3 DEF WatchTyped, TimerInv, Trigger, OnChange, Cancel, Close, Start, ResetTimer, Stop, watchVars, reloadVars, loopVars
    <2>5. WatchTyped'
      BY <1>0, <2>1, <2>2, <2>3 DEF WatchTyped
    <2>6. GotInv' /\ AloneInv'
      BY <1>0, <2>1 DEF GotInv, AloneInv, Active
    <2> QED BY <2>4, <2>5, <2>6 DEF WatchInv
  <1> QED BY <1>1, <1>2, <1>3

\* Every step of the watcher keeps the invariant.
LEMMA WatchStep == WatchInv /\ [WatchNext]_watchVars => WatchInv'
  BY ReloadKeeps, WatchKeeps DEF WatchNext

\* TypeOK, in every behaviour, for any number of writes, reloads and handlers: in
\* particular the configuration in force, of Watcher and of WatcherT, is always one that
\* loaded.
THEOREM WatchTypeOK == Spec => []TypeOK
  <1>1. Init => WatchInv
    BY WatchStarts DEF Init
  <1>2. [Next]_vars => [WatchNext]_watchVars
    BY DEF Next, vars, watchVars
  <1>3. WatchInv /\ [Next]_vars => WatchInv'
    BY <1>2, WatchStep
  <1>4. WatchInv => TypeOK
    BY DEF WatchInv, WatchTyped, TypeOK
  <1> QED
    BY <1>1, <1>3, <1>4, PTL DEF Spec

\* ReloadsExact, in every behaviour: a reload that overlaps no other never takes Watcher's
\* or WatcherT's configuration back, and none starts once the loop has stopped.
THEOREM ReloadsExactAlways == Spec => ReloadsExact
  <1>1. Init => WatchInv
    BY WatchStarts DEF Init
  <1>2. [Next]_vars => [WatchNext]_watchVars
    BY DEF Next, vars, watchVars
  <1>3. WatchInv /\ [Next]_vars => WatchInv'
    BY <1>2, WatchStep
  <1>4. WatchInv /\ [Next]_vars => [\A r \in Reloads \ overlap : ReloadStep(r) => cfg' >= cfg /\ typed' >= typed]_watchVars
    BY ReloadKeeps
  <1>5. WatchInv /\ [Next]_vars => [loop = "stopped" => started' = started]_watchVars
    <2> SUFFICES ASSUME WatchInv, WatchNext, loop = "stopped" PROVE started' = started
      BY <1>2
    <2>1. ~timer
      BY DEF WatchInv, TimerInv
    <2> QED
      BY <2>1 DEF WatchNext, Write, Trigger, OnChange, Cancel, Close, Start, ResetTimer, Stop, Fire, ReloadStep,
                  Load, Store, CallHandler, ReloadEnds, reloadVars
  <1> QED
    BY <1>1, <1>3, <1>4, <1>5, PTL DEF Spec, ReloadsExact, NoRollbackUnlessOverlap, NoReloadAfterStop

-----------------------------------------------------------------------------
(* httpx: a server that is started and stopped. *)

ServeTyped ==
  /\ kind \in {"context", "fiber", "fallback", "background"}
  /\ listener \in {"none", "new", "tracked", "serving", "ended"}
  /\ listened \in {"", "closed", "failed"}
  /\ caller \in {"new", "waiting", "shutting", "draining", "returned"}

ServeBools == shut \in BOOLEAN /\ busy \in BOOLEAN /\ done \in BOOLEAN /\ missed \in BOOLEAN /\ cut \in BOOLEAN

\* There is no listener before the caller starts it.
Began == caller = "new" => listener = "none"

\* A connection is open only on a listener that serves, or has stopped to by a Shutdown.
ServeInv ==
  /\ ServeTyped /\ ServeBools
  /\ listened # "" <=> listener = "ended"
  /\ busy => listener = "serving" \/ shut
  /\ caller \in {"shutting", "draining", "returned"} => shut \/ missed \/ listened # ""
  /\ cut => caller = "returned" /\ (kind = "context" \/ missed)
  /\ Began

\* Before the caller begins nothing listens.
LEMMA ServeStarts == ServeInit => ServeInv
  BY DEF ServeInit, ServeInv, ServeTyped, ServeBools, Began

\* Whether a value is in a set is a Boolean.
LEMMA MembershipIsBoolean == \A x, S : (x \in S) \in BOOLEAN
  OBVIOUS

\* Every step of the caller, the listener, the connections and the context keeps it.
LEMMA ServeStep == ServeInv /\ [ServeNext]_serveVars => ServeInv'
  <1> SUFFICES ASSUME ServeInv, [ServeNext]_serveVars PROVE ServeInv'  OBVIOUS
  <1> USE DEF ServeInv, ServeTyped, ServeBools, Began
  <1>1. CASE Begin
    <2>1. /\ caller = "new" /\ caller' = "waiting" /\ (listener' = "tracked" \/ listener' = "new")
          /\ UNCHANGED <<kind, listened, shut, busy, done, missed, cut>>
      BY <1>1 DEF Begin
    <2>2. listener # "serving" /\ listener # "ended"
      BY <2>1 DEF ServeInv, Began
    <2> QED BY <2>1, <2>2
  <1>2. CASE ListenReturned
    BY <1>2 DEF ListenReturned
  <1>3. CASE Shutdown
    <2>1. /\ kind' = kind /\ listener' = listener /\ listened' = listened /\ busy' = busy /\ done' = done /\ caller = "waiting"
      BY <1>3 DEF Shutdown
    <2>2. shut' \in BOOLEAN /\ missed' \in BOOLEAN /\ (shut' <=> shut \/ activeServer) /\ (missed' <=> NoServer)
      <3>1. shut' = (shut \/ activeServer) /\ missed' = NoServer
        BY <1>3 DEF Shutdown
      <3>2. (shut \/ activeServer) \in BOOLEAN /\ NoServer \in BOOLEAN
        <4>1. CASE kind = "fiber"
          BY <4>1 DEF activeServer, NoServer
        <4>2. CASE kind # "fiber"
          <5>1. activeServer = (listener \in {"tracked", "serving"}) /\ NoServer = (listener \in {"none", "new"})
            BY <4>2, Zenon DEF activeServer, NoServer
          <5>2. activeServer \in BOOLEAN /\ NoServer \in BOOLEAN
            BY <5>1, MembershipIsBoolean
          <5> QED BY <5>2
        <4> QED BY <4>1, <4>2
      <3> QED BY <3>1, <3>2
    <2>3. activeServer \/ NoServer \/ listener = "ended"
      BY DEF activeServer, NoServer
    <2>4. ~cut
      BY <2>1
    <2>5. (kind = "context" /\ busy /\ caller' = "returned" /\ cut' = TRUE) \/ (caller' = "shutting" /\ cut' = cut)
      BY <1>3 DEF Shutdown
    <2> HIDE DEF activeServer, NoServer
    <2>6. ServeTyped' /\ Began' /\ (listened' # "" <=> listener' = "ended")
      BY <2>1, <2>5
    <2>7. cut' \in BOOLEAN
      BY <2>5
    <2>8. ServeBools'
      BY <2>1, <2>2, <2>7
    <2>9. (busy' => listener' = "serving" \/ shut') /\ (shut' \/ missed' \/ listened' # "")
      BY <2>1, <2>2, <2>3
    <2>10. cut' => caller' = "returned" /\ (kind' = "context" \/ missed')
      BY <2>1, <2>4, <2>5
    <2> QED BY <2>6, <2>8, <2>9, <2>10
  <1>4. CASE ShutdownReturns
    <2>1. /\ kind' = kind /\ listener' = listener /\ listened' = listened /\ busy' = busy /\ done' = done
          /\ shut' = shut /\ missed' = missed /\ caller = "shutting" /\ (shut => ~busy)
          /\ caller' = IF kind \in {"context", "fiber"} THEN "draining" ELSE "returned"
      BY <1>4 DEF ShutdownReturns
    <2>2. cut' \in BOOLEAN /\ (cut' <=> caller' = "returned" /\ busy)
      <3>1. cut' = (caller' = "returned" /\ busy)
        BY <1>4 DEF ShutdownReturns
      <3>2. (caller' = "returned" /\ busy) \in BOOLEAN
        OBVIOUS
      <3> QED BY <3>1, <3>2
    <2>3. busy => missed
      BY <2>1
    <2> QED BY <2>1, <2>2, <2>3
  <1>5. CASE Drained
    BY <1>5 DEF Drained
  <1>6. CASE ListenStep
    <2>1. UNCHANGED <<kind, shut, busy, caller, done, missed, cut>>
      BY <1>6 DEF ListenStep, trackServer, Serve, ServeEnds
    <2>2. /\ listener \in {"new", "tracked", "serving"} /\ listened = ""
          /\ listener = "serving" => shut
      BY <1>6 DEF ListenStep, trackServer, Serve, ServeEnds
    <2>3. \/ listener' = "tracked" /\ listened' = listened
          \/ listener' = "ended" /\ listened' \in {"closed", "failed"}
          \/ listener' = "serving" /\ listened' = listened
      BY <1>6 DEF ListenStep, trackServer, Serve, ServeEnds
    <2>4. ServeTyped' /\ Began' /\ (listened' # "" <=> listener' = "ended")
      BY <2>1, <2>2, <2>3
    <2>5. ServeBools'
      BY <2>1
    <2> QED BY <2>1, <2>2, <2>3, <2>4, <2>5
  <1>7. CASE Accept \/ Respond \/ CancelContext
    <2>1. UNCHANGED <<kind, listener, listened, shut, caller, missed, cut>>
      BY <1>7 DEF Accept, Respond, CancelContext
    <2>2. busy' \in BOOLEAN /\ done' \in BOOLEAN
      BY <1>7 DEF Accept, Respond, CancelContext
    <2>3. busy' => listener = "serving" \/ busy
      BY <1>7 DEF Accept, Respond, CancelContext
    <2>4. ServeBools'
      BY <2>1, <2>2
    <2> QED BY <2>1, <2>3, <2>4
  <1>8. CASE UNCHANGED serveVars
    BY ZenonT(60), <1>8 DEF serveVars
  <1> QED
    BY <1>1, <1>2, <1>3, <1>4, <1>5, <1>6, <1>7, <1>8 DEF ServeNext, CallerStep

\* The invariant says what ServeExact says.
LEMMA ServeHolds == ServeInv => ServeExact
  BY DEF ServeInv, ServeTyped, ServeBools, ServeExact, NothingServedAfterStop, DrainsUnlessCanceled

-----------------------------------------------------------------------------
(* httpx/websocket: what a connection reads. *)

WsInv ==
  /\ arrived \in Nat /\ read \in Seq(Nat) /\ recv \in Seq(Nat)
  /\ ReadInOrder /\ NoSendAfterClose

\* A new connection has taken no message.
LEMMA WsStarts == WsInit => WsInv
  <1> SUFFICES ASSUME WsInit PROVE WsInv  OBVIOUS
  <1>1. /\ arrived = 0 /\ read = <<>> /\ recv = <<>> /\ readLoop = "reading" /\ closed = FALSE
    BY DEF WsInit
  <1>2. /\ <<>> = [i \in 1..0 |-> i] /\ <<>> = [i \in 1..0 |-> 0 + i]
    OBVIOUS
  <1>3. ReadInOrder
    BY <1>1, <1>2 DEF ReadInOrder
  <1> QED BY <1>1, <1>3 DEF WsInv, NoSendAfterClose

\* The callbacks of the read loop and the calls of Read keep the invariant.
LEMMA WsStep == WsInv /\ [WsNext]_wsVars => WsInv'
  <1> SUFFICES ASSUME WsInv, [WsNext]_wsVars PROVE WsInv'  OBVIOUS
  <1>0. arrived \in Nat /\ read \in Seq(Nat) /\ recv \in Seq(Nat) /\ ReadInOrder /\ NoSendAfterClose
    BY DEF WsInv
  <1>1. NoSendAfterClose'
    BY <1>0 DEF NoSendAfterClose, WsNext, OnMessage, SendMessage, OnPing, ConnectionEnds, OnClose, BeginRead, Read,
                ReadCanceled, HandlerReturns, wsVars
  <1>2. CASE OnMessage
    <2>1. arrived' = arrived + 1 /\ readLoop = "reading" /\ readLoop' = "message" /\ read' = read /\ recv' = recv
      BY <1>2 DEF OnMessage
    <2>2. Len(read) + Len(recv) = arrived /\ Len(read) \in Nat /\ Len(recv) \in Nat
      BY <1>0, <2>1 DEF ReadInOrder
    <2>3. read' = [i \in 1..Len(read') |-> i] /\ recv' = [i \in 1..Len(recv') |-> Len(read') + i]
      BY <1>0, <2>1 DEF ReadInOrder
    <2>4. Len(read') + Len(recv') + (IF readLoop' = "message" THEN 1 ELSE 0) = arrived'
      BY <2>1, <2>2
    <2>5. ReadInOrder'
      BY <2>3, <2>4 DEF ReadInOrder
    <2> QED BY <1>0, <1>1, <2>1, <2>5 DEF WsInv
  <1>3. CASE SendMessage
    <2>1. /\ readLoop = "message" /\ readLoop' = "reading" /\ recv' = Append(recv, arrived) /\ arrived' = arrived /\ read' = read
      BY <1>3 DEF SendMessage
    <2>2. arrived = Len(read) + Len(recv) + 1 /\ Len(read) \in Nat /\ Len(recv) \in Nat
      BY <1>0, <2>1 DEF ReadInOrder
    <2>3. recv' \in Seq(Nat) /\ Len(recv') = Len(recv) + 1
      BY <1>0, <2>1
    <2>4. \A i \in 1..Len(recv') : recv'[i] = Len(read) + i
      <3> SUFFICES ASSUME NEW i \in 1..Len(recv') PROVE recv'[i] = Len(read) + i  OBVIOUS
      <3>1. CASE i = Len(recv) + 1
        BY <3>1, <1>0, <2>1, <2>2, <2>3
      <3>2. CASE i # Len(recv) + 1
        <4>1. i \in 1..Len(recv)
          BY <3>2, <2>3, <2>2
        <4>2. recv'[i] = recv[i]
          BY <4>1, <1>0, <2>1
        <4>3. recv[i] = Len(read) + i
          BY <1>0, <4>1 DEF ReadInOrder
        <4> QED BY <4>2, <4>3
      <3> QED BY <3>1, <3>2
    <2>5. recv' = [i \in 1..Len(recv') |-> Len(read) + i]
      BY <2>3, <2>4
    <2>6. ReadInOrder'
      <3>1. read' = [i \in 1..Len(read') |-> i] /\ recv' = [i \in 1..Len(recv') |-> Len(read') + i]
        BY <1>0, <2>1, <2>5 DEF ReadInOrder
      <3>2. Len(read') + Len(recv') + (IF readLoop' = "message" THEN 1 ELSE 0) = arrived'
        BY <2>1, <2>2, <2>3
      <3> QED BY <3>1, <3>2 DEF ReadInOrder
    <2> QED BY <1>0, <1>1, <2>1, <2>3, <2>6 DEF WsInv
  <1>4. CASE Read
    <2>1. arrived' = arrived /\ readLoop' = readLoop
      BY <1>4 DEF Read
    <2>2. CASE recv # <<>> /\ read' = Append(read, Head(recv)) /\ recv' = Tail(recv)
      <3>1. /\ Len(read) \in Nat /\ Len(recv) \in Nat /\ Len(recv) > 0 /\ Head(recv) = Len(read) + 1
        <4>1. Len(read) \in Nat /\ Len(recv) \in Nat /\ Len(recv) > 0 /\ Head(recv) = recv[1]
          BY <1>0, <2>2
        <4> QED BY <4>1, <1>0 DEF ReadInOrder
      <3>2. /\ read' \in Seq(Nat) /\ recv' \in Seq(Nat) /\ Len(read') = Len(read) + 1 /\ Len(recv') = Len(recv) - 1
        BY <1>0, <2>2, <3>1
      <3>3. \A i \in 1..Len(recv') : recv'[i] = Len(read') + i
        <4> SUFFICES ASSUME NEW i \in 1..Len(recv') PROVE recv'[i] = Len(read') + i  OBVIOUS
        <4>1. i + 1 \in 1..Len(recv) /\ recv'[i] = recv[i + 1]
          BY <1>0, <2>2, <3>1, <3>2
        <4>2. recv[i + 1] = Len(read) + (i + 1)
          BY <1>0, <4>1 DEF ReadInOrder
        <4> QED BY <4>1, <4>2, <3>1, <3>2
      <3>4. \A i \in 1..Len(read') : read'[i] = i
        <4> SUFFICES ASSUME NEW i \in 1..Len(read') PROVE read'[i] = i  OBVIOUS
        <4>1. CASE i = Len(read) + 1
          BY <4>1, <1>0, <2>2, <3>1, <3>2
        <4>2. CASE i # Len(read) + 1
          <5>1. i \in 1..Len(read)
            BY <4>2, <3>1, <3>2
          <5>2. read'[i] = read[i]
            BY <5>1, <1>0, <2>2, <3>1
          <5>3. read[i] = i
            BY <1>0, <5>1 DEF ReadInOrder
          <5> QED BY <5>2, <5>3
        <4> QED BY <4>1, <4>2
      <3>5. read' = [i \in 1..Len(read') |-> i] /\ recv' = [i \in 1..Len(recv') |-> Len(read') + i]
        BY <3>2, <3>3, <3>4
      <3>6. ReadInOrder'
        <4>1. Len(read) + Len(recv) + (IF readLoop = "message" THEN 1 ELSE 0) = arrived
          BY <1>0 DEF ReadInOrder
        <4>2. Len(read') + Len(recv') + (IF readLoop' = "message" THEN 1 ELSE 0) = arrived'
          BY <4>1, <2>1, <3>1, <3>2
        <4> QED BY <3>5, <4>2 DEF ReadInOrder
      <3> QED BY <1>0, <1>1, <2>1, <3>2, <3>6 DEF WsInv
    <2>3. CASE UNCHANGED <<recv, read>>
      BY <1>0, <1>1, <2>1, <2>3 DEF WsInv, ReadInOrder
    <2> QED BY <1>4, <2>2, <2>3 DEF Read
  <1>5. CASE OnPing \/ ConnectionEnds \/ OnClose \/ BeginRead \/ ReadCanceled \/ HandlerReturns \/ UNCHANGED wsVars
    <2>1. /\ arrived' = arrived /\ read' = read /\ recv' = recv /\ (readLoop' = "message" <=> readLoop = "message")
      BY <1>5 DEF OnPing, ConnectionEnds, OnClose, BeginRead, ReadCanceled, HandlerReturns, wsVars
    <2>2. ReadInOrder'
      BY <1>0, <2>1 DEF ReadInOrder
    <2> QED BY <1>0, <1>1, <2>1, <2>2 DEF WsInv
  <1> QED
    BY <1>2, <1>3, <1>4, <1>5 DEF WsNext

\* ServingExact, in every behaviour, for the four ways a server is started and any capacity
\* of the channel: no listener is left behind after a stop that found a server, connections
\* are drained, and messages are read in order and never sent on a closed channel.
THEOREM ServingExactAlways == Spec => []ServingExact
  <1>1. Init => ServeInv /\ WsInv
    BY ServeStarts, WsStarts DEF Init
  <1>2. [Next]_vars => [ServeNext]_serveVars /\ [WsNext]_wsVars
    BY DEF Next, vars
  <1>3. ServeInv /\ WsInv /\ [Next]_vars => (ServeInv /\ WsInv)'
    BY <1>2, ServeStep, WsStep
  <1>4. ServeInv /\ WsInv => ServingExact
    BY ServeHolds DEF ServingExact, WsInv, WsExact
  <1> QED
    BY <1>1, <1>3, <1>4, PTL DEF Spec

-----------------------------------------------------------------------------
(* dix: the dispatcher of an observer. *)

Events == [from : Emitters, nr : Nat]

Emitted == { x \in Emitters \X (1..MaxEvents) : x[2] <= sent[x[1]] }

\* Of one emitter, a later place in the sequence is a later event.
InOrder(s) == \A i, j \in DOMAIN s : i < j /\ s[i].from = s[j].from => s[i].nr < s[j].nr

ObserverTyped ==
  /\ pending \in Seq(Events) /\ received \in Seq(Events)
  /\ sent \in [Emitters -> 0..MaxEvents] /\ telling \subseteq Emitters

\* What waits is in order, younger than all that was received, and no younger than the
\* last event of its emitter.
OrderInv ==
  /\ InOrder(received) /\ InOrder(pending)
  /\ \A i \in DOMAIN received, j \in DOMAIN pending :
       received[i].from = pending[j].from => received[i].nr < pending[j].nr
  /\ \A i \in DOMAIN received : received[i].nr <= sent[received[i].from]
  /\ \A j \in DOMAIN pending : pending[j].nr <= sent[pending[j].from]

NotStranded == pending # <<>> => draining \/ token \/ telling # {}

CountInv == Len(received) + Len(pending) = Cardinality(Emitted)

ObserverInv == ObserverTyped /\ OrderInv /\ NotStranded /\ CountInv

\* What was emitted can be counted.
LEMMA EmittedFinite == IsFiniteSet(Emitted)
  <1>1. IsFiniteSet(1..MaxEvents)
    BY FS_Interval, ObserverAssumption
  <1>2. IsFiniteSet(Emitters \X (1..MaxEvents))
    BY <1>1, FS_Product, ObserverAssumption
  <1> QED BY <1>2, FS_Subset DEF Emitted

\* An observer that was told nothing has the invariant.
LEMMA ObserverStarts == ObserverInit => ObserverInv
  <1> SUFFICES ASSUME ObserverInit PROVE ObserverInv  OBVIOUS
  <1> USE ObserverAssumption
  <1>1. ObserverTyped
    BY DEF ObserverInit, ObserverTyped
  <1>2. OrderInv /\ NotStranded
    BY DEF ObserverInit, OrderInv, InOrder, NotStranded
  <1>3. Emitted = {}
    BY DEF ObserverInit, Emitted
  <1>4. CountInv
    BY <1>3, FS_EmptySet DEF ObserverInit, CountInv
  <1> QED BY <1>1, <1>2, <1>4 DEF ObserverInv

\* An event goes behind those that wait, and its emitter is about to send the token.
LEMMA EnqueueKeeps ==
  ASSUME ObserverInv, NEW e \in Emitters, Enqueue(e)
  PROVE  ObserverInv'
  <1> USE ObserverAssumption
  <1>0. ObserverTyped /\ OrderInv /\ NotStranded /\ CountInv
    BY DEF ObserverInv
  <1>1. PICK v : v = [from |-> e, nr |-> sent[e] + 1]  OBVIOUS
  <1>2. PICK n : n = sent[e] + 1  OBVIOUS
  <1>3. /\ pending' = Append(pending, v) /\ sent' = [sent EXCEPT ![e] = n] /\ telling' = telling \cup {e}
        /\ received' = received /\ sent[e] < MaxEvents
    BY <1>1, <1>2 DEF Enqueue
  <1>4. /\ sent \in [Emitters -> 0..MaxEvents] /\ n \in 1..MaxEvents /\ n \in Nat /\ sent[e] \in Nat /\ sent[e] < n
    BY <1>0, <1>2, <1>3 DEF ObserverTyped
  <1>5. v \in Events /\ v.from = e /\ v.nr = n
    BY <1>1, <1>2, <1>4 DEF Events
  <1>6. pending \in Seq(Events) /\ received \in Seq(Events)
    BY <1>0 DEF ObserverTyped
  <1>7. /\ pending' \in Seq(Events) /\ Len(pending') = Len(pending) + 1 /\ Len(pending) \in Nat
        /\ pending'[Len(pending) + 1] = v /\ \A i \in 1..Len(pending) : pending'[i] = pending[i]
    BY <1>3, <1>5, <1>6
  <1>8. /\ sent' \in [Emitters -> 0..MaxEvents] /\ sent'[e] = n /\ \A f \in Emitters : f # e => sent'[f] = sent[f]
    BY <1>3, <1>4
  <1>9. ObserverTyped'
    BY <1>0, <1>3, <1>7, <1>8 DEF ObserverTyped
  <1>10. NotStranded'
    BY <1>3 DEF NotStranded
  <1>11. /\ \A i \in DOMAIN received : received[i].nr \in Nat /\ received[i].from \in Emitters
         /\ \A i \in DOMAIN pending : pending[i].nr \in Nat /\ pending[i].from \in Emitters
    <2>1. /\ \A i \in DOMAIN received : received[i] \in Events
          /\ \A i \in DOMAIN pending : pending[i] \in Events
      BY <1>6
    <2> QED BY <2>1 DEF Events
  <1>12. \A i \in DOMAIN received : received[i].nr <= sent'[received[i].from] /\ (received[i].from = e => received[i].nr < n)
    BY <1>0, <1>4, <1>8, <1>11 DEF OrderInv
  <1>13. \A i \in DOMAIN pending : pending[i].nr <= sent'[pending[i].from] /\ (pending[i].from = e => pending[i].nr < n)
    BY <1>0, <1>4, <1>8, <1>11 DEF OrderInv
  <1>14. \A i \in DOMAIN pending' : 
           (i \in DOMAIN pending /\ pending'[i] = pending[i]) \/ (i = Len(pending) + 1 /\ pending'[i] = v)
    <2>1. DOMAIN pending' = 1..Len(pending') /\ DOMAIN pending = 1..Len(pending)
      BY <1>6, <1>7
    <2> QED BY <2>1, <1>7
  <1>15. OrderInv'
    <2>1. InOrder(received')
      BY <1>0, <1>3 DEF OrderInv, InOrder
    <2>2. ASSUME NEW i \in DOMAIN pending', NEW j \in DOMAIN pending', i < j, pending'[i].from = pending'[j].from
          PROVE  pending'[i].nr < pending'[j].nr
      <3>1. i \in DOMAIN pending /\ pending'[i] = pending[i]
        <4>1. i # Len(pending) + 1
          BY <1>6, <1>7, <2>2
        <4> QED BY <4>1, <1>14
      <3>2. CASE j \in DOMAIN pending /\ pending'[j] = pending[j]
        BY <3>1, <3>2, <2>2, <1>0 DEF OrderInv, InOrder
      <3>3. CASE pending'[j] = v
        BY <3>1, <3>3, <2>2, <1>5, <1>13
      <3> QED BY <3>2, <3>3, <1>14
    <2>3. InOrder(pending')
      BY <2>2 DEF InOrder
    <2>4. ASSUME NEW i \in DOMAIN received, NEW j \in DOMAIN pending', received[i].from = pending'[j].from
          PROVE  received[i].nr < pending'[j].nr
      <3>2. CASE j \in DOMAIN pending /\ pending'[j] = pending[j]
        BY <3>2, <2>4, <1>0 DEF OrderInv
      <3>3. CASE pending'[j] = v
        BY <3>3, <2>4, <1>5, <1>12
      <3> QED BY <3>2, <3>3, <1>14
    <2>5. ASSUME NEW j \in DOMAIN pending' PROVE pending'[j].nr <= sent'[pending'[j].from]
      <3>2. CASE j \in DOMAIN pending /\ pending'[j] = pending[j]
        BY <3>2, <1>13
      <3>3. CASE pending'[j] = v
        BY <3>3, <1>4, <1>5, <1>8
      <3> QED BY <3>2, <3>3, <1>14
    <2> QED BY <2>1, <2>3, <2>4, <2>5, <1>3, <1>12 DEF OrderInv
  <1>16. Emitted' = Emitted \cup {<<e, n>>} /\ <<e, n>> \notin Emitted
    <2>1. <<e, n>> \notin Emitted
      BY <1>4 DEF Emitted
    <2>2. \A f \in Emitters, m \in 1..MaxEvents : m <= sent'[f] <=> m <= sent[f] \/ (f = e /\ m = n)
      <3> SUFFICES ASSUME NEW f \in Emitters, NEW m \in 1..MaxEvents PROVE m <= sent'[f] <=> m <= sent[f] \/ (f = e /\ m = n)
        OBVIOUS
      <3>1. CASE f = e
        BY <3>1, <1>2, <1>4, <1>8
      <3>2. CASE f # e
        BY <3>2, <1>8
      <3> QED BY <3>1, <3>2
    <2>3. \A x \in Emitters \X (1..MaxEvents) : x[1] \in Emitters /\ x[2] \in 1..MaxEvents /\ x = <<x[1], x[2]>>
      OBVIOUS
    <2>4. \A x \in Emitters \X (1..MaxEvents) : x \in Emitted' <=> x \in Emitted \/ x = <<e, n>>
      BY <2>2, <2>3 DEF Emitted
    <2>5. <<e, n>> \in Emitters \X (1..MaxEvents)
      BY <1>4
    <2>6. \A x \in Emitted' : x \in Emitters \X (1..MaxEvents)
      BY DEF Emitted
    <2>7. \A x \in Emitted : x \in Emitters \X (1..MaxEvents)
      BY DEF Emitted
    <2> QED BY <2>1, <2>4, <2>5, <2>6, <2>7
  <1>17. Cardinality(Emitted') = Cardinality(Emitted) + 1
    BY <1>16, EmittedFinite, FS_AddElement
  <1>18. CountInv'
    BY <1>0, <1>3, <1>6, <1>7, <1>17 DEF CountInv
  <1> QED
    BY <1>9, <1>10, <1>15, <1>18 DEF ObserverInv

\* The oldest event is taken; an empty queue ends the inner loop.
LEMMA DeliverKeeps ==
  ASSUME ObserverInv, Deliver
  PROVE  ObserverInv'
  <1>0. ObserverTyped /\ OrderInv /\ NotStranded /\ CountInv
    BY DEF ObserverInv
  <1>1. sent' = sent /\ telling' = telling /\ token' = token /\ draining
    BY DEF Deliver
  <1>2. pending \in Seq(Events) /\ received \in Seq(Events)
    BY <1>0 DEF ObserverTyped
  <1>3. Emitted' = Emitted
    BY <1>1 DEF Emitted
  <1>4. CASE pending = <<>>
    <2>1. pending' = <<>> /\ pending' = pending /\ received' = received
      BY <1>4 DEF Deliver
    <2>2. ObserverTyped' /\ NotStranded' /\ CountInv'
      BY <1>0, <1>1, <1>3, <2>1 DEF ObserverTyped, NotStranded, CountInv
    <2>3. OrderInv'
      BY <1>0, <1>1, <2>1 DEF OrderInv, InOrder
    <2> QED BY <2>2, <2>3 DEF ObserverInv
  <1>5. CASE pending # <<>>
    <2>1. received' = Append(received, Head(pending)) /\ pending' = Tail(pending) /\ draining'
      BY <1>1, <1>5 DEF Deliver
    <2>2. PICK v : v = Head(pending)  OBVIOUS
    <2>3. /\ Len(pending) \in Nat /\ Len(pending) > 0 /\ v = pending[1] /\ v \in Events /\ 1 \in DOMAIN pending
          /\ Len(received) \in Nat
      BY <1>2, <1>5, <2>2
    <2>4. /\ pending' \in Seq(Events) /\ Len(pending') = Len(pending) - 1
          /\ \A i \in DOMAIN pending' : i + 1 \in DOMAIN pending /\ pending'[i] = pending[i + 1]
      BY <1>2, <1>5, <2>1, <2>3
    <2>5. /\ received' \in Seq(Events) /\ Len(received') = Len(received) + 1
          /\ received'[Len(received) + 1] = v /\ \A i \in 1..Len(received) : received'[i] = received[i]
      BY <1>2, <2>1, <2>2, <2>3
    <2>6. \A i \in DOMAIN received' : 
           (i \in DOMAIN received /\ received'[i] = received[i]) \/ (i = Len(received) + 1 /\ received'[i] = v)
      <3>1. DOMAIN received' = 1..Len(received') /\ DOMAIN received = 1..Len(received)
        BY <1>2, <2>5
      <3> QED BY <3>1, <2>3, <2>5
    <2>7. ObserverTyped' /\ NotStranded'
      BY <1>0, <1>1, <2>1, <2>4, <2>5 DEF ObserverTyped, NotStranded
    <2>8. CountInv'
      BY <1>0, <1>3, <2>3, <2>4, <2>5 DEF CountInv
    <2>9. InOrder(pending')
      <3> SUFFICES ASSUME NEW i \in DOMAIN pending', NEW j \in DOMAIN pending', i < j, pending'[i].from = pending'[j].from
                   PROVE  pending'[i].nr < pending'[j].nr
        BY DEF InOrder
      <3>1. i + 1 < j + 1
        BY <2>4
      <3> QED BY <3>1, <1>0, <2>4 DEF OrderInv, InOrder
    <2>10. InOrder(received')
      <3> SUFFICES ASSUME NEW i \in DOMAIN received', NEW j \in DOMAIN received', i < j, received'[i].from = received'[j].from
                   PROVE  received'[i].nr < received'[j].nr
        BY DEF InOrder
      <3>1. i \in DOMAIN received /\ received'[i] = received[i]
        <4>1. i # Len(received) + 1
          BY <2>3, <2>5
        <4> QED BY <4>1, <2>6
      <3>2. CASE j \in DOMAIN received /\ received'[j] = received[j]
        BY <3>1, <3>2, <1>0 DEF OrderInv, InOrder
      <3>3. CASE received'[j] = v
        BY <3>1, <3>3, <2>3, <1>0 DEF OrderInv
      <3> QED BY <3>2, <3>3, <2>6
    <2>11. ASSUME NEW i \in DOMAIN received', NEW j \in DOMAIN pending', received'[i].from = pending'[j].from
           PROVE  received'[i].nr < pending'[j].nr
      <3>1. j + 1 \in DOMAIN pending /\ pending'[j] = pending[j + 1] /\ 1 < j + 1
        <4>1. j > 0 /\ j \in Nat
          BY <2>4
        <4> QED BY <4>1, <2>4
      <3>2. CASE i \in DOMAIN received /\ received'[i] = received[i]
        BY <3>1, <3>2, <2>11, <1>0 DEF OrderInv
      <3>3. CASE received'[i] = v
        BY <3>1, <3>3, <2>3, <2>11, <1>0 DEF OrderInv, InOrder
      <3> QED BY <3>2, <3>3, <2>6
    <2>12. \A i \in DOMAIN received' : received'[i].nr <= sent[received'[i].from]
      BY <1>0, <2>3, <2>6 DEF OrderInv
    <2>13. \A i \in DOMAIN pending' : pending'[i].nr <= sent[pending'[i].from]
      BY <1>0, <2>4 DEF OrderInv
    <2>14. OrderInv'
      BY <1>1, <2>9, <2>10, <2>11, <2>12, <2>13 DEF OrderInv
    <2> QED BY <2>7, <2>8, <2>14 DEF ObserverInv
  <1> QED BY <1>4, <1>5

\* Every step of the emitters and the dispatcher keeps the invariant.
LEMMA ObserverStep == ObserverInv /\ [ObserverNext]_observerVars => ObserverInv'
  <1> SUFFICES ASSUME ObserverInv, [ObserverNext]_observerVars PROVE ObserverInv'  OBVIOUS
  <1>0. ObserverTyped /\ OrderInv /\ NotStranded /\ CountInv
    BY DEF ObserverInv
  <1>1. CASE WakeUp \/ UNCHANGED observerVars \/ \E e \in Emitters : Notify(e)
    <2>1. pending' = pending /\ sent' = sent /\ received' = received /\ telling' \subseteq telling
      BY <1>1 DEF WakeUp, observerVars, Notify
    <2>2. NotStranded'
      BY <1>0, <1>1 DEF WakeUp, observerVars, Notify, NotStranded
    <2>3. OrderInv'
      BY <1>0, <2>1 DEF OrderInv, InOrder
    <2>4. ObserverTyped' /\ CountInv'
      BY <1>0, <2>1 DEF ObserverTyped, CountInv, Emitted
    <2> QED BY <2>2, <2>3, <2>4 DEF ObserverInv
  <1> QED BY <1>1, EnqueueKeeps, DeliverKeeps DEF ObserverNext

\* The invariant says what NoEventStranded says.
LEMMA ObserverHolds == ObserverInv => NoEventStranded
  BY DEF ObserverInv, NotStranded, OrderInv, InOrder, CountInv, Emitted, NoEventStranded

-----------------------------------------------------------------------------
(* dix: the health report. *)

HealthInv ==
  /\ checks \in Seq([kind : Kinds, name : CheckNames, ok : BOOLEAN])
  /\ asked # "none" => report = [ n \in { checks[i].name : i \in Of(asked) } |-> checks[LastNamed(asked, n)].ok ]

\* A set of natural numbers with an upper bound has a largest member.
LEMMA LargestExists ==
  ASSUME NEW S \in SUBSET Nat, NEW n \in Nat, S # {}, \A x \in S : x <= n
  PROVE  \E m \in S : \A x \in S : x <= m
  <1> DEFINE T == { n - x : x \in S }
  <1>1. T \subseteq Nat /\ T # {}
    <2>1. ASSUME NEW x \in S PROVE n - x \in Nat
      BY x \in Nat, x <= n
    <2> QED BY <2>1
  <1>2. PICK y \in T : \A z \in T : ~ (<<z, y>> \in OpToRel(<, Nat))
    BY <1>1, NatLessThanWellFounded, WFMin, Zenon
  <1>3. \A z \in T : ~ (z < y)
    BY <1>1, <1>2 DEF OpToRel
  <1>4. PICK m \in S : y = n - m
    OBVIOUS
  <1>5. ASSUME NEW x \in S PROVE x <= m
    <2>1. ~ (n - x < n - m)
      BY <1>3, <1>4
    <2> QED BY <2>1
  <1> QED BY <1>5

\* Under the name of a check of the kind there is a last one.
LEMMA LastNamedIs ==
  ASSUME HealthInv, NEW k, NEW i \in Of(k)
  PROVE  LastNamed(k, checks[i].name) \in Of(k) /\ checks[LastNamed(k, checks[i].name)].name = checks[i].name
  <1> DEFINE n == checks[i].name
             S == { j \in Of(k) : checks[j].name = n }
  <1>1. Of(k) \subseteq Nat /\ Len(checks) \in Nat /\ \A j \in Of(k) : j <= Len(checks)
    BY DEF HealthInv, Of
  <1>2. PICK m \in S : \A j \in S : j <= m
    <2>1. S \subseteq Nat /\ S # {} /\ \A j \in S : j <= Len(checks)
      BY <1>1
    <2> HIDE DEF S
    <2> QED BY <2>1, <1>1, LargestExists
  <1>3. m \in Of(k) /\ checks[m].name = n /\ \A j \in Of(k) : checks[j].name = n => j <= m
    BY <1>2
  <1>4. \E l \in Of(k) : checks[l].name = n /\ \A j \in Of(k) : checks[j].name = n => j <= l
    BY <1>3
  <1> QED BY <1>4 DEF LastNamed

\* A sequence over a set takes one more of it.
LEMMA AppendTyped ==
  ASSUME NEW S, NEW s \in Seq(S), NEW x \in S
  PROVE  Append(s, x) \in Seq(S)
  OBVIOUS

\* Nothing is registered and nobody has asked.
LEMMA HealthStarts == HealthInit => HealthInv
  BY DEF HealthInit, HealthInv

\* Registering withdraws the report, asking renews it.
LEMMA HealthStep == HealthInv /\ [HealthNext]_healthVars => HealthInv'
  <1> SUFFICES ASSUME HealthInv, [HealthNext]_healthVars PROVE HealthInv'  OBVIOUS
  <1>0. checks \in Seq([kind : Kinds, name : CheckNames, ok : BOOLEAN])
    BY DEF HealthInv
  <1>1. ASSUME NEW k \in Kinds \cup {""}, NEW n \in CheckNames, NEW ok \in BOOLEAN, RegisterHealthCheckOfKind(k, n, ok)
        PROVE  HealthInv'
    <2>1. PICK c : c = [kind |-> IF k = "" THEN "general" ELSE k, name |-> n, ok |-> ok]  OBVIOUS
    <2>2. c \in [kind : Kinds, name : CheckNames, ok : BOOLEAN]
      <3>1. (IF k = "" THEN "general" ELSE k) \in Kinds
        BY DEF Kinds
      <3> QED BY <2>1, <3>1
    <2>3. checks' = Append(checks, c) /\ asked' = "none"
      BY <1>1, <2>1 DEF RegisterHealthCheckOfKind
    <2>4. checks' \in Seq([kind : Kinds, name : CheckNames, ok : BOOLEAN])
      BY <1>0, <2>2, <2>3, AppendTyped
    <2> QED BY <2>3, <2>4 DEF HealthInv
  <1>2. ASSUME NEW k \in Kinds, checkHealthByKind(k)
        PROVE  HealthInv'
    <2>1. /\ report' = [ n \in { checks[i].name : i \in Of(k) } |-> checks[LastNamed(k, n)].ok ]
          /\ asked' = k /\ checks' = checks
      BY <1>2 DEF checkHealthByKind
    <2> QED BY <1>0, <2>1 DEF HealthInv, Of, LastNamed
  <1>3. CASE UNCHANGED healthVars
    <2>1. checks' = checks /\ report' = report /\ asked' = asked
      BY <1>3 DEF healthVars
    <2>2. PICK k : k = asked  OBVIOUS
    <2>3. CASE k = "none"
      BY <1>0, <2>1, <2>2, <2>3 DEF HealthInv
    <2>4. CASE k # "none"
      <3>1. /\ report' = [ n \in { checks[i].name : i \in Of(k) } |-> checks[LastNamed(k, n)].ok ]
            /\ asked' = k /\ checks' = checks
        BY <2>1, <2>2, <2>4 DEF HealthInv
      <3> QED BY <1>0, <3>1 DEF HealthInv, Of, LastNamed
    <2> QED BY <2>3, <2>4
  <1> QED BY <1>1, <1>2, <1>3 DEF HealthNext

\* A report made from the last check under each name is faithful.
LEMMA HealthHolds == HealthInv => HealthFaithful
  <1> SUFFICES ASSUME HealthInv, asked # "none" PROVE HealthFaithful
    BY DEF HealthFaithful
  <1> DEFINE all == { checks[i] : i \in { j \in DOMAIN checks : checks[j].kind = asked } }
             same == \E i, j \in DOMAIN checks : i # j /\ checks[i].kind = asked /\ checks[j].kind = asked
                                                 /\ checks[i].name = checks[j].name
  <1>1. report = [ n \in { checks[i].name : i \in Of(asked) } |-> checks[LastNamed(asked, n)].ok ]
    BY DEF HealthInv
  <1>2. \A i \in Of(asked) : /\ checks[i].name \in DOMAIN report
                             /\ report[checks[i].name] = checks[LastNamed(asked, checks[i].name)].ok
    BY <1>1
  <1>3. \A n \in DOMAIN report : \E i \in Of(asked) : n = checks[i].name
    BY <1>1
  <1>4. all = { checks[i] : i \in Of(asked) }
    BY DEF Of
  <1>5. ASSUME \A c \in all : c.ok PROVE Healthy
    <2> SUFFICES ASSUME NEW n \in DOMAIN report PROVE report[n]
      BY DEF Healthy
    <2>1. PICK i \in Of(asked) : n = checks[i].name
      BY <1>3
    <2>2. LastNamed(asked, n) \in Of(asked)
      BY <2>1, LastNamedIs
    <2>3. checks[LastNamed(asked, n)] \in all
      BY <2>2, <1>4
    <2>4. checks[LastNamed(asked, n)].ok
      BY <2>3, <1>5
    <2> QED BY <2>1, <2>4, <1>2
  <1>6. ASSUME Healthy, ~same PROVE \A c \in all : c.ok
    <2> SUFFICES ASSUME NEW i \in Of(asked) PROVE checks[i].ok
      BY <1>4
    <2>1. PICK l : l = LastNamed(asked, checks[i].name)  OBVIOUS
    <2>2. l \in Of(asked) /\ checks[l].name = checks[i].name
      BY <2>1, LastNamedIs
    <2>3. l = i
      BY <2>2, <1>6 DEF Of
    <2>4. report[checks[i].name] = checks[i].ok
      BY <1>2, <2>1, <2>3
    <2> QED BY <2>4, <1>2, <1>6 DEF Healthy
  <1> QED BY <1>5, <1>6 DEF HealthFaithful

\* TellsExact, in every behaviour, for any number of emitters, events and health checks:
\* no event is stranded by a wake-up that was lost, each emitter's events are received in
\* order and once, and a health report hides a failure only behind a shared name.
THEOREM TellsExactAlways == Spec => []TellsExact
  <1>1. Init => ObserverInv /\ HealthInv
    BY ObserverStarts, HealthStarts DEF Init
  <1>2. [Next]_vars => [ObserverNext]_observerVars /\ [HealthNext]_healthVars
    BY DEF Next, vars
  <1>3. ObserverInv /\ HealthInv /\ [Next]_vars => (ObserverInv /\ HealthInv)'
    BY <1>2, ObserverStep, HealthStep
  <1>4. ObserverInv /\ HealthInv => TellsExact
    BY ObserverHolds, HealthHolds DEF TellsExact
  <1> QED
    BY <1>1, <1>3, <1>4, PTL DEF Spec
=============================================================================
