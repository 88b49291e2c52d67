------------------------ MODULE ClientPoliciesProofs ------------------------
(***************************************************************************)
(* The policy chain, proved for every number of concurrent invocations,    *)
(* every chain with at most one concurrency limit and one timeout policy,  *)
(* every capacity and every number of attempts.                            *)
(***************************************************************************)
EXTENDS ClientPolicies, FiniteSetTheorems, TLAPS

\* The module has one channel, and a context remembers one cancel function:
\* a chain with at most one policy of each of the two kinds.
AtMostOne(k) ==
  \A i, j \in 1..Len(Chain) : Chain[i] = k /\ Chain[j] = k => i = j
OneOfEach == AtMostOne("limit") /\ AtMostOne("timeout")

\* Where each variable lives.
Types ==
  /\ sem \in 0..MaxInFlight
  /\ pc \in [Calls -> PC] /\ attempt \in [Calls -> Nat]
  /\ applied \in [Calls -> 0..Len(Chain)] /\ undone \in [Calls -> 0..Len(Chain)]
  /\ timers \in [Calls -> Nat] /\ leaked \in [Calls -> Nat]
Flags ==
  /\ nilCtx \in [Calls -> BOOLEAN] /\ stopped \in [Calls -> BOOLEAN]
  /\ panicked \in [Calls -> BOOLEAN]

\* Policies are undone from the first on, only those that were applied, and an
\* attempt that is over left nothing behind.
PhaseInv(c) ==
  /\ undone[c] <= applied[c]
  /\ pc[c] \in {"before", "exec"} => undone[c] = 0 /\ ~stopped[c]
  /\ pc[c] = "exec" => applied[c] = Len(Chain)
  /\ pc[c] \in {"idle", "sleep", "returned", "crashed"} =>
       applied[c] = 0 /\ undone[c] = 0 /\ timers[c] = 0 /\ ~stopped[c]

\* A new attempt is started only while one is left.
AttemptInv(c) ==
  /\ attempt[c] <= MaxAttempts
  /\ pc[c] = "idle" => attempt[c] = 0
  /\ pc[c] = "sleep" => attempt[c] < MaxAttempts

\* A timeout context in reach was derived by the timeout policy, hangs on a
\* context that is not nil, and is canceled once that policy's After ran.
TimerInv(c) ==
  /\ timers[c] \in {0, 1}
  /\ timers[c] = 1 => \E i \in 1..applied[c] : Chain[i] = "timeout"
  /\ nilCtx[c] => timers[c] = 0
  /\ stopped[c] => timers[c] = 1
  /\ timers[c] = 1 /\ (\E i \in 1..undone[c] : Chain[i] = "timeout") => stopped[c]
  /\ ~panicked[c] /\ pc[c] # "crashed" => leaked[c] = 0

Holders == { c \in Calls : HasSlot(c) }

PolicyInv ==
  /\ Types /\ Flags
  /\ \A c \in Calls : PhaseInv(c) /\ AttemptInv(c) /\ TimerInv(c)
  /\ SlotBalance

-----------------------------------------------------------------------------
(* One call moves at a time. *)

OnlyAt(c) ==
  \A d \in Calls \ {c} :
    /\ pc'[d] = pc[d] /\ attempt'[d] = attempt[d]
    /\ applied'[d] = applied[d] /\ undone'[d] = undone[d]
    /\ timers'[d] = timers[d] /\ leaked'[d] = leaked[d]
    /\ nilCtx'[d] = nilCtx[d] /\ stopped'[d] = stopped[d] /\ panicked'[d] = panicked[d]

StepOf(c) == InvokeWithPolicies(c) \/ Step(c) \/ FnPanic(c) \/ Cancel(c) \/ TimeoutFires(c)

\* A step of one invocation changes the variables of no other; only the channel of
\* the limit is shared.
LEMMA OthersKept == ASSUME Types, Flags, NEW c \in Calls, StepOf(c) PROVE OnlyAt(c)
<1> USE DEF Types, Flags, OnlyAt, ctxVars, Goto, Applied
<1>1. CASE InvokeWithPolicies(c) \/ WakeUp(c)
  BY <1>1 DEF InvokeWithPolicies, WakeUp, StartAttempt
<1>2. CASE LimitBefore(c)
  BY <1>2 DEF LimitBefore, BeforeFails
<1>3. CASE TimeoutBefore(c) \/ RetryBefore(c)
  BY <1>3 DEF TimeoutBefore, RetryBefore
<1>4. CASE UserBefore(c)
  BY <1>4 DEF UserBefore, BeforeFails
<1>5. CASE CallFn(c) \/ FnReturns(c)
  BY <1>5 DEF CallFn, FnReturns
<1>6. CASE After(c)
  BY <1>6 DEF After, Undo
<1>7. CASE AttemptOver(c) \/ FnPanic(c)
  BY <1>7 DEF AttemptOver, FnPanic, AttemptDropped
<1>8. CASE Cancel(c) \/ TimeoutFires(c)
  BY <1>8 DEF Cancel, TimeoutFires
<1> QED BY <1>1, <1>2, <1>3, <1>4, <1>5, <1>6, <1>7, <1>8 DEF StepOf, Step

\* What holds of the other calls goes on to hold.
LEMMA OthersInv ==
  ASSUME PolicyInv, NEW c \in Calls, OnlyAt(c)
  PROVE  \A d \in Calls \ {c} :
           PhaseInv(d)' /\ AttemptInv(d)' /\ TimerInv(d)' /\ (HasSlot(d)' <=> HasSlot(d))
BY DEF PolicyInv, OnlyAt, PhaseInv, AttemptInv, TimerInv, HasSlot

-----------------------------------------------------------------------------
(* What the moving call does to itself. *)

\* The pending policy of a call that is applying them.
LEMMA NextPolicy ==
  ASSUME PolicyInv, NEW c \in Calls, pc[c] = "before", applied[c] < Len(Chain)
  PROVE  applied[c] + 1 \in 1..Len(Chain) /\ undone[c] = 0 /\ ~stopped[c]
BY PolicyAssumption DEF PolicyInv, Types, PhaseInv

Mine(c) == Types' /\ Flags' /\ PhaseInv(c)' /\ AttemptInv(c)' /\ TimerInv(c)'

\* A first attempt, or the next one after the delay.
LEMMA StartMine ==
  ASSUME PolicyInv, NEW c \in Calls, pc[c] \in {"idle", "sleep"}, StartAttempt(c)
  PROVE  Mine(c)
<1> USE PolicyAssumption DEF PolicyInv, Types, Flags
<1>1. /\ pc' = [pc EXCEPT ![c] = "before"] /\ attempt' = [attempt EXCEPT ![c] = @ + 1]
      /\ UNCHANGED <<sem, applied, undone, timers, leaked, nilCtx, stopped, panicked>>
  BY DEF StartAttempt, Goto, ctxVars
<1>2. Types' /\ Flags'
  BY <1>1 DEF PC
<1>3. pc'[c] = "before" /\ attempt'[c] = attempt[c] + 1 /\ attempt[c] < MaxAttempts
  BY <1>1 DEF AttemptInv
<1> QED BY <1>1, <1>2, <1>3 DEF Mine, PhaseInv, AttemptInv, TimerInv

\* A Before fails: the Afters of the policies applied so far are next.
LEMMA BeforeFailsMine ==
  ASSUME PolicyInv, NEW c \in Calls, pc[c] = "before", BeforeFails(c)
  PROVE  Mine(c) /\ sem' = sem
<1> USE DEF PolicyInv, Types, Flags
<1>1. /\ pc' = [pc EXCEPT ![c] = "failing"]
      /\ UNCHANGED <<sem, attempt, applied, undone, timers, leaked, nilCtx, stopped, panicked>>
  BY DEF BeforeFails, Goto, ctxVars
<1>2. Types' /\ Flags' /\ pc'[c] = "failing"
  BY <1>1 DEF PC
<1> QED BY <1>1, <1>2 DEF Mine, PhaseInv, AttemptInv, TimerInv

\* A Before succeeds: one more policy is applied and the timers are those of
\* before, one more for the timeout policy, or lost with the context.
LEMMA AppliedMine ==
  ASSUME OneOfEach, PolicyInv, NEW c \in Calls, pc[c] = "before", applied[c] < Len(Chain),
         Applied(c), UNCHANGED <<pc, undone, attempt, stopped>>, sem' \in 0..MaxInFlight,
         nilCtx' \in [Calls -> BOOLEAN], panicked' \in [Calls -> BOOLEAN],
         timers' \in [Calls -> Nat], leaked' \in [Calls -> Nat],
         \/ UNCHANGED <<timers, leaked, panicked>> /\ nilCtx'[c] \in {nilCtx[c], FALSE}
         \/ UNCHANGED <<leaked, panicked>> /\ ~nilCtx'[c] /\ Next1(c) = "timeout"
            /\ timers'[c] \in {timers[c], timers[c] + 1}
         \/ timers'[c] = 0 /\ panicked'[c]
  PROVE  Mine(c)
<1> USE PolicyAssumption DEF PolicyInv
<1>0. applied[c] + 1 \in 1..Len(Chain) /\ undone[c] = 0 /\ ~stopped[c]
  BY NextPolicy
<1>1. /\ applied' = [applied EXCEPT ![c] = @ + 1] /\ applied'[c] = applied[c] + 1
      /\ applied[c] \in 0..Len(Chain) /\ timers[c] \in Nat
  BY DEF Applied, Types
<1>2. Types' /\ Flags'
  BY <1>0, <1>1 DEF Types, Flags
<1>3. PhaseInv(c)' /\ AttemptInv(c)'
  BY <1>0, <1>1 DEF PhaseInv, AttemptInv, Types
<1>4. timers'[c] \in {0, 1} /\ (timers'[c] = 1 => \E i \in 1..applied'[c] : Chain[i] = "timeout")
  <2>1. CASE timers'[c] \in {0, timers[c]}
    BY <1>1, <2>1 DEF TimerInv
  <2>2. CASE Next1(c) = "timeout" /\ timers'[c] = timers[c] + 1
    <3>1. \A i \in 1..applied[c] : Chain[i] # "timeout"
      BY <1>0, <1>1, <2>2 DEF OneOfEach, AtMostOne, Next1
    <3>2. timers[c] = 0
      BY <3>1 DEF TimerInv
    <3>3. Chain[applied'[c]] = "timeout" /\ applied'[c] \in 1..applied'[c]
      BY <1>0, <1>1, <2>2 DEF Next1
    <3> QED BY <2>2, <3>2, <3>3
  <2> QED BY <2>1, <2>2
<1>5. /\ nilCtx'[c] => timers'[c] = 0
      /\ ~panicked'[c] /\ pc'[c] # "crashed" => leaked'[c] = 0
  BY DEF TimerInv
<1>6. TimerInv(c)'
  BY <1>0, <1>4, <1>5 DEF TimerInv
<1> QED BY <1>2, <1>3, <1>6 DEF Mine

\* The attempt is over, by its Afters or by a panic of fn.
LEMMA DroppedMine ==
  ASSUME PolicyInv, NEW c \in Calls, AttemptDropped(c), UNCHANGED <<sem, attempt, panicked>>,
         NEW p \in {"sleep", "returned", "crashed"}, Goto(c, p),
         p = "sleep" => attempt[c] < MaxAttempts,
         p # "crashed" => undone[c] = applied[c] /\ pc[c] \in {"after", "failing"}
  PROVE  Mine(c)
<1> USE PolicyAssumption DEF PolicyInv
<1>1. /\ pc' = [pc EXCEPT ![c] = p] /\ pc'[c] = p
      /\ applied' = [applied EXCEPT ![c] = 0] /\ undone' = [undone EXCEPT ![c] = 0]
      /\ timers' = [timers EXCEPT ![c] = 0] /\ stopped' = [stopped EXCEPT ![c] = FALSE]
      /\ nilCtx' = [nilCtx EXCEPT ![c] = FALSE]
      /\ leaked' = [leaked EXCEPT ![c] = leaked[c] + timers[c] - (IF stopped[c] THEN 1 ELSE 0)]
  BY DEF AttemptDropped, Goto, Types
<1>2. /\ leaked[c] \in Nat /\ timers[c] \in Nat /\ leaked'[c] \in Nat
      /\ leaked'[c] = leaked[c] + timers[c] - (IF stopped[c] THEN 1 ELSE 0)
  BY <1>1 DEF Types, TimerInv
<1>3. Types' /\ Flags'
  <2>1. leaked' \in [Calls -> Nat]
    BY <1>1, <1>2 DEF Types
  <2>2. 0 \in 0..Len(Chain) /\ p \in PC
    BY DEF PC
  <2>3. nilCtx' \in [Calls -> BOOLEAN] /\ stopped' \in [Calls -> BOOLEAN]
    BY <1>1 DEF Flags
  <2> QED BY <1>1, <2>1, <2>2, <2>3 DEF Types, Flags
<1>4. applied'[c] = 0 /\ undone'[c] = 0 /\ timers'[c] = 0 /\ ~stopped'[c] /\ ~nilCtx'[c]
  BY <1>1 DEF Types, Flags
<1>5. PhaseInv(c)' /\ AttemptInv(c)'
  BY <1>1, <1>4 DEF PhaseInv, AttemptInv
<1>6. ~panicked'[c] /\ pc'[c] # "crashed" => leaked'[c] = 0
  <2> SUFFICES ASSUME ~panicked[c], p # "crashed" PROVE leaked'[c] = 0
    BY <1>1
  <2>1. leaked[c] = 0 /\ undone[c] = applied[c]
    BY DEF TimerInv
  <2>2. timers[c] = 1 => stopped[c]
    BY <2>1 DEF TimerInv
  <2>3. timers[c] \in {0, 1} /\ (stopped[c] => timers[c] = 1)
    BY DEF TimerInv
  <2> QED BY <1>2, <2>1, <2>2, <2>3
<1>7. TimerInv(c)'
  BY <1>4, <1>6 DEF TimerInv
<1> QED BY <1>3, <1>5, <1>7 DEF Mine

\* One After: of the timeout policy it cancels, of the limit it gives the place back.
LEMMA AfterMine ==
  ASSUME PolicyInv, NEW c \in Calls, After(c)
  PROVE  Mine(c)
<1> USE PolicyAssumption DEF PolicyInv
<1> DEFINE k == Chain[undone[c] + 1]
<1>1. /\ pc[c] \in {"after", "failing"} /\ undone[c] < applied[c]
      /\ undone' = [undone EXCEPT ![c] = @ + 1]
      /\ stopped' = [stopped EXCEPT ![c] = @ \/ (k = "timeout" /\ ~nilCtx[c] /\ timers[c] > 0)]
      /\ sem' = IF k = "limit" /\ sem > 0 THEN sem - 1 ELSE sem
      /\ UNCHANGED <<pc, applied, attempt, nilCtx, timers, leaked, panicked>>
  BY DEF After, Undo
<1>2. /\ undone[c] \in Nat /\ applied[c] \in 0..Len(Chain) /\ timers[c] \in Nat
      /\ undone'[c] = undone[c] + 1 /\ undone'[c] \in 0..Len(Chain)
  BY <1>1 DEF Types
<1>3. stopped'[c] <=> stopped[c] \/ (k = "timeout" /\ ~nilCtx[c] /\ timers[c] > 0)
  BY <1>1, Zenon DEF Flags
<1>4. stopped' \in [Calls -> BOOLEAN]
  BY <1>1, Zenon DEF Flags
<1>5. Types' /\ Flags'
  BY <1>1, <1>2, <1>4 DEF Types, Flags
<1>6. PhaseInv(c)' /\ AttemptInv(c)'
  BY <1>1, <1>2 DEF PhaseInv, AttemptInv
<1>7. TimerInv(c)'
  <2>1. 1..undone'[c] = 1..undone[c] \cup {undone[c] + 1}
    BY <1>2
  <2> QED BY <1>1, <1>2, <1>3, <2>1 DEF TimerInv
<1> QED BY <1>5, <1>6, <1>7 DEF Mine

\* Every step of an invocation keeps what holds of it.
LEMMA StepMine == ASSUME OneOfEach, PolicyInv, NEW c \in Calls, StepOf(c) PROVE Mine(c)
<1> USE PolicyAssumption
<1>1. CASE InvokeWithPolicies(c)
  BY <1>1, StartMine DEF InvokeWithPolicies
<1>2. CASE LimitBefore(c)
  <2>1. CASE BeforeFails(c)
    BY <1>2, <2>1, BeforeFailsMine DEF LimitBefore
  <2>2. CASE ~BeforeFails(c)
    <3>1. /\ sem < MaxInFlight /\ sem' = sem + 1 /\ Applied(c) /\ nilCtx' = [nilCtx EXCEPT ![c] = FALSE]
          /\ UNCHANGED <<pc, undone, attempt, stopped, timers, leaked, panicked>>
      BY <1>2, <2>2 DEF LimitBefore
    <3>2. nilCtx' \in [Calls -> BOOLEAN] /\ nilCtx'[c] = FALSE
      BY <3>1 DEF PolicyInv, Flags
    <3>3. sem' \in 0..MaxInFlight /\ timers' \in [Calls -> Nat] /\ leaked' \in [Calls -> Nat]
          /\ panicked' \in [Calls -> BOOLEAN]
      BY <3>1 DEF PolicyInv, Types, Flags
    <3> QED BY <1>2, <3>1, <3>2, <3>3, AppliedMine DEF LimitBefore
  <2> QED BY <2>1, <2>2
<1>3. CASE TimeoutBefore(c)
  <2>1. PICK d \in {0, 1} : timers' = [timers EXCEPT ![c] = @ + d]
    BY <1>3 DEF TimeoutBefore
  <2>2. timers' \in [Calls -> Nat] /\ timers'[c] \in {timers[c], timers[c] + 1}
    BY <2>1 DEF PolicyInv, Types
  <2>3. nilCtx' \in [Calls -> BOOLEAN] /\ nilCtx'[c] = FALSE
    BY <1>3 DEF TimeoutBefore, PolicyInv, Flags
  <2>4. /\ Applied(c) /\ UNCHANGED <<sem, pc, undone, attempt, stopped, leaked, panicked>>
        /\ pc[c] = "before" /\ applied[c] < Len(Chain) /\ Next1(c) = "timeout"
    BY <1>3 DEF TimeoutBefore
  <2>5. sem' \in 0..MaxInFlight /\ leaked' \in [Calls -> Nat] /\ panicked' \in [Calls -> BOOLEAN]
    BY <2>4 DEF PolicyInv, Types, Flags
  <2> QED BY <2>2, <2>3, <2>4, <2>5, AppliedMine
<1>4. ASSUME pc[c] = "before", applied[c] < Len(Chain), Applied(c),
             UNCHANGED <<sem, pc, undone, attempt, ctxVars, panicked>>
      PROVE  Mine(c)
  BY <1>4, AppliedMine DEF ctxVars, PolicyInv, Types, Flags
<1>5. CASE RetryBefore(c)
  BY <1>4, <1>5 DEF RetryBefore
<1>6. CASE UserBefore(c)
  <2>0. pc[c] = "before" /\ applied[c] < Len(Chain)
    BY <1>6 DEF UserBefore
  <2>1. CASE Applied(c) /\ UNCHANGED <<sem, pc, undone, attempt, ctxVars, panicked>>
    BY <1>4, <2>0, <2>1
  <2>2. CASE BeforeFails(c)
    BY <2>0, <2>2, BeforeFailsMine
  <2>3. CASE /\ Applied(c) /\ panicked' = [panicked EXCEPT ![c] = TRUE]
             /\ nilCtx' = [nilCtx EXCEPT ![c] = TRUE]
             /\ leaked' = [leaked EXCEPT ![c] = @ + timers[c]]
             /\ timers' = [timers EXCEPT ![c] = 0]
             /\ UNCHANGED <<sem, pc, undone, attempt, stopped>>
    <3>1. timers' \in [Calls -> Nat] /\ leaked' \in [Calls -> Nat] /\ timers'[c] = 0
          /\ sem' \in 0..MaxInFlight
      BY <2>3 DEF PolicyInv, Types
    <3>2. panicked' \in [Calls -> BOOLEAN] /\ nilCtx' \in [Calls -> BOOLEAN] /\ panicked'[c] = TRUE
      BY <2>3 DEF PolicyInv, Flags
    <3> QED BY <2>0, <2>3, <3>1, <3>2, AppliedMine
  <2> QED BY <1>6, <2>1, <2>2, <2>3 DEF UserBefore
<1>7. CASE CallFn(c) \/ FnReturns(c)
  <2>1. PICK p \in {"exec", "after"} :
          /\ pc' = [pc EXCEPT ![c] = p]
          /\ p = "exec" => pc[c] = "before" /\ applied[c] = Len(Chain)
          /\ p = "after" => pc[c] = "exec"
    BY <1>7 DEF CallFn, FnReturns, Goto
  <2>2. UNCHANGED <<sem, applied, undone, attempt, timers, leaked, nilCtx, stopped, panicked>>
    BY <1>7 DEF CallFn, FnReturns, ctxVars
  <2>3. Types' /\ Flags' /\ pc'[c] = p
    BY <2>1, <2>2 DEF PolicyInv, Types, Flags, PC
  <2> QED BY <2>1, <2>2, <2>3 DEF Mine, PolicyInv, PhaseInv, AttemptInv, TimerInv
<1>8. CASE After(c)
  BY <1>8, AfterMine
<1>9. CASE AttemptOver(c)
  <2>1. PICK p \in {"sleep", "returned"} : Goto(c, p) /\ (p = "sleep" => attempt[c] < MaxAttempts)
    BY <1>9 DEF AttemptOver, MayRetry
  <2> QED BY <1>9, <2>1, DroppedMine DEF AttemptOver
<1>10. CASE FnPanic(c)
  BY <1>10, DroppedMine DEF FnPanic
<1>11. CASE WakeUp(c)
  <2>1. CASE StartAttempt(c)
    BY <1>11, <2>1, StartMine DEF WakeUp
  <2>2. CASE ~StartAttempt(c)
    <3>1. /\ pc[c] = "sleep" /\ pc' = [pc EXCEPT ![c] = "returned"]
          /\ UNCHANGED <<sem, applied, undone, attempt, timers, leaked, nilCtx, stopped, panicked>>
      BY <1>11, <2>2 DEF WakeUp, Goto, ctxVars
    <3>2. Types' /\ Flags' /\ pc'[c] = "returned"
      BY <3>1 DEF PolicyInv, Types, Flags, PC
    <3> QED BY <3>1, <3>2 DEF Mine, PolicyInv, PhaseInv, AttemptInv, TimerInv
  <2> QED BY <2>1, <2>2
<1>12. CASE Cancel(c) \/ TimeoutFires(c)
  <2>1. UNCHANGED <<sem, pc, applied, undone, attempt, timers, leaked, nilCtx, stopped, panicked>>
    BY <1>12 DEF Cancel, TimeoutFires, ctxVars
  <2> QED BY <2>1 DEF Mine, PolicyInv, Types, Flags, PhaseInv, AttemptInv, TimerInv
<1> QED BY <1>1, <1>2, <1>3, <1>5, <1>6, <1>7, <1>8, <1>9, <1>10, <1>11, <1>12 DEF StepOf, Step

-----------------------------------------------------------------------------
(* The channel of the concurrency limit. *)

\* The limit has one place in the chain.
LEMMA LimitPlace ==
  ASSUME OneOfEach, Limited
  PROVE  /\ LimitAt \in 1..Len(Chain) /\ Chain[LimitAt] = "limit"
         /\ \A i \in 1..Len(Chain) : Chain[i] = "limit" => i = LimitAt
<1>1. LimitAt \in 1..Len(Chain) /\ Chain[LimitAt] = "limit"
  BY DEF Limited, LimitAt
<1> QED BY <1>1 DEF OneOfEach, AtMostOne

\* Finitely many invocations hold a place.
LEMMA HoldersFinite == IsFiniteSet(Holders)
BY PolicyAssumption, FS_Subset DEF Holders

\* How the moving call changes the channel and who has a place in it.
SlotMoves(c) ==
  \/ (HasSlot(c)' <=> HasSlot(c)) /\ sem' = sem
  \/ ~HasSlot(c) /\ HasSlot(c)' /\ sem' = sem + 1
  \/ HasSlot(c) /\ ~HasSlot(c)' /\ sem' = sem - 1

\* The channel counts the invocations between the limit's Before and its After.
LEMMA SlotMovesBalance ==
  ASSUME PolicyInv, NEW c \in Calls, OnlyAt(c), Limited => SlotMoves(c)
  PROVE  SlotBalance'
<1> SUFFICES ASSUME Limited PROVE sem' = Cardinality(Holders')
  BY DEF SlotBalance, Holders
<1>0. \A d \in Calls \ {c} : HasSlot(d)' <=> HasSlot(d)
  BY OthersInv
<1>1. sem = Cardinality(Holders)
  BY DEF PolicyInv, SlotBalance, Holders
<1>2. CASE (HasSlot(c)' <=> HasSlot(c)) /\ sem' = sem
  <2>1. Holders' = Holders
    BY <1>0, <1>2 DEF Holders
  <2> QED BY <1>1, <1>2, <2>1
<1>3. CASE ~HasSlot(c) /\ HasSlot(c)' /\ sem' = sem + 1
  <2>1. Holders' = Holders \cup {c} /\ c \notin Holders
    BY <1>0, <1>3 DEF Holders
  <2> QED BY <1>1, <1>3, <2>1, HoldersFinite, FS_AddElement
<1>4. CASE HasSlot(c) /\ ~HasSlot(c)' /\ sem' = sem - 1
  <2>1. Holders' = Holders \ {c} /\ c \in Holders
    BY <1>0, <1>4 DEF Holders
  <2> QED BY <1>1, <1>4, <2>1, HoldersFinite, FS_RemoveElement
<1> QED BY <1>2, <1>3, <1>4 DEF SlotMoves

\* A Before that succeeds takes a place exactly when its policy is the limit.
LEMMA AppliedSlot ==
  ASSUME OneOfEach, Limited, PolicyInv, NEW c \in Calls, pc[c] = "before",
         applied[c] < Len(Chain), Applied(c), UNCHANGED <<pc, undone>>
  PROVE  /\ Next1(c) = "limit" => ~HasSlot(c) /\ HasSlot(c)'
         /\ Next1(c) # "limit" => (HasSlot(c)' <=> HasSlot(c))
<1>1. applied[c] + 1 \in 1..Len(Chain) /\ undone[c] = 0
  BY NextPolicy
<1>2. applied'[c] = applied[c] + 1 /\ applied[c] \in Nat
  BY PolicyAssumption DEF Applied, PolicyInv, Types
<1>3. Next1(c) = "limit" <=> applied[c] + 1 = LimitAt
  BY <1>1, LimitPlace DEF Next1
<1>4. LimitAt \in Nat /\ LimitAt > 0
  BY PolicyAssumption, LimitPlace
<1> QED BY <1>1, <1>2, <1>3, <1>4 DEF HasSlot

\* A place is taken by the limit's Before alone and given back by its After, by the
\* clean-up after a panic, or never.
LEMMA StepSlot ==
  ASSUME OneOfEach, Limited, PolicyInv, NEW c \in Calls, StepOf(c)
  PROVE  SlotMoves(c)
<1> USE PolicyAssumption
<1>0. LimitAt \in 1..Len(Chain) /\ LimitAt \in Nat /\ LimitAt > 0
  BY LimitPlace
<1>1. PhaseInv(c) /\ pc \in [Calls -> PC] /\ applied \in [Calls -> 0..Len(Chain)]
      /\ undone \in [Calls -> 0..Len(Chain)] /\ sem \in Nat
  BY DEF PolicyInv, Types
<1>2. ASSUME BeforeFails(c), pc[c] = "before" PROVE SlotMoves(c)
  BY <1>1, <1>2 DEF BeforeFails, Goto, SlotMoves, HasSlot
<1>3. ASSUME pc[c] \in {"idle", "sleep"}, UNCHANGED <<sem, applied, undone>>,
             \E p \in {"before", "returned"} : Goto(c, p)
      PROVE  SlotMoves(c)
  BY <1>0, <1>1, <1>3 DEF Goto, SlotMoves, HasSlot, PhaseInv
<1>4. CASE InvokeWithPolicies(c) \/ WakeUp(c)
  BY <1>3, <1>4 DEF InvokeWithPolicies, WakeUp, StartAttempt
<1>5. CASE LimitBefore(c) /\ ~BeforeFails(c)
  BY <1>5, AppliedSlot DEF LimitBefore, SlotMoves
<1>6. CASE TimeoutBefore(c) \/ RetryBefore(c) \/ (UserBefore(c) /\ ~BeforeFails(c))
  <2>1. /\ pc[c] = "before" /\ applied[c] < Len(Chain) /\ Next1(c) # "limit"
        /\ Applied(c) /\ UNCHANGED <<sem, pc, undone>>
    BY <1>6 DEF TimeoutBefore, RetryBefore, UserBefore
  <2> QED BY <2>1, AppliedSlot DEF SlotMoves
<1>7. CASE CallFn(c) \/ FnReturns(c)
  <2>1. PICK p \in {"exec", "after"} : Goto(c, p)
    BY <1>7 DEF CallFn, FnReturns
  <2>2. pc[c] \in {"before", "exec"} /\ UNCHANGED <<sem, applied, undone>>
    BY <1>7 DEF CallFn, FnReturns
  <2> QED BY <1>1, <2>1, <2>2 DEF Goto, SlotMoves, HasSlot
<1>8. CASE FnPanic(c)
  <2>1. pc[c] = "exec" /\ Goto(c, "crashed") /\ sem' = sem
    BY <1>8 DEF FnPanic
  <2>2. HasSlot(c) /\ HasSlot(c)'
    BY <1>0, <1>1, <2>1 DEF PhaseInv, HasSlot, Goto
  <2> QED BY <2>1, <2>2 DEF SlotMoves
<1>9. CASE After(c)
  <2>1. /\ pc[c] \in {"after", "failing"} /\ undone[c] < applied[c] /\ UNCHANGED <<pc, applied>>
        /\ undone' = [undone EXCEPT ![c] = @ + 1]
        /\ sem' = IF Chain[undone[c] + 1] = "limit" /\ sem > 0 THEN sem - 1 ELSE sem
    BY <1>9 DEF After, Undo
  <2>2. undone'[c] = undone[c] + 1 /\ undone[c] \in Nat /\ undone[c] + 1 \in 1..Len(Chain)
        /\ applied[c] \in Nat
    BY <1>1, <2>1
  <2>3. CASE undone[c] + 1 = LimitAt
    <3>1. HasSlot(c) /\ ~HasSlot(c)' /\ Chain[undone[c] + 1] = "limit"
      BY <1>0, <2>1, <2>2, <2>3, LimitPlace DEF HasSlot
    <3>2. sem > 0
      <4>1. c \in Holders /\ sem = Cardinality(Holders)
        BY <3>1 DEF Holders, PolicyInv, SlotBalance
      <4>2. Cardinality(Holders) # 0
        BY <4>1, HoldersFinite, FS_EmptySet
      <4> QED BY <1>1, <4>1, <4>2
    <3> QED BY <2>1, <3>1, <3>2 DEF SlotMoves
  <2>4. CASE undone[c] + 1 # LimitAt
    <3>1. Chain[undone[c] + 1] # "limit"
      BY <2>2, <2>4, LimitPlace
    <3>2. HasSlot(c)' <=> HasSlot(c)
      BY <1>0, <2>1, <2>2, <2>4 DEF HasSlot
    <3> QED BY <2>1, <3>1, <3>2 DEF SlotMoves
  <2> QED BY <2>3, <2>4
<1>10. CASE AttemptOver(c)
  <2>1. PICK p \in {"sleep", "returned"} : Goto(c, p)
    BY <1>10 DEF AttemptOver
  <2>2. pc[c] \in {"after", "failing"} /\ undone[c] = applied[c] /\ sem' = sem
    BY <1>10 DEF AttemptOver
  <2>3. ~HasSlot(c) /\ ~HasSlot(c)'
    BY <1>0, <1>1, <2>1, <2>2 DEF HasSlot, Goto
  <2> QED BY <2>2, <2>3 DEF SlotMoves
<1>11. CASE Cancel(c) \/ TimeoutFires(c)
  BY <1>11 DEF Cancel, TimeoutFires, SlotMoves, HasSlot
<1>12. ASSUME LimitBefore(c) \/ UserBefore(c) PROVE pc[c] = "before"
  BY <1>12 DEF LimitBefore, UserBefore
<1> QED BY <1>2, <1>4, <1>5, <1>6, <1>7, <1>8, <1>9, <1>10, <1>11, <1>12 DEF StepOf, Step

-----------------------------------------------------------------------------
(* The theorems. *)

\* Nobody has invoked anything.
LEMMA InitPolicy == Init => PolicyInv
<1> SUFFICES ASSUME Init PROVE PolicyInv
  OBVIOUS
<1> USE PolicyAssumption DEF Init
<1>1. Types /\ Flags
  <2>1. 0 \in 0..MaxInFlight /\ 0 \in 0..Len(Chain)
    OBVIOUS
  <2>2. Types
    BY <2>1 DEF Types, PC
  <2>3. Flags
    BY Zenon DEF Flags
  <2> QED BY <2>2, <2>3
<1>2. \A c \in Calls : PhaseInv(c) /\ AttemptInv(c) /\ TimerInv(c)
  BY DEF PhaseInv, AttemptInv, TimerInv
<1>3. Holders = {}
  <2>1. Len(Chain) \in Nat
    OBVIOUS
  <2> QED BY DEF Holders, HasSlot
<1>4. SlotBalance
  BY <1>3, FS_EmptySet DEF SlotBalance, Holders
<1> QED BY <1>1, <1>2, <1>4 DEF PolicyInv

\* PolicyInv is inductive for every chain with at most one limit and one
\* timeout policy.
THEOREM PolicyInvariant == ASSUME OneOfEach PROVE Spec => []PolicyInv
<1>1. PolicyInv /\ [Next]_vars => PolicyInv'
  <2>1. ASSUME PolicyInv, NEW c \in Calls, StepOf(c) PROVE PolicyInv'
    <3>1. OnlyAt(c)
      BY <2>1, OthersKept DEF PolicyInv
    <3>2. Mine(c)
      BY <2>1, StepMine
    <3>3. \A d \in Calls : PhaseInv(d)' /\ AttemptInv(d)' /\ TimerInv(d)'
      BY <2>1, <3>1, <3>2, OthersInv DEF Mine
    <3>4. SlotBalance'
      BY <2>1, <3>1, StepSlot, SlotMovesBalance
    <3> QED BY <3>2, <3>3, <3>4 DEF PolicyInv, Mine
  <2>2. ASSUME PolicyInv, UNCHANGED vars PROVE PolicyInv'
    BY <2>2 DEF vars, ctxVars, PolicyInv, Types, Flags, PhaseInv, AttemptInv, TimerInv,
       SlotBalance, HasSlot
  <2> QED BY <2>1, <2>2 DEF Next, StepOf
<1> QED BY <1>1, InitPolicy, PTL DEF Spec

\* InvokeWithPolicies under concurrency: the channel of the limit holds one place for
\* each invocation inside it, the number of attempts stays within the retry policy's,
\* and timeout contexts are canceled with the attempt they were made for, for every
\* number of invocations, every capacity, and every chain with one of each at most.
THEOREM InvocationsExactAlways == ASSUME OneOfEach PROVE Spec => []InvocationsExact
<1>1. PolicyInv => InvocationsExact
  BY DEF PolicyInv, InvocationsExact, Types, TypeOK, NoTimerLeak, AttemptsBounded,
     TimerInv, AttemptInv
<1> QED BY <1>1, PolicyInvariant, PTL
=============================================================================
