--------------------------- MODULE ClientPolicies ---------------------------
(***************************************************************************)
(* clientx.InvokeWithPolicies: a chain of policies around a transport call *)
(* with the built-in concurrency limit, timeout and retry policies and the *)
(* caller's own, shared by concurrent invocations.                         *)
(*                                                                         *)
(* A member of Calls is one invocation.  Its context is described by what  *)
(* matters to the policies: whether it still descends from the caller's    *)
(* context, whether it is nil, and how many timeout contexts were derived  *)
(* for the current attempt.                                                *)
(***************************************************************************)
EXTENDS Integers, Sequences, FiniteSets

CONSTANTS
  Calls,        \* concurrent invocations
  Chain,        \* the policies, a sequence of members of Kinds
  MaxInFlight,  \* capacity of the concurrency limit's channel
  MaxAttempts   \* RetryPolicyConfig.MaxAttempts

Kinds == { "limit", "timeout", "retry", "user" }

ASSUME PolicyAssumption ==
  /\ IsFiniteSet(Calls) /\ Chain \in Seq(Kinds)
  /\ MaxInFlight \in Nat \ {0} /\ MaxAttempts \in Nat \ {0}

VARIABLES
  sem,      \* tokens in the concurrency limit's channel
  pc,       \* where a call is
  applied,  \* how many policies' Before succeeded in this attempt
  undone,   \* how many policies' After ran in this attempt
  attempt,  \* number of the attempt
  err,      \* the error so far is not nil
  nilCtx,   \* the attempt's context is nil
  attached, \* the attempt's context descends from the caller's
  timers,   \* timeout contexts derived in this attempt and reachable from its context
  stopped,  \* the innermost of them was canceled
  leaked,   \* timeout contexts nobody can cancel any more
  expired,  \* a timeout of this attempt fired during the Befores
  canceled, \* the caller's context is done
  panicked  \* history: a Before of this call has panicked

ctxVars == <<nilCtx, attached, timers, stopped, leaked>>
vars == <<sem, pc, applied, undone, attempt, err, ctxVars, expired, canceled, panicked>>

PC == { "idle", "before", "exec", "after", "failing", "sleep", "returned", "crashed" }

Init ==
  /\ sem = 0
  /\ pc = [c \in Calls |-> "idle"]
  /\ applied = [c \in Calls |-> 0] /\ undone = [c \in Calls |-> 0]
  /\ attempt = [c \in Calls |-> 0] /\ err = [c \in Calls |-> FALSE]
  /\ nilCtx = [c \in Calls |-> FALSE] /\ attached = [c \in Calls |-> TRUE]
  /\ timers = [c \in Calls |-> 0] /\ stopped = [c \in Calls |-> FALSE]
  /\ leaked = [c \in Calls |-> 0]
  /\ expired = [c \in Calls |-> FALSE] /\ canceled = [c \in Calls |-> FALSE]
  /\ panicked = [c \in Calls |-> FALSE]

Goto(c, p) == pc' = [pc EXCEPT ![c] = p]
Next1(c) == Chain[applied[c] + 1]

\* The context's Done channel is closed.
Done(c) == (attached[c] /\ canceled[c]) \/ (timers[c] > 0 /\ expired[c])

-----------------------------------------------------------------------------
(* The start of an attempt: applyBeforePolicies. *)

\* One turn of the loop in InvokeWithPolicies begins.
StartAttempt(c) ==
  /\ Goto(c, "before")
  /\ attempt' = [attempt EXCEPT ![c] = @ + 1]
  /\ UNCHANGED <<sem, applied, undone, err, ctxVars, expired, canceled, panicked>>

InvokeWithPolicies(c) == pc[c] = "idle" /\ StartAttempt(c)

\* The attempt's variables go out of scope, its context with them.
AttemptDropped(c) ==
  /\ applied' = [applied EXCEPT ![c] = 0] /\ undone' = [undone EXCEPT ![c] = 0]
  /\ err' = [err EXCEPT ![c] = FALSE]
  /\ nilCtx' = [nilCtx EXCEPT ![c] = FALSE] /\ attached' = [attached EXCEPT ![c] = TRUE]
  /\ leaked' = [leaked EXCEPT ![c] = @ + timers[c] - (IF stopped[c] THEN 1 ELSE 0)]
  /\ timers' = [timers EXCEPT ![c] = 0] /\ stopped' = [stopped EXCEPT ![c] = FALSE]
  /\ expired' = [expired EXCEPT ![c] = FALSE]

Applied(c) == applied' = [applied EXCEPT ![c] = @ + 1]

\* Fault: the policy whose Before failed is among those to undo.
BeforeFailsApplied(c) ==
  /\ Goto(c, "failing") /\ err' = [err EXCEPT ![c] = TRUE] /\ Applied(c)
  /\ UNCHANGED <<sem, undone, attempt, ctxVars, expired, canceled, panicked>>

\* A Before returned an error: the policies applied before it are undone.
BeforeFails(c) ==
  /\ Goto(c, "failing") /\ err' = [err EXCEPT ![c] = TRUE]
  /\ UNCHANGED <<sem, applied, undone, attempt, ctxVars, expired, canceled, panicked>>

\* concurrencyLimitPolicy.Before: a place in the channel or the end of the
\* context; normalizeContext replaces a nil context.
LimitBefore(c) ==
  /\ pc[c] = "before" /\ applied[c] < Len(Chain) /\ Next1(c) = "limit"
  /\ \/ /\ sem < MaxInFlight /\ sem' = sem + 1 /\ Applied(c)
        /\ nilCtx' = [nilCtx EXCEPT ![c] = FALSE]
        /\ UNCHANGED <<pc, undone, attempt, err, attached, timers, stopped, leaked,
                       expired, canceled, panicked>>
     \/ Done(c) /\ BeforeFails(c)

\* timeoutPolicy.Before: a derived context, unless the one it got ends sooner.
TimeoutBefore(c) ==
  /\ pc[c] = "before" /\ applied[c] < Len(Chain) /\ Next1(c) = "timeout"
  /\ Applied(c)
  /\ nilCtx' = [nilCtx EXCEPT ![c] = FALSE]
  /\ \E d \in {0, 1} : timers' = [timers EXCEPT ![c] = @ + d]
  /\ UNCHANGED <<sem, pc, undone, attempt, err, attached, stopped, leaked, expired, canceled, panicked>>

\* retryPolicy.Before.
RetryBefore(c) ==
  /\ pc[c] = "before" /\ applied[c] < Len(Chain) /\ Next1(c) = "retry"
  /\ Applied(c)
  /\ UNCHANGED <<sem, pc, undone, attempt, err, ctxVars, expired, canceled, panicked>>

\* A user policy's Before through callPolicyBefore: it succeeds, fails, or
\* panics; after a panic both unnamed results are nil, so the policy counts as
\* applied and the context is nil.
UserBefore(c) ==
  /\ pc[c] = "before" /\ applied[c] < Len(Chain) /\ Next1(c) = "user"
  /\ \/ /\ Applied(c)
        /\ UNCHANGED <<sem, pc, undone, attempt, err, ctxVars, expired, canceled, panicked>>
     \/ BeforeFails(c)
     \/ /\ Applied(c) /\ panicked' = [panicked EXCEPT ![c] = TRUE]
        /\ nilCtx' = [nilCtx EXCEPT ![c] = TRUE]
        /\ attached' = [attached EXCEPT ![c] = FALSE]
        /\ leaked' = [leaked EXCEPT ![c] = @ + timers[c]]
        /\ timers' = [timers EXCEPT ![c] = 0]
        /\ UNCHANGED <<sem, pc, undone, attempt, err, stopped, expired, canceled>>

\* Every policy is applied: fn starts.  From here on nothing but fn looks at the
\* attempt's context.
CallFn(c) ==
  /\ pc[c] = "before" /\ applied[c] = Len(Chain)
  /\ Goto(c, "exec") /\ expired' = [expired EXCEPT ![c] = FALSE]
  /\ UNCHANGED <<sem, applied, undone, attempt, err, ctxVars, canceled, panicked>>

\* fn returns, with an error or without.
FnReturns(c) ==
  /\ pc[c] = "exec" /\ Goto(c, "after")
  /\ \E e \in BOOLEAN : err' = [err EXCEPT ![c] = e]
  /\ UNCHANGED <<sem, applied, undone, attempt, ctxVars, expired, canceled, panicked>>

\* fn panics: nothing is deferred, no After runs.
FnPanic(c) ==
  /\ pc[c] = "exec" /\ Goto(c, "crashed") /\ AttemptDropped(c)
  /\ UNCHANGED <<sem, attempt, canceled, panicked>>

-----------------------------------------------------------------------------
(* applyAfterPolicies, in the order of the chain. *)

\* What the After of the policy of kind k does to the shared state.
Undo(c, k) ==
  /\ sem' = IF k = "limit" /\ sem > 0 THEN sem - 1 ELSE sem
  /\ stopped' = [stopped EXCEPT ![c] = @ \/ (k = "timeout" /\ ~nilCtx[c] /\ timers[c] > 0)]
  /\ \/ UNCHANGED err
     \/ k = "user" /\ err' = [err EXCEPT ![c] = TRUE]

\* callPolicyAfter for the next applied policy; a user policy may add an error,
\* its panic is swallowed.
After(c) ==
  /\ pc[c] \in {"after", "failing"} /\ undone[c] < applied[c]
  /\ Undo(c, Chain[undone[c] + 1])
  /\ undone' = [undone EXCEPT ![c] = @ + 1]
  /\ UNCHANGED <<pc, applied, attempt, nilCtx, attached, timers, leaked, expired, canceled, panicked>>

\* Fault: one attempt too many.
MayRetryOnceMore(c) ==
  /\ pc[c] = "after" /\ err[c] /\ ~canceled[c]
  /\ \E i \in 1..Len(Chain) : Chain[i] = "retry"
  /\ attempt[c] <= MaxAttempts

\* decideRetry: a retry policy may ask for another attempt after an error; it
\* looks at the caller's context.
MayRetry(c) ==
  /\ pc[c] = "after" /\ err[c] /\ ~canceled[c]
  /\ \E i \in 1..Len(Chain) : Chain[i] = "retry"
  /\ attempt[c] < MaxAttempts

\* The attempt is over and its context is dropped; the error, if any, is
\* retryable or not.
AttemptOver(c) ==
  /\ pc[c] \in {"after", "failing"} /\ undone[c] = applied[c]
  /\ \/ MayRetry(c) /\ Goto(c, "sleep")
     \/ Goto(c, "returned")
  /\ AttemptDropped(c)
  /\ UNCHANGED <<sem, attempt, canceled, panicked>>

\* Fault: the wait between two attempts ends only with the caller's context.
WakeUpWhenCanceled(c) ==
  /\ pc[c] = "sleep" /\ canceled[c] /\ Goto(c, "returned")
  /\ UNCHANGED <<sem, applied, undone, attempt, err, ctxVars, expired, canceled, panicked>>

\* sleepWithContext ends: the next attempt, or the caller's context is done.
WakeUp(c) ==
  /\ pc[c] = "sleep"
  /\ \/ StartAttempt(c)
     \/ /\ canceled[c] /\ Goto(c, "returned")
        /\ UNCHANGED <<sem, applied, undone, attempt, err, ctxVars, expired, canceled, panicked>>

-----------------------------------------------------------------------------
(* Contexts end. *)

Cancel(c) ==
  /\ ~canceled[c] /\ pc[c] \notin {"returned", "crashed"}
  /\ canceled' = [canceled EXCEPT ![c] = TRUE]
  /\ UNCHANGED <<sem, pc, applied, undone, attempt, err, ctxVars, expired, panicked>>

\* A timeout during fn shows in how fn returns.
TimeoutFires(c) ==
  /\ ~expired[c] /\ timers[c] > 0 /\ pc[c] = "before"
  /\ expired' = [expired EXCEPT ![c] = TRUE]
  /\ UNCHANGED <<sem, pc, applied, undone, attempt, err, ctxVars, canceled, panicked>>

Step(c) ==
  \/ LimitBefore(c) \/ TimeoutBefore(c) \/ RetryBefore(c) \/ UserBefore(c)
  \/ CallFn(c) \/ FnReturns(c) \/ After(c) \/ AttemptOver(c) \/ WakeUp(c)

Next ==
  \E c \in Calls :
    InvokeWithPolicies(c) \/ Step(c) \/ FnPanic(c) \/ Cancel(c) \/ TimeoutFires(c)

Spec == Init /\ [][Next]_vars

\* A call that can go on goes on, fn returns, and a free place in the channel
\* is not given to others for ever (senders on a channel queue up).
FairSpec ==
  Spec /\ \A c \in Calls : WF_vars(Step(c)) /\ SF_vars(LimitBefore(c))

-----------------------------------------------------------------------------
(* Properties. *)

LimitAt == CHOOSE i \in 1..Len(Chain) : Chain[i] = "limit"
Limited == \E i \in 1..Len(Chain) : Chain[i] = "limit"
\* The call is between the limit's Before and its After.
HasSlot(c) ==
  \/ pc[c] \in {"before", "exec", "after", "failing"}
       /\ applied[c] >= LimitAt /\ undone[c] < LimitAt
  \/ pc[c] = "crashed"

\* Type invariant of the invocations.
TypeOK ==
  /\ sem \in 0..MaxInFlight
  /\ pc \in [Calls -> PC] /\ attempt \in [Calls -> Nat]
  /\ applied \in [Calls -> 0..Len(Chain)] /\ undone \in [Calls -> 0..Len(Chain)]
  /\ timers \in [Calls -> Nat] /\ leaked \in [Calls -> Nat]

\* The channel of the concurrency limit holds exactly one token per invocation
\* between its Before and its After, over all attempts, failed Befores and
\* ended contexts: so at most MaxInFlight transport calls run, and the token
\* After takes, without looking whose it is, is its own.
SlotBalance ==
  Limited => sem = Cardinality({ c \in Calls : HasSlot(c) })

\* fn runs at most MaxAttempts times in one invocation.
AttemptsBounded == \A c \in Calls : attempt[c] <= MaxAttempts

\* With one timeout policy, an invocation that returned has canceled every
\* timeout context it derived, in every attempt, unless a Before panicked (which
\* loses the context the cancel function hangs on).
NoTimerLeak ==
  \A c \in Calls : pc[c] = "returned" /\ ~panicked[c] => leaked[c] = 0

\* Neither places of the limit nor timeout contexts leak, over a bounded number of
\* attempts.
InvocationsExact == TypeOK /\ SlotBalance /\ NoTimerLeak /\ AttemptsBounded

\* Every invocation returns, also one that waits for a place: only a transport
\* call that panics, whose place nobody gives back, can leave the others waiting.
EveryCallReturns ==
  \A c \in Calls :
    pc[c] = "before" ~> pc[c] = "returned" \/ \E d \in Calls : pc[d] = "crashed"

\* What TestInvokeWithPoliciesOrder expects, "after2" before "after1": policies
\* are undone in the reverse of the order in which they were applied.
AfterInReverse ==
  [][\A c \in Calls : After(c) => undone[c] + 1 = applied[c] - undone[c]]_vars

-----------------------------------------------------------------------------
\* A chain for the runs: a timeout around the limit, a user policy inside it,
\* retry innermost.
TimeoutLimitUserRetry == <<"timeout", "limit", "user", "retry">>
=============================================================================
