------------------------------- MODULE KvLock -------------------------------
(***************************************************************************)
(* kvx/module/lock: Lock, a lease on one key of a Redis or Valkey server,  *)
(* kept alive by an auto-extend goroutine.                                 *)
(*                                                                         *)
(* A member of Locks is one Lock object (its identifier is the token) used *)
(* by one goroutine; all compete for the same key, since keys do not       *)
(* interact.  Time advances in units by Tick; a server call takes effect   *)
(* in one step and returns in a later one, and it may fail with or without *)
(* having taken effect.  MaxDelay is what the timing properties assume of  *)
(* goroutine scheduling and of the network.                                *)
(***************************************************************************)
EXTENDS Integers

CONSTANTS
  Locks,      \* Lock objects
  TTL,        \* Options.TTL
  ExtendTTL,  \* the durations callers give to Extend
  MaxDelay,   \* bound: how late the extender acts on a tick, or Acquire on its reply
  AutoExtend, \* Options.AutoExtend
  NoOwner     \* the key is absent

\* The period of the ticker in startAutoExtend.
Interval == TTL \div 3

ASSUME LockAssumption ==
  /\ TTL \in Nat /\ MaxDelay \in Nat /\ AutoExtend \in BOOLEAN
  /\ Interval >= 1 /\ NoOwner \notin Locks
\* A delayed tick is acted on before the next one, and before the lease ends.
ASSUME TimingAssumption ==
  /\ MaxDelay < Interval /\ Interval + 2 * MaxDelay < TTL
  /\ \A n \in ExtendTTL : n \in Nat /\ n > Interval + MaxDelay

VARIABLES
  owner,    \* the token stored under the key
  left,     \* what is left of the key's time to live
  pc,       \* where the user of a Lock is
  ext,      \* its auto-extend goroutine
  timer,    \* time to the next tick of its ticker
  due,      \* a tick is in the ticker's channel
  late,     \* time since the tick, or since the server granted Acquire
  stop,     \* stopExtend was closed
  canceled  \* the context given to Acquire is done

lockVars == <<pc, ext, timer, due, late, stop, canceled>>
vars == <<owner, left, lockVars>>

UserPC == { "new", "acquiring", "held", "refused", "errored", "stopping",
            "released", "lost", "releaseFailed", "panicked" }
\* "call": the server has seen the Extend, the reply is on its way.
ExtPC == { "none", "wait", "call", "exited" }

Init ==
  /\ owner = NoOwner /\ left = 0
  /\ pc = [l \in Locks |-> "new"] /\ ext = [l \in Locks |-> "none"]
  /\ timer = [l \in Locks |-> Interval]
  /\ due = [l \in Locks |-> FALSE] /\ late = [l \in Locks |-> 0]
  /\ stop = [l \in Locks |-> FALSE] /\ canceled = [l \in Locks |-> FALSE]

-----------------------------------------------------------------------------
(* The server's side of kvx.Lock: SET NX PX and the two scripts. *)

Grant(l)  == owner = NoOwner /\ owner' = l /\ left' = TTL

\* extendLockScript: PEXPIRE when the stored token is the caller's.
Prolong(l, n) ==
  /\ left' = IF owner = l THEN n ELSE left
  /\ UNCHANGED owner

\* Fault: DEL without comparing the token.
DropAny(l) == owner' = NoOwner /\ left' = 0

\* releaseLockScript: DEL when the stored token is the caller's.
Drop(l) ==
  /\ owner' = IF owner = l THEN NoOwner ELSE owner
  /\ left'  = IF owner = l THEN 0 ELSE left

-----------------------------------------------------------------------------
(* Acquire, and TryAcquire, which repeats it after a refusal. *)

\* The call: the server grants it, refuses it, or it fails before that.
Acquire(l) ==
  /\ pc[l] \in {"new", "refused", "errored", "released", "lost"}
  /\ \/ /\ Grant(l)
        /\ pc' = [pc EXCEPT ![l] = "acquiring"]
        /\ late' = [late EXCEPT ![l] = 0]
     \/ /\ owner # NoOwner
        /\ pc' = [pc EXCEPT ![l] = "refused"]
        /\ UNCHANGED <<owner, left, late>>
     \/ /\ pc' = [pc EXCEPT ![l] = "errored"]
        /\ UNCHANGED <<owner, left, late>>
  /\ UNCHANGED <<ext, timer, due, stop, canceled>>

\* Fault: the ticker's period is the whole TTL.
StartSlow(l) ==
  /\ ext' = [ext EXCEPT ![l] = "wait"]
  /\ timer' = [timer EXCEPT ![l] = TTL]
  /\ due' = [due EXCEPT ![l] = FALSE]
  /\ late' = [late EXCEPT ![l] = 0]

\* startAutoExtend.
Start(l) ==
  /\ ext' = [ext EXCEPT ![l] = "wait"]
  /\ timer' = [timer EXCEPT ![l] = Interval]
  /\ due' = [due EXCEPT ![l] = FALSE]
  /\ late' = [late EXCEPT ![l] = 0]

\* Fault: the extender is started before the error is looked at.
StartsBeforeError(l) ==
  /\ pc[l] = "acquiring"
  /\ \E p \in {"held", "errored"} : pc' = [pc EXCEPT ![l] = p]
  /\ IF AutoExtend THEN Start(l) ELSE UNCHANGED <<ext, timer, due, late>>
  /\ UNCHANGED <<owner, left, stop, canceled>>

\* The grant reaches the caller; or it is lost and the caller sees an error
\* while the server keeps the key until it expires.
AcquireReturns(l) ==
  /\ pc[l] = "acquiring"
  /\ \/ /\ pc' = [pc EXCEPT ![l] = "held"]
        /\ IF AutoExtend THEN Start(l) ELSE UNCHANGED <<ext, timer, due, late>>
     \/ /\ pc' = [pc EXCEPT ![l] = "errored"]
        /\ UNCHANGED <<ext, timer, due, late>>
  /\ UNCHANGED <<owner, left, stop, canceled>>

-----------------------------------------------------------------------------
(* The auto-extend goroutine. *)

\* Fault: the lease is prolonged by the ticker's period instead of the TTL.
ExtendByInterval(l) ==
  /\ ext[l] = "wait" /\ due[l]
  /\ \/ Prolong(l, Interval) /\ ext' = [ext EXCEPT ![l] = "call"]
     \/ ext' = [ext EXCEPT ![l] = "exited"] /\ UNCHANGED <<owner, left>>
  /\ UNCHANGED <<pc, timer, due, late, stop, canceled>>

\* A tick is taken from the channel and the server executes the Extend, whose
\* boolean result is ignored; or the call fails and the goroutine returns.
ExtendOnTick(l) ==
  /\ ext[l] = "wait" /\ due[l]
  /\ \/ Prolong(l, TTL) /\ ext' = [ext EXCEPT ![l] = "call"]
     \/ ext' = [ext EXCEPT ![l] = "exited"] /\ UNCHANGED <<owner, left>>
  /\ UNCHANGED <<pc, timer, due, late, stop, canceled>>

ExtendReturns(l) ==
  /\ ext[l] = "call"
  /\ \E p \in {"wait", "exited"} : ext' = [ext EXCEPT ![l] = p]
  /\ due' = [due EXCEPT ![l] = FALSE] /\ late' = [late EXCEPT ![l] = 0]
  /\ UNCHANGED <<owner, left, pc, timer, stop, canceled>>

\* Fault: the goroutine does not listen to stopExtend.
ExtenderIgnoresStop(l) ==
  /\ ext[l] = "wait" /\ canceled[l]
  /\ ext' = [ext EXCEPT ![l] = "exited"]
  /\ UNCHANGED <<owner, left, pc, timer, due, late, stop, canceled>>

ExtenderStops(l) ==
  /\ ext[l] = "wait" /\ (stop[l] \/ canceled[l])
  /\ ext' = [ext EXCEPT ![l] = "exited"]
  /\ UNCHANGED <<owner, left, pc, timer, due, late, stop, canceled>>

\* The context given to Acquire ends.
Cancel(l) ==
  /\ ~canceled[l] /\ pc[l] = "held"
  /\ canceled' = [canceled EXCEPT ![l] = TRUE]
  /\ UNCHANGED <<owner, left, pc, ext, timer, due, late, stop>>

-----------------------------------------------------------------------------
(* Extend, IsHeld, Release. *)

\* Extend(ctx, ttl).
Extend(l, n) ==
  /\ pc[l] = "held"
  /\ Prolong(l, n)
  /\ UNCHANGED lockVars

\* IsHeld asks by extending the lease by the full TTL.
IsHeld(l) ==
  /\ pc[l] = "held"
  /\ Prolong(l, TTL)
  /\ UNCHANGED lockVars

\* Release begins with stopAutoExtend: close(stopExtend) panics when an earlier
\* Release closed it.
Release(l) ==
  /\ pc[l] \in {"held", "lost", "released", "releaseFailed"}
  /\ IF AutoExtend /\ stop[l]
       THEN pc' = [pc EXCEPT ![l] = "panicked"] /\ UNCHANGED stop
       ELSE /\ pc' = [pc EXCEPT ![l] = "stopping"]
            /\ stop' = [stop EXCEPT ![l] = AutoExtend]
  /\ UNCHANGED <<owner, left, ext, timer, due, late, canceled>>

\* Once extendWG.Wait has returned, the server's script runs; the call may
\* fail before or after that.
ReleaseCall(l) ==
  /\ pc[l] = "stopping" /\ ext[l] \notin {"wait", "call"}
  /\ \/ /\ Drop(l)
        /\ \E p \in {IF owner = l THEN "released" ELSE "lost", "releaseFailed"} :
             pc' = [pc EXCEPT ![l] = p]
     \/ pc' = [pc EXCEPT ![l] = "releaseFailed"] /\ UNCHANGED <<owner, left>>
  /\ UNCHANGED <<ext, timer, due, late, stop, canceled>>

-----------------------------------------------------------------------------
(* Time. *)

Running(l) == ext[l] \in {"wait", "call"}
\* MaxDelay is used up: the goroutine moves before time does.
Overdue(l) ==
  late[l] >= MaxDelay /\ (pc[l] = "acquiring" \/ (Running(l) /\ due[l]))

Tick ==
  /\ \A l \in Locks : ~Overdue(l)
  /\ left' = IF left = 0 THEN 0 ELSE left - 1
  /\ owner' = IF left <= 1 THEN NoOwner ELSE owner
  /\ timer' = [l \in Locks |->
       IF ~Running(l) THEN timer[l] ELSE IF timer[l] = 1 THEN Interval ELSE timer[l] - 1]
  /\ due' = [l \in Locks |-> due[l] \/ (Running(l) /\ timer[l] = 1)]
  /\ late' = [l \in Locks |->
       IF pc[l] = "acquiring" \/ (Running(l) /\ due[l]) THEN late[l] + 1 ELSE late[l]]
  /\ UNCHANGED <<pc, ext, stop, canceled>>

-----------------------------------------------------------------------------
Extender(l) == ExtendOnTick(l) \/ ExtendReturns(l) \/ ExtenderStops(l)
User(l) ==
  \/ Acquire(l) \/ Cancel(l) \/ IsHeld(l) \/ Release(l)
  \/ \E n \in ExtendTTL : Extend(l, n)
Returns(l) == AcquireReturns(l) \/ ReleaseCall(l)

Next == Tick \/ \E l \in Locks : Extender(l) \/ User(l) \/ Returns(l)
Spec == Init /\ [][Next]_vars

\* Time passes, goroutines are scheduled and calls return; nobody has to call
\* Acquire, Extend or Release.  A stopping extender must not lose its choice
\* to ticks for ever: Go's select is fair between ready cases.
Fairness ==
  /\ WF_vars(Tick)
  /\ \A l \in Locks :
       /\ WF_vars(Returns(l)) /\ WF_vars(Extender(l)) /\ SF_vars(ExtenderStops(l))
FairSpec == Spec /\ Fairness

-----------------------------------------------------------------------------
(* Properties. *)

\* Type invariant; the extender acts on a tick within MaxDelay, before the next.
TypeOK ==
  /\ owner \in Locks \cup {NoOwner} /\ left \in Nat
  /\ pc \in [Locks -> UserPC] /\ ext \in [Locks -> ExtPC]
  /\ timer \in [Locks -> 1..Interval]
  /\ due \in [Locks -> BOOLEAN] /\ late \in [Locks -> 0..MaxDelay]
  /\ stop \in [Locks -> BOOLEAN] /\ canceled \in [Locks -> BOOLEAN]

\* While its extender runs, a lock that was acquired is not lost: startAutoExtend
\* prolongs the lease before it ends, whatever the other lock objects do.  So of
\* the holders whose extenders run there is at most one.
LeaseKept == \A l \in Locks : pc[l] = "held" /\ Running(l) => owner = l

\* The key changes hands only through its owner's Release or by expiring: no
\* late Release or Extend of an earlier holder touches another's lease.
OnlyOwnerReleases ==
  [][owner' # owner /\ owner # NoOwner =>
       (owner' = NoOwner /\ (left <= 1 \/ pc[owner] = "stopping"))]_vars

\* A key that stays with a lock whose user has no use for it (the reply to
\* Acquire was lost, Release failed or panicked) becomes free.
Abandoned(l) ==
  owner = l /\ pc[l] \in {"errored", "refused", "releaseFailed", "panicked"}
AbandonedKeyFreed == \A l \in Locks : Abandoned(l) ~> owner # l

\* Release returns: the extender it waits for hears stopExtend.
ReleaseEnds == \A l \in Locks : pc[l] = "stopping" ~> pc[l] # "stopping"
=============================================================================
