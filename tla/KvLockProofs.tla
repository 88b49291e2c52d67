---------------------------- MODULE KvLockProofs ----------------------------
(***************************************************************************)
(* Proofs about KvLock for every set of locks and every timing allowed by  *)
(* LockAssumption and TimingAssumption: an auto-extended lease is never    *)
(* lost, and a key leaves its owner only by Release or by expiring.        *)
(***************************************************************************)
EXTENDS KvLock, TLAPS

\* While the grant travels to Acquire the lease lasts for all but its delay.
AcquiringInv ==
  \A l \in Locks : pc[l] = "acquiring" => owner = l /\ left >= TTL - late[l]

\* A lease outlasts the time to the next tick and the delay of acting on it;
\* once the tick is due, what is left of that delay.
HeldInv ==
  \A l \in Locks : pc[l] = "held" /\ Running(l) =>
    /\ owner = l
    /\ (ext[l] = "call" \/ ~due[l]) => left > timer[l] + MaxDelay
    /\ left > MaxDelay - late[l]

\* The extender runs only for a user who has the lock or is letting it go; the
\* ticker counts down from the tick that is being acted on.
ExtenderInv ==
  \A l \in Locks : Running(l) =>
    /\ pc[l] \in {"held", "stopping", "panicked"}
    /\ IF due[l] THEN timer[l] >= Interval - late[l] ELSE late[l] = 0
    /\ ext[l] = "call" => due[l]

\* The inductive invariant.
LockInv == TypeOK /\ AcquiringInv /\ HeldInv /\ ExtenderInv

\* The ticker's period is a positive integer, and TTL is ample.
LEMMA Timing ==
  /\ Interval \in Nat /\ Interval >= 1 /\ MaxDelay \in Nat /\ TTL \in Nat
  /\ MaxDelay < Interval /\ Interval + 2 * MaxDelay < TTL
  /\ \A n \in ExtendTTL : n \in Nat /\ n > Interval + MaxDelay
<1>1. TTL \in Nat /\ MaxDelay \in Nat BY LockAssumption
<1>2. TTL \div 3 \in Nat BY <1>1, SMT
<1> QED BY <1>1, <1>2, LockAssumption, TimingAssumption DEF Interval

LEMMA InitLock == Init => LockInv
<1> SUFFICES ASSUME Init PROVE LockInv OBVIOUS
<1>1. TypeOK BY Timing DEF Init, TypeOK, UserPC, ExtPC
<1>2. AcquiringInv /\ HeldInv /\ ExtenderInv
  BY DEF Init, AcquiringInv, HeldInv, ExtenderInv, Running
<1> QED BY <1>1, <1>2 DEF LockInv

\* Time passes.
LEMMA TickKeeps == LockInv /\ Tick => LockInv'
<1> SUFFICES ASSUME LockInv, Tick PROVE LockInv' OBVIOUS
<1> USE Timing
<1>t. TypeOK BY DEF LockInv
<1>1. \A l \in Locks : late'[l] \in 0..MaxDelay
  <2> SUFFICES ASSUME NEW l \in Locks PROVE late'[l] \in 0..MaxDelay OBVIOUS
  <2>1. ~Overdue(l) BY DEF Tick
  <2>2. late[l] \in 0..MaxDelay BY <1>t DEF TypeOK
  <2> QED BY <2>1, <2>2 DEF Tick, Overdue
<1>2. \A l \in Locks : timer'[l] \in 1..Interval
  BY <1>t DEF TypeOK, Tick
<1>3. TypeOK'
  <2>1. late' \in [Locks -> 0..MaxDelay] /\ timer' \in [Locks -> 1..Interval]
    BY <1>1, <1>2 DEF Tick
  <2>2. owner' \in Locks \cup {NoOwner} BY <1>t DEF TypeOK, Tick
  <2>3. left' \in Nat BY <1>t DEF TypeOK, Tick
  <2>4. due' \in [Locks -> BOOLEAN] BY <1>t DEF TypeOK, Tick
  <2> QED BY <1>t, <2>1, <2>2, <2>3, <2>4 DEF TypeOK, Tick
<1>4. AcquiringInv'
  <2> SUFFICES ASSUME NEW l \in Locks, pc'[l] = "acquiring"
               PROVE  owner' = l /\ left' >= TTL - late'[l]
    BY DEF AcquiringInv
  <2>1. pc[l] = "acquiring" /\ owner = l /\ left >= TTL - late[l]
    BY DEF LockInv, AcquiringInv, Tick
  <2>2. late[l] < MaxDelay /\ late'[l] = late[l] + 1 /\ late[l] \in Nat
    BY <1>t, <2>1 DEF Tick, Overdue, TypeOK
  <2>3. left \in Nat BY <1>t DEF TypeOK
  <2> QED BY <2>1, <2>2, <2>3 DEF Tick
<1>5. HeldInv'
  <2> SUFFICES ASSUME NEW l \in Locks, pc'[l] = "held", Running(l)'
               PROVE  /\ owner' = l
                      /\ (ext'[l] = "call" \/ ~due'[l]) => left' > timer'[l] + MaxDelay
                      /\ left' > MaxDelay - late'[l]
    BY DEF HeldInv
  <2>1. pc[l] = "held" /\ Running(l) /\ ext'[l] = ext[l] BY DEF Tick, Running
  <2>2. /\ owner = l /\ left > MaxDelay - late[l]
        /\ (ext[l] = "call" \/ ~due[l]) => left > timer[l] + MaxDelay
    BY <2>1 DEF LockInv, HeldInv
  <2>3. /\ IF due[l] THEN timer[l] >= Interval - late[l] ELSE late[l] = 0
        /\ ext[l] = "call" => due[l]
    BY <2>1 DEF LockInv, ExtenderInv
  <2>4. left \in Nat /\ timer[l] \in 1..Interval /\ late[l] \in 0..MaxDelay /\ due[l] \in BOOLEAN
    BY <1>t DEF TypeOK
  <2>5. CASE due[l]
    <3>1. late[l] < MaxDelay /\ late'[l] = late[l] + 1 BY <2>1, <2>4, <2>5 DEF Tick, Overdue
    <3>2. timer[l] # 1 /\ timer'[l] = timer[l] - 1 BY <2>1, <2>3, <2>4, <2>5, <3>1 DEF Tick
    <3>3. due'[l] BY <2>5 DEF Tick
    <3>4. left >= 2 /\ left' = left - 1 /\ owner' = owner
      BY <2>2, <2>4, <3>1 DEF Tick
    <3> QED BY <2>1, <2>2, <2>4, <3>1, <3>2, <3>3, <3>4
  <2>6. CASE ~due[l]
    <3>1. late'[l] = late[l] /\ late[l] = 0 BY <2>1, <2>3, <2>6 DEF Tick
    <3>2. ext[l] # "call" BY <2>3, <2>6
    <3>3. left >= 2 /\ left' = left - 1 /\ owner' = owner
      BY <2>2, <2>4, <2>6 DEF Tick
    <3>4. timer'[l] = IF timer[l] = 1 THEN Interval ELSE timer[l] - 1 BY <2>1 DEF Tick
    <3>5. due'[l] <=> timer[l] = 1 BY <2>1, <2>6 DEF Tick
    <3> QED BY <2>1, <2>2, <2>4, <2>6, <3>1, <3>2, <3>3, <3>4, <3>5
  <2> QED BY <2>5, <2>6
<1>6. ExtenderInv'
  <2> SUFFICES ASSUME NEW l \in Locks, Running(l)'
               PROVE  /\ pc'[l] \in {"held", "stopping", "panicked"}
                      /\ IF due'[l] THEN timer'[l] >= Interval - late'[l] ELSE late'[l] = 0
                      /\ ext'[l] = "call" => due'[l]
    BY DEF ExtenderInv
  <2>1. Running(l) /\ ext'[l] = ext[l] /\ pc'[l] = pc[l] BY DEF Tick, Running
  <2>2. /\ pc[l] \in {"held", "stopping", "panicked"}
        /\ IF due[l] THEN timer[l] >= Interval - late[l] ELSE late[l] = 0
        /\ ext[l] = "call" => due[l]
    BY <2>1 DEF LockInv, ExtenderInv
  <2>3. timer[l] \in 1..Interval /\ late[l] \in 0..MaxDelay /\ due[l] \in BOOLEAN
    BY <1>t DEF TypeOK
  <2>4. CASE due[l]
    <3>1. late[l] < MaxDelay /\ late'[l] = late[l] + 1 BY <2>1, <2>3, <2>4 DEF Tick, Overdue
    <3>2. timer[l] # 1 /\ timer'[l] = timer[l] - 1 BY <2>1, <2>2, <2>3, <2>4, <3>1 DEF Tick
    <3>3. due'[l] BY <2>4 DEF Tick
    <3> QED BY <2>1, <2>2, <2>3, <2>4, <3>1, <3>2, <3>3
  <2>5. CASE ~due[l]
    <3>1. late'[l] = 0 BY <2>1, <2>2, <2>5 DEF Tick
    <3>2. timer'[l] = IF timer[l] = 1 THEN Interval ELSE timer[l] - 1 BY <2>1 DEF Tick
    <3>3. due'[l] <=> timer[l] = 1 BY <2>1, <2>5 DEF Tick
    <3> QED BY <2>1, <2>2, <2>5, <3>1, <3>2, <3>3
  <2> QED BY <2>4, <2>5
<1> QED BY <1>3, <1>4, <1>5, <1>6 DEF LockInv

\* One lock's goroutines take a step.
LEMMA LockStepKeeps ==
  ASSUME NEW l \in Locks, LockInv, Extender(l) \/ User(l) \/ Returns(l)
  PROVE  LockInv'
<1> USE Timing, LockAssumption
<1>t. TypeOK /\ AcquiringInv /\ HeldInv /\ ExtenderInv BY DEF LockInv
<1>1. CASE Acquire(l)
  <2>1. TypeOK' BY <1>t, <1>1 DEF Acquire, Grant, TypeOK, UserPC, ExtPC
  <2>2. AcquiringInv' BY <1>t, <1>1 DEF Acquire, Grant, TypeOK, AcquiringInv, ExtenderInv, Running
  <2>3. HeldInv' BY <1>t, <1>1 DEF Acquire, Grant, TypeOK, AcquiringInv, HeldInv, ExtenderInv, Running
  <2>4. ExtenderInv' BY <1>t, <1>1 DEF Acquire, Grant, TypeOK, ExtenderInv, Running
  <2> QED BY <2>1, <2>2, <2>3, <2>4 DEF LockInv
<1>2. CASE AcquireReturns(l)
  <2>1. TypeOK'
    <3>1. CASE Start(l)
      BY <1>t, <1>2, <3>1 DEF AcquireReturns, Start, TypeOK, UserPC, ExtPC
    <3>2. CASE UNCHANGED <<ext, timer, due, late>>
      BY <1>t, <1>2, <3>2 DEF AcquireReturns, TypeOK, UserPC
    <3> QED BY <1>2, <3>1, <3>2 DEF AcquireReturns
  <2>2. AcquiringInv' BY <1>t, <1>2 DEF AcquireReturns, Start, TypeOK, AcquiringInv, ExtenderInv, Running
  <2>3. HeldInv' BY <1>t, <1>2 DEF AcquireReturns, Start, TypeOK, AcquiringInv, HeldInv, ExtenderInv, Running
  <2>4. ExtenderInv' BY <1>t, <1>2 DEF AcquireReturns, Start, TypeOK, ExtenderInv, Running
  <2> QED BY <2>1, <2>2, <2>3, <2>4 DEF LockInv
<1>3. CASE ExtendOnTick(l)
  <2>1. TypeOK' BY <1>t, <1>3 DEF ExtendOnTick, Prolong, TypeOK, UserPC, ExtPC
  <2>2. AcquiringInv' BY <1>t, <1>3 DEF ExtendOnTick, Prolong, TypeOK, AcquiringInv, ExtenderInv, Running
  <2>3. HeldInv' BY <1>t, <1>3 DEF ExtendOnTick, Prolong, TypeOK, AcquiringInv, HeldInv, ExtenderInv, Running
  <2>4. ExtenderInv' BY <1>t, <1>3 DEF ExtendOnTick, Prolong, TypeOK, ExtenderInv, Running
  <2> QED BY <2>1, <2>2, <2>3, <2>4 DEF LockInv
<1>4. CASE ExtendReturns(l)
  <2>1. TypeOK' BY <1>t, <1>4 DEF ExtendReturns, TypeOK, UserPC, ExtPC
  <2>2. AcquiringInv' BY <1>t, <1>4 DEF ExtendReturns, TypeOK, AcquiringInv, ExtenderInv, Running
  <2>3. HeldInv' BY <1>t, <1>4 DEF ExtendReturns, TypeOK, AcquiringInv, HeldInv, ExtenderInv, Running
  <2>4. ExtenderInv' BY <1>t, <1>4 DEF ExtendReturns, TypeOK, ExtenderInv, Running
  <2> QED BY <2>1, <2>2, <2>3, <2>4 DEF LockInv
<1>5. CASE ExtenderStops(l)
  <2>1. TypeOK' BY <1>t, <1>5 DEF ExtenderStops, TypeOK, UserPC, ExtPC
  <2>2. AcquiringInv' BY <1>t, <1>5 DEF ExtenderStops, TypeOK, AcquiringInv, ExtenderInv, Running
  <2>3. HeldInv' BY <1>t, <1>5 DEF ExtenderStops, TypeOK, AcquiringInv, HeldInv, ExtenderInv, Running
  <2>4. ExtenderInv' BY <1>t, <1>5 DEF ExtenderStops, TypeOK, ExtenderInv, Running
  <2> QED BY <2>1, <2>2, <2>3, <2>4 DEF LockInv
<1>6. CASE Cancel(l)
  <2>1. TypeOK' BY <1>t, <1>6 DEF Cancel, TypeOK, UserPC, ExtPC
  <2>2. AcquiringInv' BY <1>t, <1>6 DEF Cancel, TypeOK, AcquiringInv, ExtenderInv, Running
  <2>3. HeldInv' BY <1>t, <1>6 DEF Cancel, TypeOK, AcquiringInv, HeldInv, ExtenderInv, Running
  <2>4. ExtenderInv' BY <1>t, <1>6 DEF Cancel, TypeOK, ExtenderInv, Running
  <2> QED BY <2>1, <2>2, <2>3, <2>4 DEF LockInv
<1>7. ASSUME NEW n \in ExtendTTL, Extend(l, n) PROVE LockInv'
  <2>1. TypeOK' BY <1>t, <1>7 DEF Extend, Prolong, lockVars, TypeOK, UserPC, ExtPC
  <2>2. AcquiringInv' BY <1>t, <1>7 DEF Extend, Prolong, lockVars, TypeOK, AcquiringInv, ExtenderInv, Running
  <2>3. HeldInv' BY <1>t, <1>7 DEF Extend, Prolong, lockVars, TypeOK, AcquiringInv, HeldInv, ExtenderInv, Running
  <2>4. ExtenderInv' BY <1>t, <1>7 DEF Extend, Prolong, lockVars, TypeOK, ExtenderInv, Running
  <2> QED BY <2>1, <2>2, <2>3, <2>4 DEF LockInv
<1>8. CASE IsHeld(l)
  <2>1. TypeOK' BY <1>t, <1>8 DEF IsHeld, Prolong, lockVars, TypeOK, UserPC, ExtPC
  <2>2. AcquiringInv' BY <1>t, <1>8 DEF IsHeld, Prolong, lockVars, TypeOK, AcquiringInv, ExtenderInv, Running
  <2>3. HeldInv' BY <1>t, <1>8 DEF IsHeld, Prolong, lockVars, TypeOK, AcquiringInv, HeldInv, ExtenderInv, Running
  <2>4. ExtenderInv' BY <1>t, <1>8 DEF IsHeld, Prolong, lockVars, TypeOK, ExtenderInv, Running
  <2> QED BY <2>1, <2>2, <2>3, <2>4 DEF LockInv
<1>9. CASE Release(l)
  <2>1. TypeOK' BY <1>t, <1>9 DEF Release, TypeOK, UserPC, ExtPC
  <2>2. AcquiringInv' BY <1>t, <1>9 DEF Release, TypeOK, AcquiringInv, ExtenderInv, Running
  <2>3. HeldInv' BY <1>t, <1>9 DEF Release, TypeOK, AcquiringInv, HeldInv, ExtenderInv, Running
  <2>4. ExtenderInv' BY <1>t, <1>9 DEF Release, TypeOK, ExtenderInv, Running
  <2> QED BY <2>1, <2>2, <2>3, <2>4 DEF LockInv
<1>10. CASE ReleaseCall(l)
  <2>1. TypeOK' BY <1>t, <1>10 DEF ReleaseCall, Drop, TypeOK, UserPC, ExtPC
  <2>2. AcquiringInv' BY <1>t, <1>10 DEF ReleaseCall, Drop, TypeOK, AcquiringInv, ExtenderInv, Running
  <2>3. HeldInv' BY <1>t, <1>10 DEF ReleaseCall, Drop, TypeOK, AcquiringInv, HeldInv, ExtenderInv, Running
  <2>4. ExtenderInv' BY <1>t, <1>10 DEF ReleaseCall, Drop, TypeOK, ExtenderInv, Running
  <2> QED BY <2>1, <2>2, <2>3, <2>4 DEF LockInv
<1> QED BY <1>1, <1>2, <1>3, <1>4, <1>5, <1>6, <1>7, <1>8, <1>9, <1>10
       DEF Extender, User, Returns

\* The conjunction of the bounds on the lease is an invariant of KvLock.
THEOREM LockInvariant == Spec => []LockInv
<1>1. LockInv /\ UNCHANGED vars => LockInv'
  BY DEF vars, lockVars, LockInv, TypeOK, AcquiringInv, HeldInv, ExtenderInv, Running
<1>2. LockInv /\ [Next]_vars => LockInv'
  BY <1>1, TickKeeps, LockStepKeeps DEF Next
<1> QED BY InitLock, <1>2, PTL DEF Spec

\* TypeOK of KvLock: in particular no tick is acted on later than MaxDelay.
THEOREM TypeOKAlways == Spec => []TypeOK
<1>1. LockInv => TypeOK BY DEF LockInv
<1> QED BY <1>1, LockInvariant, PTL

\* While its extender runs, an acquired lock is not lost (startAutoExtend's
\* period of a third of the TTL suffices), for all locks, TTLs and delays.
THEOREM LeaseKeptAlways == Spec => []LeaseKept
<1>1. LockInv => LeaseKept BY DEF LockInv, HeldInv, LeaseKept
<1> QED BY <1>1, LockInvariant, PTL

\* The key leaves its owner only by the owner's Release or by expiring: the
\* scripts of Extend and Release compare the token.
THEOREM OnlyOwnerReleasesAlways == Spec => OnlyOwnerReleases
<1> DEFINE Safe == owner' # owner /\ owner # NoOwner =>
                     (owner' = NoOwner /\ (left <= 1 \/ pc[owner] = "stopping"))
<1>1. ASSUME [Next]_vars PROVE Safe
  <2>1. CASE UNCHANGED vars BY <2>1 DEF vars
  <2>2. CASE Tick BY <2>2 DEF Tick
  <2>3. ASSUME NEW l \in Locks, Extender(l) \/ User(l) \/ Returns(l) PROVE Safe
    <3>1. CASE Acquire(l) BY <3>1 DEF Acquire, Grant
    <3>2. CASE ReleaseCall(l) BY <3>2 DEF ReleaseCall, Drop
    <3>3. CASE ExtendOnTick(l) BY <3>3 DEF ExtendOnTick, Prolong
    <3>4. CASE IsHeld(l) \/ \E n \in ExtendTTL : Extend(l, n)
      BY <3>4 DEF IsHeld, Extend, Prolong
    <3>5. CASE AcquireReturns(l) \/ ExtendReturns(l) \/ ExtenderStops(l) \/ Cancel(l) \/ Release(l)
      BY <3>5 DEF AcquireReturns, ExtendReturns, ExtenderStops, Cancel, Release
    <3> QED BY <2>3, <3>1, <3>2, <3>3, <3>4, <3>5 DEF Extender, User, Returns
  <2> QED BY <1>1, <2>1, <2>2, <2>3 DEF Next
<1> QED BY <1>1, PTL DEF Spec, OnlyOwnerReleases
=============================================================================
