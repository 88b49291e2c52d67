------------------------------ MODULE KvProofs ------------------------------
(***************************************************************************)
(* The users of the key-value store, proved for every number of clients,   *)
(* locks, entries and subscriptions. Each part of MCKv takes only its own  *)
(* steps, so each has an invariant of its own.                             *)
(***************************************************************************)
EXTENDS MCKv, FiniteSetTheorems, SequenceTheorems, TLAPS

-----------------------------------------------------------------------------
(* Semaphore. *)

Out == { c \in Clients : PermitOut(c) }

\* A client about to store one more has seen a count below the limit; and until
\* an update is lost, everyone between its load and its store has seen the count
\* that is stored, which is the number of permits out.
SemInv ==
  /\ CountWithinLimit /\ ExactUnlessRaced
  /\ raced \in BOOLEAN
  /\ \A c \in Clients : semPc[c] = "acquiring" => seen[c] < Limit
  /\ ~raced => \A c \in Updating : seen[c] = Stored

\* Finitely many permits are out.
LEMMA OutFinite == IsFiniteSet(Out) /\ Cardinality(Out) \in Nat
BY SemaphoreAssumption, FS_Subset, FS_CardinalityType DEF Out

\* What moving one client does to the permits that are out.
LEMMA SemGotoOut ==
  ASSUME SemInv, NEW c \in Clients, NEW p \in SemPC, SemGoto(c, p)
  PROVE  /\ p \in {"held", "releasing", "dead"} => Out' = Out \cup {c}
         /\ p \notin {"held", "releasing", "dead"} => Out' = Out \ {c}
         /\ semPc' \in [Clients -> SemPC] /\ semPc'[c] = p
         /\ \A d \in Clients \ {c} : semPc'[d] = semPc[d]
BY DEF SemInv, CountWithinLimit, SemGoto, Out, PermitOut

\* A permit is taken and given back by a load and a store with others in between.
LEMMA SemStep == ASSUME SemInv, [SemNext]_semVars PROVE SemInv'
<1> USE SemaphoreAssumption
<1>0. Stored \in 0..Limit /\ (count # NoKey => Stored = count)
  BY DEF SemInv, CountWithinLimit, Stored
<1>1. ASSUME NEW c \in Clients, Acquire(c) PROVE SemInv'
  <2>1. /\ semPc[c] = "idle" /\ Stored < Limit /\ seen' = [seen EXCEPT ![c] = Stored]
        /\ SemGoto(c, "acquiring") /\ UNCHANGED <<count, leased, raced>>
    BY <1>1 DEF Acquire, See
  <2>2. Out' = Out \ {c} /\ c \notin Out
    BY <2>1, SemGotoOut DEF SemPC, Out, PermitOut
  <2>3. Out' = Out /\ Stored' = Stored
    BY <2>1, <2>2 DEF Stored
  <2>4. /\ seen' \in [Clients -> 0..Limit] /\ seen'[c] = Stored
        /\ \A d \in Clients \ {c} : seen'[d] = seen[d]
    BY <1>0, <2>1 DEF SemInv, CountWithinLimit
  <2>5. /\ semPc' \in [Clients -> SemPC] /\ semPc'[c] = "acquiring"
        /\ \A d \in Clients \ {c} : semPc'[d] = semPc[d]
    BY <2>1, SemGotoOut DEF SemPC
  <2>6. CountWithinLimit' /\ ExactUnlessRaced'
    BY <2>1, <2>3, <2>4, <2>5 DEF SemInv, CountWithinLimit, ExactUnlessRaced, Out
  <2> QED BY <2>1, <2>3, <2>4, <2>5, <2>6 DEF SemInv, Updating
\* The store of c takes effect with count n, or fails.
<1>2. ASSUME NEW c \in Updating, NEW n \in 0..Limit, NEW p \in SemPC, NEW q \in SemPC, NEW ttl0,
             \/ Store(c, n, ttl0) /\ SemGoto(c, p)
             \/ StoreFails(c, n, ttl0) /\ SemGoto(c, q),
             semPc[c] = "acquiring" => n = seen[c] + 1 /\ p = "held" /\ q = "idle",
             semPc[c] = "releasing" => (seen[c] > 0 => n = seen[c] - 1) /\ p = "idle" /\ q = "held"
      PROVE  SemInv'
  <2>0. c \in Clients /\ semPc[c] \in {"acquiring", "releasing"} /\ seen[c] \in 0..Limit
    BY DEF Updating, SemInv, CountWithinLimit
  <2>1. PICK r \in {p, q} : SemGoto(c, r)
    BY <1>2
  <2>2. /\ semPc' \in [Clients -> SemPC] /\ semPc'[c] = r /\ r \in {"held", "idle"}
        /\ \A d \in Clients \ {c} : semPc'[d] = semPc[d]
    BY <1>2, <2>0, <2>1, SemGotoOut
  <2>3. seen' = [seen EXCEPT ![c] = 0] /\ count' \in {count, n} /\ raced' \in BOOLEAN
    BY <1>2 DEF Store, StoreFails, See, SemInv
  <2>4. /\ seen' \in [Clients -> 0..Limit] /\ \A d \in Clients \ {c} : seen'[d] = seen[d]
    BY <2>0, <2>3 DEF SemInv, CountWithinLimit
  <2>5. CountWithinLimit'
    BY <1>2, <2>2, <2>3, <2>4 DEF SemInv, CountWithinLimit
  <2>6. \A d \in Clients : semPc'[d] = "acquiring" => seen'[d] < Limit
    BY <2>2, <2>4 DEF SemInv
  <2>7. Updating' = Updating \ {c}
    BY <2>2 DEF Updating
  <2>8. ASSUME ~raced'
        PROVE  (\A d \in Updating' : seen'[d] = Stored') /\ Stored' = Cardinality(Out')
    <3>0. ~raced
      BY <1>2, <2>8 DEF Store, StoreFails, SemInv
    <3>1. Stored = Cardinality(Out) /\ seen[c] = Stored /\ Cardinality(Out) \in Nat
      BY <1>2, <3>0, OutFinite DEF SemInv, ExactUnlessRaced, Out
    <3>2. CASE Store(c, n, ttl0) /\ SemGoto(c, p)
      <4>1. Updating = {c} /\ count' = n
        BY <2>8, <3>2 DEF Store
      <4>2. Stored' = n
        BY <4>1 DEF Stored
      <4>3. CASE semPc[c] = "acquiring"
        <5>1. Out' = Out \cup {c} /\ c \notin Out /\ n = seen[c] + 1
          BY <1>2, <2>0, <3>2, <4>3, SemGotoOut DEF Out, PermitOut
        <5>2. Cardinality(Out') = Cardinality(Out) + 1
          BY <5>1, OutFinite, FS_AddElement
        <5> QED BY <2>7, <3>1, <4>1, <4>2, <5>1, <5>2
      <4>4. CASE semPc[c] = "releasing"
        <5>1. Out' = Out \ {c} /\ c \in Out
          BY <1>2, <2>0, <3>2, <4>4, SemGotoOut DEF Out, PermitOut
        <5>2. Cardinality(Out') = Cardinality(Out) - 1 /\ Cardinality(Out) # 0
          BY <5>1, OutFinite, FS_RemoveElement, FS_EmptySet
        <5>3. n = seen[c] - 1
          BY <1>2, <3>1, <4>4, <5>2
        <5> QED BY <2>7, <3>1, <4>1, <4>2, <5>2, <5>3
      <4> QED BY <2>0, <4>3, <4>4
    <3>3. CASE StoreFails(c, n, ttl0) /\ SemGoto(c, q)
      <4>1. UNCHANGED count
        BY <2>8, <3>3 DEF StoreFails
      <4>2. Out' = Out
        BY <1>2, <2>0, <3>3, SemGotoOut DEF Out, PermitOut
      <4>3. Stored' = Stored
        BY <4>1 DEF Stored
      <4>4. \A d \in Updating' : d \in Updating /\ d # c /\ d \in Clients
        BY <2>7 DEF Updating
      <4> QED BY <2>4, <3>0, <3>1, <4>2, <4>3, <4>4 DEF SemInv
    <3> QED BY <1>2, <3>2, <3>3
  <2> QED BY <2>3, <2>5, <2>6, <2>8 DEF SemInv, ExactUnlessRaced, Out
<1>3. ASSUME NEW c \in Clients, AcquireStores(c) PROVE SemInv'
  <2>1. c \in Updating /\ semPc[c] = "acquiring" /\ seen[c] + 1 \in 0..Limit
    BY <1>3 DEF AcquireStores, Updating, SemInv, CountWithinLimit
  <2> QED BY <1>2, <1>3, <2>1 DEF AcquireStores, SemPC
<1>4. ASSUME NEW c \in Clients, ReleaseStores(c) PROVE SemInv'
  <2> DEFINE n == IF seen[c] > 0 THEN seen[c] - 1 ELSE seen[c]
  <2>1. c \in Updating /\ semPc[c] = "releasing" /\ n \in 0..Limit
    BY <1>4 DEF ReleaseStores, Updating, SemInv, CountWithinLimit
  <2>2. \/ Store(c, n, FALSE) /\ SemGoto(c, "idle")
        \/ StoreFails(c, n, FALSE) /\ SemGoto(c, "held")
    BY <1>4 DEF ReleaseStores
  <2> QED BY <1>2, <2>1, <2>2 DEF SemPC
<1>5. ASSUME NEW c \in Clients, Release(c) PROVE SemInv'
  <2>1. semPc[c] = "held" /\ UNCHANGED <<count, leased, raced>>
    BY <1>5 DEF Release
  <2>2. c \in Out /\ Stored' = Stored
    BY <2>1 DEF Out, PermitOut, Stored
  <2>3. CASE count = NoKey
    <3>1. SemGoto(c, "idle") /\ UNCHANGED seen
      BY <1>5, <2>3 DEF Release
    <3>2. raced
      <4>1. Stored = 0 /\ Cardinality(Out) # 0
        BY <2>2, <2>3, OutFinite, FS_EmptySet DEF Stored
      <4> QED BY <4>1 DEF SemInv, ExactUnlessRaced, Out
    <3>3. /\ semPc' \in [Clients -> SemPC] /\ semPc'[c] = "idle"
          /\ \A d \in Clients \ {c} : semPc'[d] = semPc[d]
      BY <3>1, SemGotoOut DEF SemPC
    <3> QED BY <2>1, <3>1, <3>2, <3>3 DEF SemInv, CountWithinLimit, ExactUnlessRaced
  <2>4. CASE count # NoKey
    <3>1. SemGoto(c, "releasing") /\ seen' = [seen EXCEPT ![c] = count] /\ count = Stored
      BY <1>0, <1>5, <2>4 DEF Release, See
    <3>2. /\ semPc' \in [Clients -> SemPC] /\ semPc'[c] = "releasing" /\ Out' = Out
          /\ \A d \in Clients \ {c} : semPc'[d] = semPc[d]
      BY <2>2, <3>1, SemGotoOut DEF SemPC
    <3>3. /\ seen' \in [Clients -> 0..Limit] /\ seen'[c] = Stored
          /\ \A d \in Clients \ {c} : seen'[d] = seen[d]
      BY <1>0, <3>1 DEF SemInv, CountWithinLimit
    <3>4. CountWithinLimit' /\ ExactUnlessRaced'
      BY <2>1, <2>2, <3>2, <3>3 DEF SemInv, CountWithinLimit, ExactUnlessRaced, Out
    <3> QED BY <2>1, <2>2, <3>2, <3>3, <3>4 DEF SemInv, Updating
  <2> QED BY <2>3, <2>4
<1>6. CASE SemExpire
  BY <1>6 DEF SemExpire, SemInv, CountWithinLimit, ExactUnlessRaced
<1>7. ASSUME NEW c \in Clients, Die(c) PROVE SemInv'
  <2>1. SemGoto(c, "dead") /\ UNCHANGED <<count, seen, raced>> /\ c \in Out
    BY <1>7 DEF Die, Out, PermitOut
  <2>2. /\ semPc' \in [Clients -> SemPC] /\ semPc'[c] = "dead" /\ Out' = Out
        /\ \A d \in Clients \ {c} : semPc'[d] = semPc[d]
    BY <2>1, SemGotoOut DEF SemPC
  <2>3. Stored' = Stored
    BY <2>1 DEF Stored
  <2> QED BY <2>1, <2>2, <2>3 DEF SemInv, CountWithinLimit, ExactUnlessRaced, Out, Updating
<1>8. CASE UNCHANGED semVars
  BY <1>8 DEF semVars, SemInv, CountWithinLimit, ExactUnlessRaced, PermitOut, Stored, Updating
<1> QED BY <1>1, <1>3, <1>4, <1>5, <1>6, <1>7, <1>8 DEF SemNext

-----------------------------------------------------------------------------
(* RWLock. *)

\* Until a Lock met someone or a write key expired under its holder, a writer
\* is alone and its key is there, which stops RLock.
RWInv ==
  /\ rwPc \in [Objects -> RWPC] /\ disturbed \in BOOLEAN
  /\ ~disturbed => \A o \in Objects : rwPc[o] = "writing" =>
       writeKey # NoWriter /\ \A q \in Objects \ {o} : rwPc[q] = "idle"

\* Lock, RLock and their releases, and a key that expires.
LEMMA RWStep == ASSUME RWInv, [RWNext]_rwVars PROVE RWInv'
<1> USE RWAssumption DEF RWInv, RWGoto, RWPC
<1>1. ASSUME NEW o \in Objects, RLock(o) \/ RLockStores(o) PROVE RWInv'
  BY <1>1 DEF RLock, RLockStores
<1>2. ASSUME NEW o \in Objects, RUnlock(o) \/ Unlock(o) PROVE RWInv'
  BY <1>2 DEF RUnlock, Unlock
<1>3. ASSUME NEW o \in Objects, Lock(o) PROVE RWInv'
  <2>1. disturbed' \in BOOLEAN /\ (~disturbed' => ~disturbed /\ \A q \in Objects \ {o} : rwPc[q] = "idle")
    BY <1>3, Zenon DEF Lock
  <2>2. writeKey' = o /\ (rwPc' = [rwPc EXCEPT ![o] = "writing"] \/ UNCHANGED rwPc) /\ rwPc[o] = "idle"
    BY <1>3 DEF Lock
  <2> QED BY <2>1, <2>2
<1>4. CASE RWExpire
  <2>1. UNCHANGED rwPc
    BY <1>4 DEF RWExpire
  <2>2. CASE disturbed' = (disturbed \/ \E o \in Objects : rwPc[o] = "writing")
    <3>1. disturbed' \in BOOLEAN /\ (~disturbed' => \A o \in Objects : rwPc[o] # "writing")
      BY <2>2, Zenon
    <3> QED BY <2>1, <3>1
  <2>3. CASE UNCHANGED <<writeKey, disturbed>>
    BY <2>1, <2>3
  <2> QED BY <1>4, <2>2, <2>3 DEF RWExpire
<1>5. CASE UNCHANGED rwVars
  BY <1>5 DEF rwVars
<1> QED BY <1>1, <1>2, <1>3, <1>4, <1>5 DEF RWNext

-----------------------------------------------------------------------------
(* The lock manager. *)

Made == 1..made

\* A Lock between Acquire and the manager's map is in one pair of hands, and it
\* still holds the key or its lease ran out.
ManagerInv ==
  /\ HeldIsManaged
  /\ made \in Nat /\ holder \in {NoLock} \cup Made /\ locks \in {NoLock} \cup Made
  /\ mgr \in [Callers -> [at : {"idle", "acquired", "fn", "releasing"}, lock : {NoLock} \cup Made]]
  /\ \A c \in Callers :
       /\ mgr[c].at = "idle" => mgr[c].lock = NoLock
       /\ mgr[c].at = "acquired" =>
            /\ mgr[c].lock # NoLock /\ mgr[c].lock # locks
            /\ holder = mgr[c].lock \/ mgr[c].lock \in lapsed
            /\ \A d \in Callers \ {c} : mgr[d].lock # mgr[c].lock

\* A Lock goes from Acquire through the map to Release, or its lease ends.
LEMMA ManagerStep == ASSUME ManagerInv, [ManagerNext]_managerVars PROVE ManagerInv'
<1> USE ManagerAssumption DEF ManagerInv, HeldIsManaged, Made
<1>1. ASSUME NEW c \in Callers, ManagerAcquire(c) PROVE ManagerInv'
  <2>1. made' = made + 1 /\ Made \subseteq Made' /\ made + 1 \in Made' /\ made + 1 \notin Made
    BY <1>1 DEF ManagerAcquire
  <2>2. made + 1 # NoLock /\ UNCHANGED <<locks, lapsed, displaced>>
    BY <1>1 DEF ManagerAcquire
  <2>3. CASE UNCHANGED <<holder, mgr>>
    BY <2>1, <2>2, <2>3
  <2>4. ASSUME holder = NoLock, holder' = made + 1, NEW at \in {"acquired", "fn"},
               MgrSet(c, at, made + 1)
        PROVE  ManagerInv'
    <3>1. mgr' \in [Callers -> [at : {"idle", "acquired", "fn", "releasing"}, lock : {NoLock} \cup Made']]
      BY <2>1, <2>4 DEF MgrSet
    <3>2. mgr'[c] = [at |-> at, lock |-> made + 1] /\ \A d \in Callers \ {c} : mgr'[d] = mgr[d]
      BY <2>4 DEF MgrSet
    <3> QED BY <2>1, <2>2, <2>4, <3>1, <3>2
  <2> QED BY <1>1, <2>3, <2>4 DEF ManagerAcquire
<1>2. ASSUME NEW c \in Callers, NEW at \in {"idle", "releasing"}, NEW l \in {NoLock} \cup Made, MgrSet(c, at, l)
      PROVE  /\ mgr' \in [Callers -> [at : {"idle", "acquired", "fn", "releasing"}, lock : {NoLock} \cup Made]]
             /\ mgr'[c] = [at |-> at, lock |-> l] /\ \A d \in Callers \ {c} : mgr'[d] = mgr[d]
  BY <1>2 DEF MgrSet
<1>3. ASSUME NEW c \in Callers, ManagerStores(c) PROVE ManagerInv'
  <2>1. /\ mgr[c].at = "acquired" /\ locks' = mgr[c].lock /\ MgrSet(c, "idle", NoLock)
        /\ displaced' = IF locks = NoLock THEN displaced ELSE displaced \cup {<<locks, mgr[c].lock>>}
        /\ UNCHANGED <<holder, made, lapsed>>
    BY <1>3 DEF ManagerStores
  <2>2. /\ mgr' \in [Callers -> [at : {"idle", "acquired", "fn", "releasing"}, lock : {NoLock} \cup Made]]
        /\ mgr'[c] = [at |-> "idle", lock |-> NoLock] /\ \A d \in Callers \ {c} : mgr'[d] = mgr[d]
    BY <2>1, <1>2
  <2>3. mgr[c].lock \in {NoLock} \cup Made
    OBVIOUS
  <2>4. HeldIsManaged'
    <3> SUFFICES ASSUME holder # NoLock, locks' # holder, \A d \in Callers : mgr'[d].lock # holder
                 PROVE  \E l \in lapsed : <<holder, l>> \in displaced'
      BY <2>1
    <3>1. CASE locks = holder
      BY <2>1, <3>1
    <3>2. CASE locks # holder
      <4>1. \A d \in Callers : mgr[d].lock # holder
        BY <2>1, <2>2
      <4>2. displaced \subseteq displaced'
        BY <2>1
      <4> QED BY <3>2, <4>1, <4>2
    <3> QED BY <3>1, <3>2
  <2>5. \A d \in Callers \ {c} : mgr[d].at = "acquired" => mgr[d].lock # mgr[c].lock
    OBVIOUS
  <2> HIDE DEF HeldIsManaged
  <2> QED BY <2>1, <2>2, <2>3, <2>4, <2>5
<1>4. ASSUME NEW c \in Callers, ManagerRelease(c) PROVE ManagerInv'
  <2>1. /\ mgr[c].at = "idle" /\ locks # NoLock /\ locks' = NoLock /\ MgrSet(c, "releasing", locks)
        /\ UNCHANGED <<holder, made, lapsed, displaced>>
    BY <1>4 DEF ManagerRelease
  <2>2. /\ mgr' \in [Callers -> [at : {"idle", "acquired", "fn", "releasing"}, lock : {NoLock} \cup Made]]
        /\ mgr'[c] = [at |-> "releasing", lock |-> locks] /\ \A d \in Callers \ {c} : mgr'[d] = mgr[d]
    BY <2>1, <1>2
  <2>3. HeldIsManaged'
    BY <2>1, <2>2
  <2> HIDE DEF HeldIsManaged
  <2> QED BY <2>1, <2>2, <2>3
<1>5. ASSUME NEW c \in Callers, releaseLockOnExit(c) PROVE ManagerInv'
  <2>1. /\ mgr[c].at = "fn" /\ MgrSet(c, "releasing", mgr[c].lock)
        /\ UNCHANGED <<holder, locks, made, lapsed, displaced>>
    BY <1>5 DEF releaseLockOnExit
  <2>2. /\ mgr' \in [Callers -> [at : {"idle", "acquired", "fn", "releasing"}, lock : {NoLock} \cup Made]]
        /\ mgr'[c] = [at |-> "releasing", lock |-> mgr[c].lock] /\ \A d \in Callers \ {c} : mgr'[d] = mgr[d]
    BY <2>1, <1>2
  <2>3. \A d \in Callers : mgr'[d].lock = mgr[d].lock
    BY <2>2
  <2>4. HeldIsManaged'
    BY <2>1, <2>3
  <2> HIDE DEF HeldIsManaged
  <2> QED BY <2>1, <2>2, <2>3, <2>4
<1>6. ASSUME NEW c \in Callers, LockRelease(c) PROVE ManagerInv'
  <2>1. /\ mgr[c].at = "releasing" /\ MgrSet(c, "idle", NoLock)
        /\ holder' = IF holder = mgr[c].lock THEN NoLock ELSE holder
        /\ UNCHANGED <<locks, made, lapsed, displaced>>
    BY <1>6 DEF LockRelease
  <2>2. /\ mgr' \in [Callers -> [at : {"idle", "acquired", "fn", "releasing"}, lock : {NoLock} \cup Made]]
        /\ mgr'[c] = [at |-> "idle", lock |-> NoLock] /\ \A d \in Callers \ {c} : mgr'[d] = mgr[d]
    BY <2>1, <1>2
  <2>3. HeldIsManaged'
    BY <2>1, <2>2
  <2>4. \A d \in Callers \ {c} : mgr[d].at = "acquired" => mgr[d].lock # mgr[c].lock
    OBVIOUS
  <2> HIDE DEF HeldIsManaged
  <2> QED BY <2>1, <2>2, <2>3, <2>4
<1>7. CASE LeaseEnds
  BY <1>7 DEF LeaseEnds
<1>8. CASE UNCHANGED managerVars
  BY <1>8 DEF managerVars
<1> QED BY <1>1, <1>3, <1>4, <1>5, <1>6, <1>7, <1>8 DEF ManagerNext

-----------------------------------------------------------------------------
(* Pub/sub. *)

Sub == [open : BOOLEAN, fwd : {"none", "run", "sending", "done"}, buf : Int]

\* Whoever is between two calls of Subscribe or Unsubscribe has a subscription
\* in hand, and every one that is open is in the registry or in hand.
PubSubInv ==
  /\ OpenIsOwned
  /\ subs \in Seq(Sub)
  /\ registry \in {NoSub} \cup SubIds /\ got \in [Users -> {NoSub} \cup SubIds]
  /\ user \in [Users -> [at : {"idle", "store", "close"}, sub : {NoSub} \cup SubIds]]
  /\ \A u \in Users : user[u].at = "idle" <=> user[u].sub = NoSub

\* Subscriptions are numbered from 1.
LEMMA SubIdsAre ==
  ASSUME PubSubInv
  PROVE  /\ SubIds = 1..Len(subs) /\ Len(subs) \in Nat /\ Cardinality(SubIds) = Len(subs)
         /\ NoSub \notin SubIds
<1>1. SubIds = 1..Len(subs) /\ Len(subs) \in Nat
  BY DEF PubSubInv, SubIds
<1>2. \A a, b \in Int : Cardinality(a..b) = IF a > b THEN 0 ELSE b - a + 1
  BY FS_Interval
<1>3. PICK n \in Nat : n = Len(subs)
  BY <1>1
<1>4. Cardinality(1..n) = IF 1 > n THEN 0 ELSE n - 1 + 1
  <2>1. 1 \in Int /\ n \in Int
    OBVIOUS
  <2> QED BY <1>2, <2>1, Zenon
<1>5. Cardinality(1..n) = n
  BY <1>4
<1> QED BY <1>1, <1>3, <1>5, PubSubAssumption

\* A subscription changes, and an open one was open before.
LEMMA SubChanges ==
  ASSUME PubSubInv, NEW s \in SubIds, NEW x \in Sub, subs' = [subs EXCEPT ![s] = x]
  PROVE  /\ subs' \in Seq(Sub) /\ SubIds' = SubIds /\ subs'[s] = x
         /\ \A r \in SubIds \ {s} : subs'[r] = subs[r]
<1>1. SubIds = 1..Len(subs)
  BY SubIdsAre
<1> QED BY <1>1 DEF PubSubInv, SubIds

\* A subscription is made, stored or closed, shared, taken out and closed.
LEMMA PubSubStep == ASSUME PubSubInv, [PubSubNext]_pubsubVars PROVE PubSubInv'
<1> USE PubSubAssumption
<1>0. SubIds = 1..Len(subs) /\ Len(subs) \in Nat /\ Cardinality(SubIds) = Len(subs) /\ NoSub \notin SubIds
  BY SubIdsAre
<1>a. \A s \in SubIds : subs[s] \in Sub
  BY <1>0 DEF PubSubInv
<1>1. ASSUME NEW s \in SubIds, NEW x \in Sub, subs' = [subs EXCEPT ![s] = x], x.open => subs[s].open,
             UNCHANGED <<registry, user>>, got' \in [Users -> {NoSub} \cup SubIds]
      PROVE  PubSubInv'
  <2>1. /\ subs' \in Seq(Sub) /\ SubIds' = SubIds /\ subs'[s] = x
        /\ \A r \in SubIds \ {s} : subs'[r] = subs[r]
    BY <1>1, SubChanges
  <2> QED BY <1>1, <2>1 DEF PubSubInv, OpenIsOwned
<1>2. ASSUME NEW s \in SubIds, Forward(s) \/ SentOn(s) PROVE PubSubInv'
  <2>1. /\ UNCHANGED <<registry, user, got>>
        /\ \E x \in Sub : subs' = [subs EXCEPT ![s] = x] /\ x.open = subs[s].open
    <3>1. CASE Forward(s)
      <4>1. PICK x : x \in {[subs[s] EXCEPT !.buf = @ + 1], [subs[s] EXCEPT !.fwd = "sending"],
                            [subs[s] EXCEPT !.fwd = "done"]} /\ subs' = [subs EXCEPT ![s] = x]
        BY <3>1 DEF Forward
      <4>2. x \in Sub /\ x.open = subs[s].open
        BY <1>a, <4>1 DEF Sub
      <4> QED BY <3>1, <4>1, <4>2 DEF Forward
    <3>2. CASE SentOn(s)
      <4>1. PICK x : x = [subs[s] EXCEPT !.buf = @ + 1, !.fwd = "run"]
        OBVIOUS
      <4>0. subs[s] \in Sub
        BY <1>a
      <4>5. PICK y : y = [subs[s] EXCEPT !.buf = @ + 1]
        OBVIOUS
      <4>6. y \in Sub /\ y.open = subs[s].open
        BY <4>0, <4>5 DEF Sub
      <4>7. x = [y EXCEPT !.fwd = "run"]
        BY <4>0, <4>1, <4>5
      <4>2. x.open = subs[s].open
        BY <4>6, <4>7 DEF Sub
      <4>4. x \in Sub
        BY <4>6, <4>7 DEF Sub
      <4>3. subs' = [subs EXCEPT ![s] = x]
        BY <1>0, <1>a, <3>2, <4>1 DEF SentOn, PubSubInv, Sub
      <4> QED BY <3>2, <4>2, <4>3, <4>4 DEF SentOn
    <3> QED BY <1>2, <3>1, <3>2
  <2> QED BY <1>1, <2>1 DEF PubSubInv
<1>3. ASSUME NEW u \in Users, Receive(u) PROVE PubSubInv'
  <2>1. got[u] \in SubIds /\ UNCHANGED <<registry, user, got>>
    BY <1>3 DEF Receive, PubSubInv
  <2>2. subs' = [subs EXCEPT ![got[u]] = [subs[got[u]] EXCEPT !.buf = @ - 1]]
    BY <1>3 DEF Receive
  <2>3. [subs[got[u]] EXCEPT !.buf = @ - 1] \in Sub
    BY <1>a, <2>1 DEF Sub
  <2> QED BY <1>1, <1>a, <2>1, <2>2, <2>3 DEF PubSubInv, Sub
\* redisSubscription.Channel of a subscription.
<1>4. ASSUME NEW s \in SubIds
      PROVE  \E x \in Sub : Started(s) = [subs EXCEPT ![s] = x] /\ x.open = subs[s].open
  <2>1. PICK x : x = [subs[s] EXCEPT !.fwd = IF @ = "none" THEN "run" ELSE @]
    OBVIOUS
  <2>2. x \in Sub /\ x.open = subs[s].open
    BY <1>a, <2>1 DEF Sub
  <2>3. Started(s) = [subs EXCEPT ![s] = x]
    BY <2>1 DEF Started
  <2> QED BY <2>2, <2>3
<1>5. ASSUME NEW u \in Users, SubscribeShared(u) PROVE PubSubInv'
  <2>1. registry \in SubIds /\ subs' = Started(registry) /\ UNCHANGED <<registry, user>>
        /\ got' = [got EXCEPT ![u] = registry]
    BY <1>5 DEF SubscribeShared, PubSubInv
  <2>2. PICK x \in Sub : subs' = [subs EXCEPT ![registry] = x] /\ x.open = subs[registry].open
    BY <1>4, <2>1
  <2>3. got' \in [Users -> {NoSub} \cup SubIds]
    BY <2>1 DEF PubSubInv
  <2> QED BY <1>1, <2>1, <2>2, <2>3
\* What putting a subscription into a user's hands, or taking it out, does.
<1>6. ASSUME NEW u \in Users, NEW at \in {"idle", "store", "close"}, NEW s, UserAt(u, at, s),
             NEW S, \A r \in SubIds : r \in S, s \in {NoSub} \cup S
      PROVE  /\ user' \in [Users -> [at : {"idle", "store", "close"}, sub : {NoSub} \cup S]]
             /\ user'[u] = [at |-> at, sub |-> s] /\ \A v \in Users \ {u} : user'[v] = user[v]
  BY <1>6 DEF UserAt, PubSubInv
<1>7. ASSUME NEW u \in Users, ClientSubscribe(u) PROVE PubSubInv'
  <2> DEFINE new == [open |-> TRUE, fwd |-> "none", buf |-> 0]
  <2>1. PICK n \in Nat : n = Len(subs)
    BY <1>0
  <2>2. /\ user[u].at = "idle" /\ UNCHANGED <<registry, got>> /\ UserAt(u, "store", n + 1)
        /\ subs' = [s \in 1..(n + 1) |-> IF s \in 1..n THEN subs[s] ELSE new]
    BY <1>0, <1>7, <2>1 DEF ClientSubscribe
  <2>3. new \in Sub /\ SubIds = 1..n
    BY <1>0, <2>1 DEF Sub
  <2>4. /\ SubIds' = 1..(n + 1) /\ SubIds \subseteq SubIds' /\ n + 1 \in SubIds'
        /\ \A s \in 1..n : subs'[s] = subs[s]
    BY <2>2, <2>3 DEF SubIds
  <2>5. subs' \in Seq(Sub)
    <3>1. \A s \in 1..(n + 1) : subs'[s] \in Sub
      BY <1>a, <2>2, <2>3
    <3> QED BY <2>2, <3>1
  <2>6. /\ user' \in [Users -> [at : {"idle", "store", "close"}, sub : {NoSub} \cup SubIds']]
        /\ user'[u] = [at |-> "store", sub |-> n + 1] /\ \A v \in Users \ {u} : user'[v] = user[v]
    <3>1. PICK S : S = SubIds'
      OBVIOUS
    <3>2. /\ user' \in [Users -> [at : {"idle", "store", "close"}, sub : {NoSub} \cup S]]
          /\ user'[u] = [at |-> "store", sub |-> n + 1] /\ \A v \in Users \ {u} : user'[v] = user[v]
      BY <2>2, <2>4, <3>1 DEF UserAt, PubSubInv
    <3> QED BY <3>1, <3>2
  <2>7. OpenIsOwned'
    <3> SUFFICES ASSUME NEW s \in SubIds', subs'[s].open
                 PROVE  registry' = s \/ \E v \in Users : user'[v].sub = s
      BY DEF OpenIsOwned
    <3>1. CASE s = n + 1
      BY <2>6, <3>1
    <3>2. CASE s \in 1..n
      <4>1. registry = s \/ \E v \in Users : user[v].sub = s
        BY <2>3, <2>4, <3>2 DEF PubSubInv, OpenIsOwned
      <4>2. user[u].sub # s
        BY <1>0, <2>2, <2>3, <3>2 DEF PubSubInv
      <4> QED BY <2>2, <2>6, <4>1, <4>2
    <3> QED BY <2>4, <3>1, <3>2
  <2>8. registry' \in {NoSub} \cup SubIds' /\ got' \in [Users -> {NoSub} \cup SubIds']
    BY <2>2, <2>4 DEF PubSubInv
  <2>9. \A v \in Users : user'[v].at = "idle" <=> user'[v].sub = NoSub
    BY <2>6 DEF PubSubInv
  <2> QED BY <2>5, <2>6, <2>7, <2>8, <2>9 DEF PubSubInv
<1>8. ASSUME NEW u \in Users, GetOrStoreSub(u) PROVE PubSubInv'
  <2>0. user[u].sub \in SubIds /\ UserAt(u, "idle", NoSub)
    BY <1>8 DEF GetOrStoreSub, PubSubInv
  <2>1. PICK s0 \in SubIds : s0 = user[u].sub
    BY <2>0
  <2>2. /\ user' \in [Users -> [at : {"idle", "store", "close"}, sub : {NoSub} \cup SubIds]]
        /\ user'[u] = [at |-> "idle", sub |-> NoSub] /\ \A v \in Users \ {u} : user'[v] = user[v]
    BY <1>6, <2>0
  <2>3. \A v \in Users : user'[v].at = "idle" <=> user'[v].sub = NoSub
    BY <2>2 DEF PubSubInv
  <2>4. CASE registry = NoSub
    <3>1. registry' = s0 /\ subs' = Started(s0) /\ got' = [got EXCEPT ![u] = s0]
      BY <1>8, <2>1, <2>4 DEF GetOrStoreSub
    <3>2. PICK x \in Sub : subs' = [subs EXCEPT ![s0] = x] /\ x.open = subs[s0].open
      BY <1>4, <3>1
    <3>3. /\ subs' \in Seq(Sub) /\ SubIds' = SubIds
          /\ \A r \in SubIds \ {s0} : subs'[r] = subs[r]
      BY <3>2, SubChanges
    <3>4. OpenIsOwned'
      BY <1>0, <2>1, <2>2, <2>4, <3>1, <3>3 DEF PubSubInv, OpenIsOwned
    <3>5. got' \in [Users -> {NoSub} \cup SubIds]
      BY <3>1 DEF PubSubInv
    <3> QED BY <2>2, <2>3, <3>1, <3>3, <3>4, <3>5 DEF PubSubInv
  <2>5. CASE registry # NoSub
    <3>0. PICK r0 \in SubIds : r0 = registry
      BY <2>5 DEF PubSubInv
    <3>1. /\ registry' = r0 /\ got' = [got EXCEPT ![u] = r0]
          /\ subs' = [Started(r0) EXCEPT ![s0].open = FALSE]
      BY <1>8, <2>1, <2>5, <3>0 DEF GetOrStoreSub
    <3>2. PICK x \in Sub : Started(r0) = [subs EXCEPT ![r0] = x] /\ x.open = subs[r0].open
      BY <1>4
    <3>3. /\ subs' \in Seq(Sub) /\ SubIds' = SubIds /\ subs'[s0].open = FALSE
          /\ \A r \in SubIds \ {s0} : subs'[r].open = subs[r].open
      <4> DEFINE mid == [subs EXCEPT ![r0] = x]
      <4>1. /\ mid \in Seq(Sub) /\ DOMAIN mid = SubIds
            /\ \A r \in SubIds : mid[r].open = subs[r].open /\ mid[r] \in Sub
        BY <1>0, <1>a, <3>2 DEF PubSubInv, SubIds
      <4>2. subs' = [mid EXCEPT ![s0] = [mid[s0] EXCEPT !.open = FALSE]]
        BY <3>1, <3>2
      <4>3. [mid[s0] EXCEPT !.open = FALSE] \in Sub /\ [mid[s0] EXCEPT !.open = FALSE].open = FALSE
        BY <4>1 DEF Sub
      <4> HIDE DEF mid
      <4> QED BY <4>1, <4>2, <4>3 DEF SubIds
    <3>4. OpenIsOwned'
      <4> SUFFICES ASSUME NEW s \in SubIds, subs'[s].open
                   PROVE  registry' = s \/ \E v \in Users : user'[v].sub = s
        BY <3>3 DEF OpenIsOwned
      <4>1. s # s0
        BY <3>3
      <4>2. registry = s \/ \E v \in Users : user[v].sub = s
        BY <3>3, <4>1 DEF PubSubInv, OpenIsOwned
      <4> QED BY <2>1, <2>2, <3>0, <3>1, <4>1, <4>2
    <3>5. got' \in [Users -> {NoSub} \cup SubIds]
      BY <3>1 DEF PubSubInv
    <3> QED BY <2>2, <2>3, <3>0, <3>1, <3>3, <3>4, <3>5 DEF PubSubInv
  <2> QED BY <2>4, <2>5
<1>9. ASSUME NEW u \in Users, LoadAndDeleteSub(u) PROVE PubSubInv'
  <2>0. PICK r0 \in SubIds : r0 = registry
    BY <1>9 DEF LoadAndDeleteSub, PubSubInv
  <2>1. /\ user[u].at = "idle" /\ UserAt(u, "close", r0) /\ registry' = NoSub /\ UNCHANGED <<subs, got>>
    BY <1>9, <2>0 DEF LoadAndDeleteSub
  <2>2. /\ user' \in [Users -> [at : {"idle", "store", "close"}, sub : {NoSub} \cup SubIds]]
        /\ user'[u] = [at |-> "close", sub |-> r0] /\ \A v \in Users \ {u} : user'[v] = user[v]
    BY <1>6, <2>1
  <2>3. SubIds' = SubIds /\ user[u].sub = NoSub
    BY <2>1 DEF SubIds, PubSubInv
  <2>4. OpenIsOwned'
    <3> SUFFICES ASSUME NEW s \in SubIds, subs[s].open
                 PROVE  \E v \in Users : user'[v].sub = s
      BY <2>1, <2>3 DEF OpenIsOwned
    <3>1. r0 = s \/ \E v \in Users : user[v].sub = s
      BY <2>0 DEF PubSubInv, OpenIsOwned
    <3>2. user[u].sub # s
      BY <1>0, <2>3
    <3> QED BY <2>2, <3>1, <3>2
  <2> QED BY <1>0, <2>1, <2>2, <2>3, <2>4 DEF PubSubInv
<1>10. ASSUME NEW u \in Users, CloseSub(u) PROVE PubSubInv'
  <2>0. PICK s0 \in SubIds : s0 = user[u].sub
    BY <1>10 DEF CloseSub, PubSubInv
  <2>1. /\ UserAt(u, "idle", NoSub) /\ UNCHANGED <<registry, got>>
        /\ subs' = [subs EXCEPT ![s0] = [subs[s0] EXCEPT !.open = FALSE]]
    BY <1>10, <2>0 DEF CloseSub
  <2>2. /\ user' \in [Users -> [at : {"idle", "store", "close"}, sub : {NoSub} \cup SubIds]]
        /\ user'[u] = [at |-> "idle", sub |-> NoSub] /\ \A v \in Users \ {u} : user'[v] = user[v]
    BY <1>6, <2>1
  <2>3. [subs[s0] EXCEPT !.open = FALSE] \in Sub /\ [subs[s0] EXCEPT !.open = FALSE].open = FALSE
    BY <1>a DEF Sub
  <2>4. /\ subs' \in Seq(Sub) /\ SubIds' = SubIds /\ subs'[s0].open = FALSE
        /\ \A r \in SubIds \ {s0} : subs'[r] = subs[r]
    BY <2>1, <2>3, SubChanges
  <2>5. OpenIsOwned'
    BY <2>0, <2>1, <2>2, <2>4 DEF PubSubInv, OpenIsOwned
  <2>6. \A v \in Users : user'[v].at = "idle" <=> user'[v].sub = NoSub
    BY <2>2 DEF PubSubInv
  <2> QED BY <2>1, <2>2, <2>4, <2>5, <2>6 DEF PubSubInv
<1>11. CASE UNCHANGED pubsubVars
  BY <1>11 DEF pubsubVars, PubSubInv, OpenIsOwned, SubIds
<1> QED BY <1>2, <1>3, <1>5, <1>7, <1>8, <1>9, <1>10, <1>11 DEF PubSubNext

-----------------------------------------------------------------------------
(* Streams. *)

Worker == [at : {"run", "handle", "flush", "ack", "ended", "claim", "wait"}, todo : Seq(Nat), ok : Seq(Nat)]
Doing(p) == Range(worker[p].todo)
Done(p) == Range(worker[p].ok)
Distinct(s) == \A j, k \in 1..Len(s) : s[j] = s[k] => j = k

StreamTypes ==
  /\ added \in 0..MaxEntries /\ handled \in [Ids -> 0..2] /\ worker \in [Procs -> Worker]
  /\ group = [last |-> group.last, pel |-> group.pel, acked |-> group.acked, dropped |-> group.dropped]
  /\ group.last \in 0..added /\ Pending \cup group.acked \subseteq 1..group.last

\* What a process is about to acknowledge has been handled. What the Consumer and
\* the BatchConsumer have in hand was delivered to one of them, once, and not
\* handled since, unless it was claimed; what the Claimer has in hand was claimed.
WorkInv ==
  /\ \A p \in Procs :
       /\ Doing(p) \subseteq 1..group.last /\ Done(p) \subseteq 1..group.last
       /\ \A i \in Done(p) : handled[i] > 0
       /\ worker[p].at = "handle" => worker[p].todo # <<>>
  /\ \A i \in Ids : i > group.last => handled[i] = 0
  /\ Doing("claimer") \subseteq again
  /\ Distinct(worker["consumer"].todo) /\ Doing("consumer") \cap Doing("batch") = {}
  /\ \A i \in Doing("consumer") : handled[i] = 0 \/ i \in again
  /\ worker["batch"].at # "ack" => \A i \in Doing("batch") : handled[i] = 0 \/ i \in again

StreamInv == StreamTypes /\ NothingLost /\ AgainOnlyIfClaimedOrUnacked /\ WorkInv

\* Sequences of ids and the sets of their elements.
LEMMA RangeFacts ==
  ASSUME NEW s \in Seq(Nat)
  PROVE  /\ Range(s) = { s[k] : k \in 1..Len(s) } /\ Range(s) \subseteq Nat
         /\ \A x \in Nat : Append(s, x) \in Seq(Nat) /\ Range(Append(s, x)) = Range(s) \cup {x}
         /\ s # <<>> => /\ Tail(s) \in Seq(Nat) /\ Head(s) \in Range(s)
                        /\ Range(Tail(s)) \subseteq Range(s)
<1>1. Range(s) = { s[k] : k \in 1..Len(s) } /\ Range(s) \subseteq Nat
  BY DEF Range
<1>2. ASSUME NEW x \in Nat PROVE Append(s, x) \in Seq(Nat) /\ Range(Append(s, x)) = Range(s) \cup {x}
  <2>1. Append(s, x) \in Seq(Nat) /\ Len(Append(s, x)) = Len(s) + 1 /\ Len(s) \in Nat
    OBVIOUS
  <2>2. Append(s, x)[Len(s) + 1] = x /\ \A k \in 1..Len(s) : Append(s, x)[k] = s[k]
    OBVIOUS
  <2>3. DOMAIN Append(s, x) = 1..(Len(s) + 1)
    BY <2>1
  <2> QED BY SMTT(40), <1>1, <2>1, <2>2, <2>3 DEF Range
<1>3. ASSUME s # <<>>
      PROVE  Tail(s) \in Seq(Nat) /\ Head(s) \in Range(s) /\ Range(Tail(s)) \subseteq Range(s)
  <2>1. Tail(s) \in Seq(Nat) /\ Len(Tail(s)) = Len(s) - 1 /\ Len(s) \in Nat /\ Len(s) >= 1 /\ Head(s) = s[1]
    BY <1>3
  <2>2. \A k \in 1..Len(Tail(s)) : Tail(s)[k] = s[k + 1] /\ k + 1 \in 1..Len(s)
    BY <1>3, <2>1
  <2> QED BY <1>1, <2>1, <2>2 DEF Range
<1> QED BY <1>1, <1>2, <1>3

\* Taking the first of distinct ids leaves the others.
LEMMA DistinctTail ==
  ASSUME NEW s \in Seq(Nat), s # <<>>, Distinct(s)
  PROVE  Distinct(Tail(s)) /\ Head(s) \notin Range(Tail(s))
<1>1. Tail(s) \in Seq(Nat) /\ Len(Tail(s)) = Len(s) - 1 /\ Len(s) \in Nat /\ Len(s) >= 1 /\ Head(s) = s[1]
  OBVIOUS
<1>2. \A k \in 1..Len(Tail(s)) : Tail(s)[k] = s[k + 1] /\ k + 1 \in 1..Len(s) /\ k + 1 # 1
  BY <1>1
<1>3. 1 \in 1..Len(s)
  BY <1>1
<1>4. Distinct(Tail(s))
  <2> SUFFICES ASSUME NEW j \in 1..Len(Tail(s)), NEW k \in 1..Len(Tail(s)), Tail(s)[j] = Tail(s)[k] PROVE j = k
    BY DEF Distinct
  <2>1. j + 1 = k + 1
    BY <1>2 DEF Distinct
  <2> QED BY <1>1, <2>1
<1>5. Head(s) \notin Range(Tail(s))
  BY <1>1, <1>2, <1>3 DEF Distinct, Range
<1> QED BY <1>4, <1>5

\* The elements of two sequences in a row.
LEMMA RangeJoins ==
  ASSUME NEW s \in Seq(Nat), NEW t \in Seq(Nat)
  PROVE  s \o t \in Seq(Nat) /\ Range(s \o t) = Range(s) \cup Range(t)
<1>0. \A u \in Seq(Nat) : Range(u) = { u[k] : k \in 1..Len(u) }
  BY RangeFacts
<1>1. s \o t \in Seq(Nat) /\ Len(s \o t) = Len(s) + Len(t) /\ Len(s) \in Nat /\ Len(t) \in Nat
  OBVIOUS
<1>2. \A k \in 1..(Len(s) + Len(t)) : (s \o t)[k] = IF k <= Len(s) THEN s[k] ELSE t[k - Len(s)]
  OBVIOUS
<1>3. Range(s \o t) \subseteq Range(s) \cup Range(t)
  <2> SUFFICES ASSUME NEW k \in 1..(Len(s) + Len(t)) PROVE (s \o t)[k] \in Range(s) \cup Range(t)
    BY <1>1 DEF Range
  <2>1. CASE k <= Len(s)
    BY <1>1, <1>2, <2>1 DEF Range
  <2>2. CASE k > Len(s)
    <3>1. k - Len(s) \in 1..Len(t) /\ (s \o t)[k] = t[k - Len(s)]
      BY <1>1, <1>2, <2>2
    <3> QED BY <3>1 DEF Range
  <2> QED BY <1>1, <2>1, <2>2
<1>4. ASSUME NEW k \in 1..Len(s) PROVE s[k] \in Range(s \o t)
  <2>1. k \in 1..(Len(s) + Len(t)) /\ (s \o t)[k] = s[k]
    BY <1>1, <1>2
  <2>2. (s \o t)[k] \in Range(s \o t)
    BY <1>0, <1>1, <2>1
  <2> QED BY <2>1, <2>2
<1>5. ASSUME NEW k \in 1..Len(t) PROVE t[k] \in Range(s \o t)
  <2>1. PICK j \in 1..(Len(s) + Len(t)) : j = Len(s) + k
    BY <1>1
  <2>2. (s \o t)[j] = t[k]
    BY <1>1, <1>2, <2>1
  <2>3. (s \o t)[j] \in Range(s \o t)
    BY <1>0, <1>1
  <2> QED BY <2>2, <2>3
<1>6. Range(s) \subseteq Range(s \o t) /\ Range(t) \subseteq Range(s \o t)
  <2>1. Range(s) = { s[k] : k \in 1..Len(s) } /\ Range(t) = { t[k] : k \in 1..Len(t) }
    BY <1>0
  <2> QED BY <1>4, <1>5, <2>1
<1> QED BY <1>1, <1>3, <1>6

\* The ids between two places of the stream.
LEMMA BetweenFacts ==
  ASSUME NEW a \in Nat, NEW b \in Nat, a <= b
  PROVE  /\ Between(a, b) \in Seq(Nat) /\ Len(Between(a, b)) = b - a
         /\ Range(Between(a, b)) = (a + 1)..b /\ Distinct(Between(a, b))
<1>1. b - a \in Nat /\ Between(a, b) = [i \in 1..(b - a) |-> a + i]
  BY DEF Between
<1>2. Between(a, b) \in Seq(Nat) /\ Len(Between(a, b)) = b - a /\ \A i \in 1..(b - a) : Between(a, b)[i] = a + i
  BY <1>1
<1>3. Distinct(Between(a, b))
  BY <1>1, <1>2 DEF Distinct
<1>4. ASSUME NEW x \in (a + 1)..b PROVE x \in Range(Between(a, b))
  <2>1. PICK i \in 1..(b - a) : i = x - a
    OBVIOUS
  <2>2. Between(a, b)[i] = x /\ DOMAIN Between(a, b) = 1..(b - a)
    BY <1>1, <1>2, <2>1
  <2> QED BY <2>2 DEF Range
<1>5. Range(Between(a, b)) \subseteq (a + 1)..b
  BY <1>1, <1>2 DEF Range
<1> QED BY <1>2, <1>3, <1>4, <1>5

\* One process goes to another place; what it works on decides the sets.
LEMMA WorkerSet ==
  ASSUME StreamTypes, NEW p \in Procs, NEW w \in Worker, Set(p, w)
  PROVE  /\ worker' \in [Procs -> Worker] /\ worker'[p] = w
         /\ Doing(p)' = Range(w.todo) /\ Done(p)' = Range(w.ok)
         /\ \A q \in Procs \ {p} : worker'[q] = worker[q] /\ Doing(q)' = Doing(q) /\ Done(q)' = Done(q)
<1>1. worker' \in [Procs -> Worker] /\ worker'[p] = w /\ \A q \in Procs \ {p} : worker'[q] = worker[q]
  BY DEF StreamTypes, Set
<1> QED BY <1>1 DEF Doing, Done

\* A process that starts or ended has nothing in hand.
LEMMA FreshFacts ==
  ASSUME NEW p \in Procs
  PROVE  /\ Fresh(p) \in Worker /\ Range(Fresh(p).todo) = {} /\ Range(Fresh(p).ok) = {}
         /\ Fresh(p).at \in {"run", "claim"} /\ Fresh(p).todo = <<>> /\ Fresh(p).ok = <<>>
         /\ Ended(p) \in Worker /\ Range(Ended(p).todo) = {} /\ Range(Ended(p).ok) = {}
         /\ Ended(p).at = "ended" /\ Ended(p).todo = <<>> /\ Ended(p).ok = <<>>
<1>1. <<>> \in Seq(Nat) /\ Range(<<>>) = {}
  BY DEF Range
<1>2. Start(p) \in {"run", "claim"}
  BY DEF Start
<1>3. Fresh(p) = [at |-> Start(p), todo |-> <<>>, ok |-> <<>>]
  BY DEF Fresh
<1>4. Ended(p) = [at |-> "ended", todo |-> <<>>, ok |-> <<>>]
  BY <1>3 DEF Ended
<1> QED BY <1>1, <1>2, <1>3, <1>4 DEF Worker

\* Whatever sends a process back with empty hands keeps the invariant, as long as
\* the entries stay where they are or are acknowledged after they were handled.
LEMMA EmptyHanded ==
  ASSUME StreamInv, NEW p \in Procs, NEW w \in Worker, Set(p, w), w.todo = <<>>, w.ok = <<>>, w.at # "handle",
         UNCHANGED <<added, handled>>, again \subseteq again',
         group' = [last |-> group'.last, pel |-> group'.pel, acked |-> group'.acked, dropped |-> group'.dropped],
         group'.last = group.last, Pending' \subseteq Pending, group.acked \subseteq group'.acked,
         group.dropped \subseteq group'.dropped,
         Pending \subseteq Pending' \cup group'.acked \cup group'.dropped,
         \A i \in group'.acked : i \in group.acked \/ (i \in Pending /\ handled[i] > 0)
  PROVE  StreamInv'
<1>1. /\ worker' \in [Procs -> Worker] /\ worker'[p] = w
      /\ Doing(p)' = Range(w.todo) /\ Done(p)' = Range(w.ok)
      /\ \A q \in Procs \ {p} : worker'[q] = worker[q] /\ Doing(q)' = Doing(q) /\ Done(q)' = Done(q)
  BY WorkerSet DEF StreamInv
<1>2. Range(<<>>) = {} /\ Distinct(<<>>) /\ 1..group'.last = 1..group.last
  BY DEF Range, Distinct
<1>3. Doing(p)' = {} /\ Done(p)' = {}
  BY <1>1, <1>2
<1>4. StreamTypes'
  BY <1>1, <1>2 DEF StreamInv, StreamTypes, Ids
<1>5. NothingLost' /\ AgainOnlyIfClaimedOrUnacked'
  BY <1>2 DEF StreamInv, StreamTypes, NothingLost, AgainOnlyIfClaimedOrUnacked, Ids
<1>6. WorkInv'
  <2>1. \A q \in Procs : /\ Doing(q)' \subseteq Doing(q) /\ Done(q)' \subseteq Done(q)
                         /\ worker'[q].at = "handle" => worker'[q].todo # <<>>
    BY <1>1, <1>3 DEF StreamInv, WorkInv
  <2>2. "consumer" \in Procs /\ "batch" \in Procs /\ "claimer" \in Procs
    BY DEF Procs
  <2>3. Distinct(worker["consumer"].todo)'
    BY <1>1, <1>2, <1>3, <2>2 DEF StreamInv, WorkInv
  <2>4. worker'["batch"].at # "ack" => worker["batch"].at # "ack" \/ Doing("batch")' = {}
    BY <1>1, <1>3, <2>2
  <2> QED BY <1>2, <2>1, <2>2, <2>3, <2>4 DEF StreamInv, WorkInv, Ids
<1> QED BY <1>4, <1>5, <1>6 DEF StreamInv

\* XREADGROUP hands out the entries after the last one delivered.
LEMMA ReadGroupFacts ==
  ASSUME StreamTypes, NEW p \in Procs, NEW n \in Nat, XReadGroup(p, n)
  PROVE  \E m \in group.last..added :
           /\ group' = [last |-> m, pel |-> group'.pel, acked |-> group.acked, dropped |-> group.dropped]
           /\ Pending' = Pending \cup (group.last + 1)..m
           /\ Delivered(p, n) \in Seq(Nat) /\ Range(Delivered(p, n)) = (group.last + 1)..m
           /\ Distinct(Delivered(p, n)) /\ (added > group.last /\ n > 0 => Delivered(p, n) # <<>>)
<1>1. PICK m : m = SmallerOf(added, group.last + n)
  OBVIOUS
<1>2. m \in group.last..added /\ m \in Nat /\ group.last \in Nat /\ group.last <= m
  BY <1>1 DEF StreamTypes, SmallerOf
<1>3. Delivered(p, n) = Between(group.last, m)
  BY <1>1 DEF Delivered
<1>4. /\ Delivered(p, n) \in Seq(Nat) /\ Len(Delivered(p, n)) = m - group.last
      /\ Range(Delivered(p, n)) = (group.last + 1)..m /\ Distinct(Delivered(p, n))
  BY <1>2, <1>3, BetweenFacts
<1>5. PICK f : f = Owned(p, (group.last + 1)..m)
  OBVIOUS
<1>6. DOMAIN f = Pending \cup (group.last + 1)..m
  BY <1>5 DEF Owned
<1>7. group' = [group EXCEPT !.last = m, !.pel = f]
  <2>1. group.last + Len(Delivered(p, n)) = m
    BY <1>2, <1>4
  <2> QED BY <1>4, <1>5, <2>1 DEF XReadGroup
<1>8. group' = [last |-> m, pel |-> f, acked |-> group.acked, dropped |-> group.dropped]
  BY <1>2, <1>7 DEF StreamTypes
<1>9. added > group.last /\ n > 0 => Delivered(p, n) # <<>>
  BY <1>1, <1>4 DEF SmallerOf, StreamTypes
<1> QED BY <1>2, <1>4, <1>6, <1>8, <1>9 DEF Pending

\* Going on to the next entry, to the Ack, or back keeps what is in hand.
LEMMA AfterHandlingFacts ==
  ASSUME NEW p \in Procs, NEW x \in Worker, x.at = "handle"
  PROVE  /\ AfterHandling(p, x) \in Worker
         /\ AfterHandling(p, x).todo = x.todo /\ AfterHandling(p, x).ok = x.ok
         /\ AfterHandling(p, x).at = "handle" => AfterHandling(p, x).todo # <<>>
<1>1. CASE x.todo # <<>>
  BY <1>1 DEF AfterHandling
<1>2. CASE x.todo = <<>> /\ x.ok # <<>>
  <2>1. PICK y : y = [x EXCEPT !.at = "ack"]
    OBVIOUS
  <2>2. AfterHandling(p, x) = y
    BY <1>2, <2>1 DEF AfterHandling
  <2>3. y \in Worker /\ y.todo = x.todo /\ y.ok = x.ok /\ y.at = "ack"
    BY <2>1 DEF Worker
  <2> QED BY <2>2, <2>3
<1>3. CASE x.todo = <<>> /\ x.ok = <<>>
  <2>1. AfterHandling(p, x) = Fresh(p)
    BY <1>3 DEF AfterHandling
  <2> QED BY <1>3, <2>1, FreshFacts
<1> QED BY <1>1, <1>2, <1>3

\* Delivery, claims, handlers, acknowledgements, crashes and deleted consumers.
LEMMA StreamKeeps == ASSUME StreamInv, [StreamNext]_streamVars PROVE StreamInv'
<1> USE StreamAssumption
<1>0. "consumer" \in Procs /\ "batch" \in Procs /\ "claimer" \in Procs /\ Range(<<>>) = {}
  BY DEF Procs, Range
<1>1. CASE XAdd
  <2>1. UNCHANGED <<group, worker, handled, again>> /\ added' = added + 1 /\ added + 1 \in 0..MaxEntries
    BY <1>1 DEF XAdd, StreamInv, StreamTypes
  <2> QED BY <2>1 DEF StreamInv, StreamTypes, NothingLost, AgainOnlyIfClaimedOrUnacked, WorkInv,
                      Pending, Doing, Done, Ids
\* The next entries go to p, which had the others of todo in hand.
<1>2. ASSUME NEW p \in {"consumer", "batch"}, NEW n \in Nat, XReadGroup(p, n), NEW w \in Worker, Set(p, w),
             Range(w.todo) \subseteq Doing(p) \cup Range(Delivered(p, n)), Range(w.ok) \subseteq Done(p),
             w.at = "handle" => w.todo # <<>>, w.at # "ack", worker[p].at # "ack",
             p = "consumer" => Distinct(w.todo)
      PROVE  StreamInv'
  <2>0. p \in Procs /\ StreamTypes /\ WorkInv /\ NothingLost /\ AgainOnlyIfClaimedOrUnacked
    BY <1>0 DEF StreamInv
  <2>1. PICK m \in group.last..added :
           /\ group' = [last |-> m, pel |-> group'.pel, acked |-> group.acked, dropped |-> group.dropped]
           /\ Pending' = Pending \cup (group.last + 1)..m
           /\ Range(Delivered(p, n)) = (group.last + 1)..m
    BY <1>2, <2>0, ReadGroupFacts
  <2>2. UNCHANGED <<added, handled, failures, again>>
    BY <1>2 DEF XReadGroup
  <2>3. /\ worker' \in [Procs -> Worker] /\ worker'[p] = w
        /\ Doing(p)' = Range(w.todo) /\ Done(p)' \subseteq Done(p)
        /\ \A q \in Procs \ {p} : worker'[q] = worker[q] /\ Doing(q)' = Doing(q) /\ Done(q)' = Done(q)
    BY <1>2, <2>0, WorkerSet
  <2>4. /\ group'.last = m /\ group'.acked = group.acked /\ group'.dropped = group.dropped
        /\ 1..group.last \subseteq 1..m /\ 1..m = 1..group.last \cup (group.last + 1)..m /\ m \in Nat
        /\ group.last \in Nat /\ added \in 0..MaxEntries
    BY <2>0, <2>1 DEF StreamTypes
  <2>5. StreamTypes'
    BY <2>0, <2>1, <2>2, <2>3, <2>4 DEF StreamTypes, Ids
  <2>6. NothingLost'
    <3> SUFFICES ASSUME NEW i \in 1..m
                 PROVE  /\ i \in group.acked => handled[i] > 0
                        /\ i \in Pending' \cup group.acked \cup group.dropped
      BY <2>2, <2>4 DEF NothingLost
    <3>1. CASE i \in 1..group.last
      BY <2>0, <2>1, <3>1 DEF NothingLost
    <3>2. CASE i \in (group.last + 1)..m
      <4>1. i \notin 1..group.last
        BY <2>4, <3>2
      <4> QED BY <2>0, <2>1, <3>2, <4>1 DEF StreamTypes
    <3> QED BY <2>4, <3>1, <3>2
  <2>7. AgainOnlyIfClaimedOrUnacked'
    BY <2>0, <2>2 DEF AgainOnlyIfClaimedOrUnacked, Ids
  <2>8. Doing(p)' \subseteq Doing(p) \cup (group.last + 1)..m
    BY <1>2, <2>1, <2>3
  <2>9. \A i \in (group.last + 1)..m : i \in Ids /\ handled[i] = 0 /\ \A q \in Procs : i \notin Doing(q)
    BY <2>0, <2>4 DEF WorkInv, Ids
  <2>10. WorkInv'
    <3>1. \A q \in Procs : /\ Doing(q)' \subseteq 1..m /\ Done(q)' \subseteq 1..m
                           /\ \A i \in Done(q)' : handled[i] > 0
                           /\ worker'[q].at = "handle" => worker'[q].todo # <<>>
      BY <1>2, <2>0, <2>3, <2>4, <2>8 DEF WorkInv
    <3>2. \A i \in Ids : i > m => handled[i] = 0
      BY <2>0, <2>1, <2>4 DEF WorkInv, Ids
    <3>3. Doing("claimer")' \subseteq again
      BY <1>0, <1>2, <2>0, <2>3 DEF WorkInv
    <3>4. Distinct(worker["consumer"].todo)' /\ Doing("consumer")' \cap Doing("batch")' = {}
      BY <1>0, <1>2, <2>0, <2>3, <2>8, <2>9 DEF WorkInv
    <3>5. /\ \A i \in Doing("consumer")' : handled[i] = 0 \/ i \in again
          /\ worker'["batch"].at # "ack" => \A i \in Doing("batch")' : handled[i] = 0 \/ i \in again
      BY <1>0, <1>2, <2>0, <2>3, <2>8, <2>9 DEF WorkInv
    <3> QED BY <2>2, <2>4, <3>1, <3>2, <3>3, <3>4, <3>5 DEF WorkInv, Ids
  <2> QED BY <2>5, <2>6, <2>7, <2>10 DEF StreamInv
<1>3. CASE ConsumerRead
  <2>1. PICK d : d = Delivered("consumer", BatchSize)
    OBVIOUS
  <2>2. /\ worker["consumer"].at = "run" /\ added > group.last /\ XReadGroup("consumer", BatchSize)
        /\ Set("consumer", [at |-> "handle", todo |-> d, ok |-> <<>>])
    BY <1>3, <2>1 DEF ConsumerRead
  <2>3. d \in Seq(Nat) /\ d # <<>> /\ Distinct(d)
    BY <1>0, <2>1, <2>2, ReadGroupFacts DEF StreamInv
  <2>4. PICK w : w = [at |-> "handle", todo |-> d, ok |-> <<>>]
    OBVIOUS
  <2>5. w \in Worker /\ w.todo = d /\ w.ok = <<>> /\ w.at = "handle"
    BY <2>3, <2>4 DEF Worker
  <2> QED BY <1>0, <1>2, <2>1, <2>2, <2>3, <2>4, <2>5
<1>4. CASE BatchRead
  <2>1. PICK w : w = worker["batch"]
    OBVIOUS
  <2>2. w \in Worker /\ StreamTypes
    BY <1>0, <2>1 DEF StreamInv, StreamTypes
  <2>3. PICK room : room = remainingCapacity(w.todo)
    OBVIOUS
  <2>4. room \in Nat
    BY <2>2, <2>3 DEF remainingCapacity, Worker
  <2>5. PICK d : d = Delivered("batch", room)
    OBVIOUS
  <2>6. PICK x : x = [w EXCEPT !.todo = w.todo \o d, !.at = IF Len(w.todo \o d) < BatchSize THEN "run" ELSE "flush"]
    OBVIOUS
  <2>7. w.at = "run" /\ XReadGroup("batch", room) /\ Set("batch", x)
    BY <1>4, <2>1, <2>3, <2>5, <2>6 DEF BatchRead
  <2>8. d \in Seq(Nat)
    BY <1>0, <2>2, <2>4, <2>5, <2>7, ReadGroupFacts
  <2>9. w.todo \in Seq(Nat) /\ w.todo \o d \in Seq(Nat) /\ Range(w.todo \o d) = Range(w.todo) \cup Range(d)
    BY <2>2, <2>8, RangeJoins DEF Worker
  <2>10. x \in Worker /\ x.todo = w.todo \o d /\ x.ok = w.ok /\ x.at \in {"run", "flush"}
    BY <2>2, <2>6, <2>9 DEF Worker
  <2> QED BY <1>2, <2>1, <2>4, <2>5, <2>7, <2>9, <2>10 DEF Doing, Done
\* Only the place of p changes.
<1>5. ASSUME NEW p \in Procs, NEW at \in {"run", "flush", "claim", "wait"}, Set(p, [worker[p] EXCEPT !.at = at]),
             worker[p].at # "ack", UNCHANGED <<added, group, handled, again>>
      PROVE  StreamInv'
  <2>1. PICK w : w = [worker[p] EXCEPT !.at = at]
    OBVIOUS
  <2>2. w \in Worker /\ w.todo = worker[p].todo /\ w.ok = worker[p].ok /\ w.at = at
    BY <2>1 DEF StreamInv, StreamTypes, Worker
  <2>3. /\ worker' \in [Procs -> Worker] /\ worker'[p] = w
        /\ Doing(p)' = Range(w.todo) /\ Done(p)' = Range(w.ok)
        /\ \A q \in Procs \ {p} : worker'[q] = worker[q] /\ Doing(q)' = Doing(q) /\ Done(q)' = Done(q)
    BY <1>5, <2>1, <2>2, WorkerSet DEF StreamInv
  <2>4. \A q \in Procs : /\ Doing(q)' = Doing(q) /\ Done(q)' = Done(q) /\ worker'[q].todo = worker[q].todo
                         /\ worker'[q].at = "handle" => worker[q].at = "handle"
                         /\ worker'[q].at # "ack" => worker[q].at # "ack"
    BY <1>5, <2>2, <2>3 DEF Doing, Done
  <2>5. StreamTypes' /\ NothingLost' /\ AgainOnlyIfClaimedOrUnacked'
    BY <1>5, <2>3 DEF StreamInv, StreamTypes, NothingLost, AgainOnlyIfClaimedOrUnacked, Pending, Ids
  <2>6. WorkInv'
    BY <1>0, <1>5, <2>4 DEF StreamInv, WorkInv, Ids
  <2> QED BY <2>5, <2>6 DEF StreamInv
<1>6. CASE flushOnTimer
  BY <1>0, <1>5, <1>6 DEF flushOnTimer
<1>7. CASE AutoClaim
  <2>1. PICK e \in FirstIdle :
          /\ worker["claimer"].at = "claim"
          /\ group' = [group EXCEPT !.pel = Owned("claimer", Range(e))]
          /\ again' = again \cup Range(e)
          /\ Set("claimer", [at |-> IF e = <<>> THEN "wait" ELSE "handle", todo |-> e, ok |-> <<>>])
          /\ UNCHANGED <<added, handled, failures>>
    BY <1>7 DEF AutoClaim
  <2>2. PICK n \in 0..BatchSize : e \in [1..n -> Idle]
    BY <2>1 DEF FirstIdle
  <2>3. Idle \subseteq Pending /\ Pending \subseteq 1..group.last /\ group.last \in Nat
    BY DEF Idle, StreamInv, StreamTypes
  <2>4. e \in Seq(Nat) /\ Range(e) \subseteq Pending
    <3>0. Idle \subseteq Nat
      BY <2>3
    <3>1. n \in Nat
      BY <2>2
    <3>2. e \in [1..n -> Nat]
      <4>1. \A k \in 1..n : e[k] \in Nat
        BY <2>2, <3>0
      <4> QED BY <2>2, <4>1
    <3> QED BY <2>2, <2>3, <3>1, <3>2 DEF Range
  <2>5. PICK w : w = [at |-> IF e = <<>> THEN "wait" ELSE "handle", todo |-> e, ok |-> <<>>]
    OBVIOUS
  <2>6. w \in Worker /\ w.todo = e /\ w.ok = <<>> /\ (w.at = "handle" => e # <<>>)
    BY <2>4, <2>5 DEF Worker
  <2>7. /\ worker' \in [Procs -> Worker] /\ worker'["claimer"] = w
        /\ Doing("claimer")' = Range(e) /\ Done("claimer")' = {}
        /\ \A q \in Procs \ {"claimer"} : worker'[q] = worker[q] /\ Doing(q)' = Doing(q) /\ Done(q)' = Done(q)
    BY <1>0, <2>1, <2>5, <2>6, WorkerSet DEF StreamInv
  <2>8. PICK f : f = Owned("claimer", Range(e))
    OBVIOUS
  <2>9. group' = [last |-> group.last, pel |-> f, acked |-> group.acked, dropped |-> group.dropped]
    BY <2>1, <2>8 DEF StreamInv, StreamTypes
  <2>10. DOMAIN f = Pending
    BY <2>4, <2>8 DEF Owned
  <2>11. Pending' = Pending /\ group'.last = group.last /\ group'.acked = group.acked /\ group'.dropped = group.dropped
    BY <2>9, <2>10 DEF Pending
  <2>12. StreamTypes' /\ NothingLost' /\ AgainOnlyIfClaimedOrUnacked'
    BY <2>1, <2>7, <2>9, <2>11 DEF StreamInv, StreamTypes, NothingLost, AgainOnlyIfClaimedOrUnacked, Ids
  <2>13. WorkInv'
    BY <1>0, <2>1, <2>3, <2>4, <2>6, <2>7, <2>11 DEF StreamInv, WorkInv, Ids
  <2> QED BY <2>12, <2>13 DEF StreamInv
<1>8. CASE Tick
  <2>1. UNCHANGED <<added, group, handled, again>> /\ Set("claimer", Fresh("claimer"))
    BY <1>8 DEF Tick
  <2>2. PICK w : w = Fresh("claimer")
    OBVIOUS
  <2>3. w \in Worker /\ w.todo = <<>> /\ w.ok = <<>> /\ w.at # "handle"
    BY <1>0, <2>2, FreshFacts
  <2> QED BY <1>0, <2>1, <2>2, <2>3, EmptyHanded DEF StreamInv, StreamTypes, Pending
<1>9. ASSUME NEW i \in Ids, GoesIdle(i) PROVE StreamInv'
  <2>1. group' = [group EXCEPT !.pel = [group.pel EXCEPT ![i].idle = TRUE]] /\ UNCHANGED <<added, worker, handled, again>>
    BY <1>9 DEF GoesIdle
  <2>2. PICK f : f = [group.pel EXCEPT ![i].idle = TRUE]
    OBVIOUS
  <2>3. group' = [last |-> group.last, pel |-> f, acked |-> group.acked, dropped |-> group.dropped]
    BY <2>1, <2>2 DEF StreamInv, StreamTypes
  <2>4. Pending' = Pending
    BY <2>2, <2>3 DEF Pending
  <2> QED BY <2>1, <2>3, <2>4 DEF StreamInv, StreamTypes, NothingLost, AgainOnlyIfClaimedOrUnacked, WorkInv,
                                  Doing, Done, Ids
\* A process that goes back with empty hands.
<1>10. ASSUME NEW p \in Procs, Set(p, Fresh(p)) \/ Set(p, Ended(p)), UNCHANGED <<added, group, handled>>,
              again \subseteq again'
       PROVE  StreamInv'
  <2>1. PICK w : w \in {Fresh(p), Ended(p)} /\ Set(p, w)
    BY <1>10
  <2>2. w \in Worker /\ w.todo = <<>> /\ w.ok = <<>> /\ w.at # "handle"
    BY <2>1, FreshFacts
  <2> QED BY <1>10, <2>1, <2>2, EmptyHanded DEF StreamInv, StreamTypes, Pending
\* The handler succeeded for the entries of some set, all of them in hand of p.
<1>11. ASSUME NEW p \in Procs, NEW S, S \subseteq Doing(p), NEW w \in Worker, Set(p, w), worker[p].at # "ack",
              handled' = [i \in Ids |-> IF i \in S THEN SmallerOf(handled[i] + 1, 2) ELSE handled[i]],
              UNCHANGED <<added, group, again>>, w.at = "handle" => w.todo # <<>>,
              Range(w.todo) \subseteq Doing(p), Range(w.ok) \subseteq Done(p) \cup S,
              p = "consumer" => Distinct(w.todo) /\ Range(w.todo) \cap S = {},
              p = "batch" => w.at = "ack" \/ w.todo = <<>>
       PROVE  StreamInv'
  <2>0. StreamTypes /\ WorkInv /\ NothingLost /\ AgainOnlyIfClaimedOrUnacked
    BY DEF StreamInv
  <2>1. /\ worker' \in [Procs -> Worker] /\ worker'[p] = w
        /\ Doing(p)' = Range(w.todo) /\ Done(p)' = Range(w.ok)
        /\ \A q \in Procs \ {p} : worker'[q] = worker[q] /\ Doing(q)' = Doing(q) /\ Done(q)' = Done(q)
    BY <1>11, <2>0, WorkerSet
  <2>2. S \subseteq Ids /\ 1..group.last \subseteq Ids
    BY <1>11, <2>0 DEF WorkInv, StreamTypes, Ids
  <2>3. /\ handled' \in [Ids -> 0..2]
        /\ \A i \in Ids : /\ handled'[i] = handled[i] \/ (i \in S /\ handled[i] < handled'[i])
                          /\ i \in S => handled'[i] > 0 /\ (handled[i] = 0 => handled'[i] = 1)
    BY <1>11, <2>0, <2>2 DEF StreamTypes, SmallerOf
  <2>4. \A i \in Ids : handled[i] \in 0..2 /\ handled'[i] \in 0..2
    BY <2>0, <2>3 DEF StreamTypes
  <2>5. \A i \in S : handled[i] = 0 \/ i \in again
    BY <1>0, <1>11, <2>0 DEF WorkInv, Procs
  <2>6. StreamTypes'
    BY <1>11, <2>0, <2>1, <2>3 DEF StreamTypes, Pending, Ids
  <2>7. NothingLost'
    BY <1>11, <2>0, <2>2, <2>3, <2>4 DEF NothingLost, Pending
  <2>8. AgainOnlyIfClaimedOrUnacked'
    BY <1>11, <2>0, <2>3, <2>4, <2>5 DEF AgainOnlyIfClaimedOrUnacked, Ids
  <2>9. WorkInv'
    <3>1. \A q \in Procs : /\ Doing(q)' \subseteq Doing(q) /\ Done(q)' \subseteq Done(q) \cup S
                           /\ worker'[q].at = "handle" => worker'[q].todo # <<>>
      BY <1>11, <2>0, <2>1 DEF WorkInv
    <3>2. \A q \in Procs : Done(q)' \subseteq 1..group.last /\ \A i \in Done(q)' : handled'[i] > 0
      BY <1>11, <2>0, <2>2, <2>3, <2>4, <3>1 DEF WorkInv
    <3>3. \A i \in Ids : i > group.last => handled'[i] = 0
      BY <1>11, <2>0, <2>2, <2>3 DEF WorkInv, StreamTypes
    <3>4. Doing("claimer")' \subseteq again /\ Doing("consumer")' \cap Doing("batch")' = {}
      BY <1>0, <2>0, <3>1 DEF WorkInv
    <3>5. Distinct(worker["consumer"].todo)'
      BY <1>0, <1>11, <2>0, <2>1 DEF WorkInv
    <3>6. \A i \in Doing("consumer")' : handled'[i] = 0 \/ i \in again
      <4> SUFFICES ASSUME NEW i \in Doing("consumer")', i \notin again PROVE handled'[i] = 0
        OBVIOUS
      <4>1. i \in Doing("consumer") /\ i \in Ids /\ handled[i] = 0
        BY <1>0, <2>0, <2>2, <3>1 DEF WorkInv
      <4>2. i \notin S
        BY <1>0, <1>11, <2>0, <2>1, <4>1 DEF WorkInv, Procs
      <4> QED BY <2>3, <4>1, <4>2
    <3>7. worker'["batch"].at # "ack" => \A i \in Doing("batch")' : handled'[i] = 0 \/ i \in again
      <4> SUFFICES ASSUME worker'["batch"].at # "ack", NEW i \in Doing("batch")', i \notin again PROVE handled'[i] = 0
        OBVIOUS
      <4>1. p # "batch"
        BY <1>0, <1>11, <2>1
      <4>2. i \in Doing("batch") /\ i \in Ids /\ handled[i] = 0
        BY <1>0, <2>0, <2>1, <2>2, <3>1, <4>1 DEF WorkInv
      <4>3. i \notin S
        BY <1>0, <1>11, <2>0, <4>1, <4>2 DEF WorkInv, Procs
      <4> QED BY <2>3, <4>2, <4>3
    <3> QED BY <1>0, <1>11, <2>0, <3>1, <3>2, <3>3, <3>4, <3>5, <3>6, <3>7 DEF WorkInv, Ids
  <2> QED BY <2>6, <2>7, <2>8, <2>9 DEF StreamInv
<1>12. ASSUME NEW p \in Procs, HandleEntry(p) PROVE StreamInv'
  <2>1. PICK w : w = worker[p]
    OBVIOUS
  <2>2. PICK i : i = Head(w.todo)
    OBVIOUS
  <2>3. w \in Worker /\ w.at = "handle" /\ p \in {"consumer", "claimer"} /\ UNCHANGED <<added, group, again>>
    BY <1>12, <2>1 DEF HandleEntry, StreamInv, StreamTypes
  <2>4. w.todo \in Seq(Nat) /\ w.ok \in Seq(Nat) /\ w.todo # <<>>
    BY <2>1, <2>3 DEF StreamInv, WorkInv, Worker
  <2>5. PICK t : t = Tail(w.todo)
    OBVIOUS
  <2>6. t \in Seq(Nat) /\ Range(t) \subseteq Range(w.todo) /\ i \in Range(w.todo) /\ i \in Nat
    BY <2>2, <2>4, <2>5, RangeFacts
  <2>7. p = "consumer" => Distinct(t) /\ i \notin Range(t)
    BY <2>1, <2>2, <2>4, <2>5, DistinctTail DEF StreamInv, WorkInv
  <2>8. CASE /\ handled' = [handled EXCEPT ![i] = SmallerOf(@ + 1, 2)]
             /\ Set(p, AfterHandling(p, [w EXCEPT !.todo = t, !.ok = IF Keeps(p) THEN Append(@, i) ELSE @]))
    <3>1. PICK ok : ok = IF Keeps(p) THEN Append(w.ok, i) ELSE w.ok
      OBVIOUS
    <3>2. ok \in Seq(Nat) /\ Range(ok) \subseteq Range(w.ok) \cup {i}
      BY <2>4, <2>6, <3>1, RangeFacts
    <3>3. PICK x : x = [w EXCEPT !.todo = t, !.ok = ok]
      OBVIOUS
    <3>4. x \in Worker /\ x.todo = t /\ x.ok = ok /\ x.at = "handle"
      BY <2>3, <2>6, <3>2, <3>3 DEF Worker
    <3>5. Set(p, AfterHandling(p, x))
      BY <2>8, <3>1, <3>3
    <3>6. PICK y : y = AfterHandling(p, x)
      OBVIOUS
    <3>7. y \in Worker /\ y.todo = t /\ y.ok = ok /\ (y.at = "handle" => y.todo # <<>>)
      BY <3>4, <3>6, AfterHandlingFacts
    <3>8. handled' = [k \in Ids |-> IF k \in {i} THEN SmallerOf(handled[k] + 1, 2) ELSE handled[k]]
      BY <2>8 DEF StreamInv, StreamTypes
    <3>9. PICK S : S = {i}
      OBVIOUS
    <3>10. /\ S \subseteq Doing(p) /\ Range(y.todo) \subseteq Doing(p) /\ Range(y.ok) \subseteq Done(p) \cup S
           /\ p = "consumer" => Distinct(y.todo) /\ Range(y.todo) \cap S = {}
           /\ p # "batch" /\ worker[p].at # "ack"
           /\ handled' = [k \in Ids |-> IF k \in S THEN SmallerOf(handled[k] + 1, 2) ELSE handled[k]]
      BY <2>1, <2>3, <2>6, <2>7, <3>2, <3>7, <3>8, <3>9 DEF Doing, Done
    <3> QED BY <1>11, <2>3, <3>5, <3>6, <3>7, <3>10
  <2>9. CASE Fails /\ UNCHANGED handled /\ Set(p, AfterHandling(p, [w EXCEPT !.todo = t]))
    <3>3. PICK x : x = [w EXCEPT !.todo = t]
      OBVIOUS
    <3>4. x \in Worker /\ x.todo = t /\ x.ok = w.ok /\ x.at = "handle"
      BY <2>3, <2>6, <3>3 DEF Worker
    <3>6. PICK y : y = AfterHandling(p, x)
      OBVIOUS
    <3>7. y \in Worker /\ y.todo = t /\ y.ok = w.ok /\ (y.at = "handle" => y.todo # <<>>)
      BY <3>4, <3>6, AfterHandlingFacts
    <3>9. PICK S : S = {}
      OBVIOUS
    <3>10. /\ S \subseteq Doing(p) /\ Range(y.todo) \subseteq Doing(p) /\ Range(y.ok) \subseteq Done(p) \cup S
           /\ p = "consumer" => Distinct(y.todo) /\ Range(y.todo) \cap S = {}
           /\ p # "batch" /\ worker[p].at # "ack"
           /\ handled' = [k \in Ids |-> IF k \in S THEN SmallerOf(handled[k] + 1, 2) ELSE handled[k]]
      BY <2>1, <2>3, <2>6, <2>7, <2>9, <3>7, <3>9 DEF Doing, Done, StreamInv, StreamTypes
    <3> QED BY ZenonT(60), <1>11, <2>3, <2>9, <3>3, <3>6, <3>7, <3>10
  <2> QED BY <1>12, <2>1, <2>2, <2>5, <2>8, <2>9 DEF HandleEntry, handlerFailed
<1>13. CASE processBatch
  <2>1. PICK w : w = worker["batch"]
    OBVIOUS
  <2>2. w \in Worker /\ w.at = "flush" /\ UNCHANGED <<added, group, again>>
    BY <1>0, <1>13, <2>1 DEF processBatch, StreamInv, StreamTypes
  <2>3. PICK S : S = Range(w.todo)
    OBVIOUS
  <2>4. PICK x : x = IF AutoAck THEN [w EXCEPT !.at = "ack", !.ok = w.todo] ELSE Fresh("batch")
    OBVIOUS
  <2>5. /\ x \in Worker /\ x.at # "handle" /\ Range(x.todo) \subseteq S /\ Range(x.ok) \subseteq S
        /\ x.at = "ack" \/ x.todo = <<>>
    <3>1. CASE AutoAck
      <4>1. x = [w EXCEPT !.at = "ack", !.ok = w.todo]
        BY <2>4, <3>1
      <4>2. x \in Worker /\ x.at = "ack" /\ x.todo = w.todo /\ x.ok = w.todo
        BY <2>2, <4>1 DEF Worker
      <4> QED BY <2>3, <4>2
    <3>2. CASE ~AutoAck
      BY <1>0, <2>4, <3>2, FreshFacts
    <3> QED BY <3>1, <3>2
  <2>6. CASE /\ handled' = [i \in Ids |-> IF i \in S THEN SmallerOf(handled[i] + 1, 2) ELSE handled[i]]
             /\ Set("batch", x)
    BY <1>0, <1>11, <2>1, <2>2, <2>3, <2>5, <2>6 DEF Doing, Done
  <2>7. CASE Set("batch", Ended("batch")) /\ UNCHANGED handled
    BY <1>0, <1>10, <2>2, <2>7
  <2> QED BY <1>13, <2>1, <2>3, <2>4, <2>6, <2>7 DEF processBatch
\* XACK of what p has handled.
<1>14. ASSUME NEW p \in Procs, Acked(Done(p)), Set(p, Fresh(p)) \/ Set(p, Ended(p)), UNCHANGED <<added, handled>>,
              again \subseteq again'
       PROVE  StreamInv'
  <2>1. PICK w : w \in {Fresh(p), Ended(p)} /\ Set(p, w)
    BY <1>14
  <2>2. w \in Worker /\ w.todo = <<>> /\ w.ok = <<>> /\ w.at # "handle"
    BY <2>1, FreshFacts
  <2>3. PICK f : f = [i \in Pending \ Done(p) |-> group.pel[i]]
    OBVIOUS
  <2>4. group' = [last |-> group.last, pel |-> f, acked |-> group.acked \cup (Done(p) \cap Pending),
                  dropped |-> group.dropped]
    BY <1>14, <2>3 DEF Acked, StreamInv, StreamTypes
  <2>5. Pending' = Pending \ Done(p)
    BY <2>3, <2>4 DEF Pending
  <2>6. /\ group' = [last |-> group'.last, pel |-> group'.pel, acked |-> group'.acked, dropped |-> group'.dropped]
        /\ group'.last = group.last /\ group'.acked = group.acked \cup (Done(p) \cap Pending)
        /\ group'.dropped = group.dropped
    BY <2>4
  <2>7. \A i \in Done(p) : handled[i] > 0
    BY DEF StreamInv, WorkInv
  <2> QED BY <1>14, <2>1, <2>2, <2>5, <2>6, <2>7, EmptyHanded
<1>15. ASSUME NEW p \in Procs, Ack(p) PROVE StreamInv'
  BY <1>10, <1>14, <1>15 DEF Ack, Done
<1>16. ASSUME NEW p \in Procs, Crash(p) \/ Run(p) PROVE StreamInv'
  BY <1>10, <1>16 DEF Crash, Run
<1>17. ASSUME NEW p \in Procs, DeleteConsumer(p) PROVE StreamInv'
  <2>1. PICK gone : gone = { i \in Pending : group.pel[i].owner = p }
    OBVIOUS
  <2>2. PICK f : f = [i \in Pending \ gone |-> group.pel[i]]
    OBVIOUS
  <2>3. /\ group' = [group EXCEPT !.pel = f, !.dropped = @ \cup gone]
        /\ UNCHANGED <<added, worker, handled, again>>
    BY <1>17, <2>1, <2>2 DEF DeleteConsumer
  <2>4. group' = [last |-> group.last, pel |-> f, acked |-> group.acked, dropped |-> group.dropped \cup gone]
    BY <2>3 DEF StreamInv, StreamTypes
  <2>5. Pending' = Pending \ gone
    BY <2>2, <2>4 DEF Pending
  <2>6. StreamTypes'
    BY <2>3, <2>4, <2>5 DEF StreamInv, StreamTypes, Ids
  <2>7. NothingLost'
    BY <2>3, <2>4, <2>5 DEF StreamInv, NothingLost
  <2> QED BY <2>3, <2>4, <2>6, <2>7 DEF StreamInv, AgainOnlyIfClaimedOrUnacked, WorkInv, Doing, Done, Ids
<1>18. CASE UNCHANGED streamVars
  BY <1>18 DEF streamVars, StreamInv, StreamTypes, NothingLost, AgainOnlyIfClaimedOrUnacked, WorkInv,
               Pending, Doing, Done, Ids
<1> QED BY <1>1, <1>3, <1>4, <1>6, <1>7, <1>8, <1>9, <1>12, <1>13, <1>15, <1>16, <1>17, <1>18 DEF StreamNext, StreamStep

\* An empty stream with its group.
LEMMA StreamStarts == StreamInit => StreamInv
<1> SUFFICES ASSUME StreamInit PROVE StreamInv
  OBVIOUS
<1>1. worker = [p \in Procs |-> Fresh(p)]
  BY DEF StreamInit
<1>2. \A p \in Procs : worker[p] \in Worker /\ Doing(p) = {} /\ Done(p) = {} /\ worker[p].todo = <<>>
                       /\ worker[p].at # "handle"
  BY <1>1, FreshFacts DEF Doing, Done
<1>3. worker \in [Procs -> Worker] /\ Distinct(<<>>) /\ "consumer" \in Procs /\ "batch" \in Procs /\ "claimer" \in Procs
  BY <1>1, <1>2 DEF Distinct, Procs
<1>4. PICK f : f = [i \in {} |-> 0]
  OBVIOUS
<1>5. group = [last |-> 0, pel |-> f, acked |-> {}, dropped |-> {}] /\ DOMAIN f = {}
  BY <1>4 DEF StreamInit
<1>6. Pending = {} /\ group.last = 0 /\ group.acked = {}
  BY <1>5 DEF Pending
<1>7. StreamTypes
  BY <1>3, <1>5, <1>6, StreamAssumption DEF StreamInit, StreamTypes
<1>8. NothingLost /\ AgainOnlyIfClaimedOrUnacked
  BY <1>6 DEF StreamInit, NothingLost, AgainOnlyIfClaimedOrUnacked
<1>9. WorkInv
  BY <1>2, <1>3, <1>6 DEF StreamInit, WorkInv
<1> QED BY <1>7, <1>8, <1>9 DEF StreamInv

-----------------------------------------------------------------------------
(* The parts in one specification. *)

\* What a step of the whole does to each part.
LEMMA PartSteps ==
  ASSUME [Next]_vars
  PROVE  /\ [SemNext]_semVars /\ [RWNext]_rwVars /\ [ManagerNext]_managerVars
         /\ [PubSubNext]_pubsubVars /\ [StreamNext]_streamVars
BY DEF Next, vars

\* No permit is out and no key is there.
LEMMA SemStarts == SemInit => SemInv
<1> SUFFICES ASSUME SemInit PROVE SemInv
  OBVIOUS
<1>1. Out = {} /\ { c \in Clients : PermitOut(c) } = {}
  BY DEF SemInit, PermitOut, Out
<1>2. Cardinality({}) = 0
  BY FS_EmptySet
<1>3. ExactUnlessRaced
  BY <1>1, <1>2 DEF SemInit, ExactUnlessRaced, Stored
<1>4. CountWithinLimit
  BY SemaphoreAssumption DEF SemInit, SemPC, CountWithinLimit
<1> QED BY <1>3, <1>4 DEF SemInit, SemInv, Updating

\* Nobody holds a lock, and there is no subscription.
LEMMA OthersStart == RWInit /\ ManagerInit /\ PubSubInit => RWInv /\ ManagerInv /\ PubSubInv
<1>1. RWInit => RWInv
  BY RWAssumption DEF RWInit, RWInv, RWPC
<1>2. ManagerInit => ManagerInv
  BY ManagerAssumption DEF ManagerInit, ManagerInv, HeldIsManaged, Made
<1>3. PubSubInit => PubSubInv
  BY PubSubAssumption DEF PubSubInit, PubSubInv, OpenIsOwned, SubIds, Sub
<1> QED BY <1>1, <1>2, <1>3

\* Semaphore, RWLock and Manager, for every number of clients, limits and locks: the
\* stored count never exceeds the limit and is exact unless updates overlapped or
\* the key expired, a writer that came alone shuts readers out, and a lock that is
\* held is in the manager's map or in the hands of a call, or was pushed out of it
\* by one whose lease had ended.
THEOREM LocksExactAlways == Spec => []LocksExact
<1> DEFINE Locks == SemInv /\ RWInv /\ ManagerInv
<1>1. Init => Locks
  BY SemStarts, OthersStart DEF Init
<1>2. Locks /\ [Next]_vars => Locks'
  BY PartSteps, SemStep, RWStep, ManagerStep
<1>3. Locks => LocksExact
  <2>1. RWInv => ExclusiveIfLockedAlone
    BY DEF RWInv, RWPC, ExclusiveIfLockedAlone, Excludes, Inside
  <2> QED BY <2>1 DEF LocksExact, SemInv, ManagerInv
<1> QED BY <1>1, <1>2, <1>3, PTL DEF Spec

\* However Subscribe, Unsubscribe and Close overlap, a subscription that is open at
\* the server is in the registry or in the hands of a call that will store or close
\* it: none is left open with nobody to close it.
THEOREM OpenIsOwnedAlways == Spec => []OpenIsOwned
<1>1. Init => PubSubInv
  BY OthersStart DEF Init
<1>2. PubSubInv /\ [Next]_vars => PubSubInv'
  BY PartSteps, PubSubStep
<1>3. PubSubInv => OpenIsOwned
  BY DEF PubSubInv
<1> QED BY <1>1, <1>2, <1>3, PTL DEF Spec

\* At-least-once delivery, for every number of entries, every batch size and any
\* number of failing calls and crashes: an entry is acknowledged only after its
\* handler succeeded, one that was delivered stays pending until then, and the handler
\* succeeds twice only for an entry that was claimed or whose Ack reported an error.
THEOREM DeliveryExactAlways == Spec => []DeliveryExact
<1>1. Init => StreamInv
  BY StreamStarts DEF Init
<1>2. StreamInv /\ [Next]_vars => StreamInv'
  BY PartSteps, StreamKeeps
<1>3. StreamInv => DeliveryExact
  BY DEF StreamInv, DeliveryExact
<1> QED BY <1>1, <1>2, <1>3, PTL DEF Spec

-----------------------------------------------------------------------------
(* kvx/module/json. *)

Docs == [arr : Seq(Elements), obj : SUBSET JsonFields]

JsonTyped ==
  /\ doc # NoDoc => doc \in Docs
  /\ jc \in [JsonClients -> [at : {"idle", "pop", "merge"}, read : Docs \cup {NoDoc}, field : JsonFields \cup {NoDoc}, raced : BOOLEAN]]
  /\ popped \in Seq(Elements) /\ jsonRace \in BOOLEAN

\* What a call has read is a document with what it needs, and is still the document
\* unless somebody has written since.
ReadInv ==
  \A c \in JsonClients :
    /\ jc[c].at # "idle" => jc[c].read \in Docs
    /\ jc[c].at = "pop" => jc[c].read.arr # <<>>
    /\ jc[c].at = "merge" => jc[c].field \in JsonFields
    /\ jc[c].at # "idle" /\ ~jc[c].raced => doc # NoDoc /\ jc[c].read = doc

\* The array has every element once.
ArrayInv == ~jsonRace /\ doc # NoDoc => IsInjective(doc.arr)

JsonInv == JsonTyped /\ ReadInv /\ ArrayInv /\ PopsOnce /\ MergesKept

\* The array that JSON.Set writes.
LEMMA ElementsOnce == SetToSeq(Elements) \in Seq(Elements) /\ IsInjective(SetToSeq(Elements))
<1>1. Cardinality(Elements) \in Nat /\ ExistsBijection(1..Cardinality(Elements), Elements)
  BY DocumentsAssumption, FS_CardinalityType
<1>2. \E f \in [1..Cardinality(Elements) -> Elements] : IsInjective(f)
  BY <1>1 DEF ExistsBijection, Bijection, Injection, IsInjective
<1>3. SetToSeq(Elements) \in [1..Cardinality(Elements) -> Elements] /\ IsInjective(SetToSeq(Elements))
  BY <1>2 DEF SetToSeq
<1> QED BY <1>1, <1>3

\* The invariant holds before the first call.
LEMMA JsonStarts == JsonInit => JsonInv
<1> SUFFICES ASSUME JsonInit PROVE JsonInv  OBVIOUS
<1>1. PICK a : a = SetToSeq(Elements)  OBVIOUS
<1>2. a \in Seq(Elements) /\ IsInjective(a)
  BY <1>1, ElementsOnce
<1>3. doc # NoDoc => doc = [arr |-> a, obj |-> {}]
  BY <1>1 DEF JsonInit
<1>4. doc # NoDoc => doc \in Docs /\ doc.arr = a
  BY <1>2, <1>3 DEF Docs
<1>5. jc = [c \in JsonClients |-> JsonRest] /\ popped = <<>> /\ merged = {} /\ jsonRace = FALSE
  BY DEF JsonInit
<1>6. jsonRace \in BOOLEAN
  BY <1>5
<1>7. JsonRest \in [at : {"idle", "pop", "merge"}, read : Docs \cup {NoDoc}, field : JsonFields \cup {NoDoc}, raced : BOOLEAN]
  BY DEF JsonRest
<1>8. JsonTyped
  BY <1>4, <1>5, <1>6, <1>7 DEF JsonTyped
<1>9. ReadInv
  BY <1>5 DEF ReadInv, JsonRest
<1>10. ArrayInv /\ PopsOnce /\ MergesKept
  BY <1>2, <1>4, <1>5 DEF ArrayInv, PopsOnce, MergesKept, IsInjective, Range
<1> QED BY <1>8, <1>9, <1>10 DEF JsonInv

\* After a write everybody who has read something else knows.
LEMMA WrittenIs ==
  ASSUME JsonTyped, ReadInv, NEW c \in JsonClients, jc' = Written(c)
  PROVE  /\ jc' \in [JsonClients -> [at : {"idle", "pop", "merge"}, read : Docs \cup {NoDoc}, field : JsonFields \cup {NoDoc}, raced : BOOLEAN]]
         /\ ReadInv'
<1> DEFINE R == [at : {"idle", "pop", "merge"}, read : Docs \cup {NoDoc}, field : JsonFields \cup {NoDoc}, raced : BOOLEAN]
<1>1. jc'[c] = JsonRest
  BY DEF Written
<1>2. ASSUME NEW x \in JsonClients, x # c
      PROVE  /\ jc'[x] \in R /\ jc'[x].at = jc[x].at /\ jc'[x].read = jc[x].read /\ jc'[x].field = jc[x].field
             /\ jc[x].at # "idle" => jc'[x].raced
  <2>1. jc'[x] = [jc[x] EXCEPT !.raced = @ \/ jc[x].at # "idle"]
    BY <1>2 DEF Written
  <2>2. PICK b : b = (jc[x].raced \/ jc[x].at # "idle")  OBVIOUS
  <2>3. b \in BOOLEAN /\ (jc[x].at # "idle" => b)
    BY <2>2
  <2>4. jc[x] \in R
    BY DEF JsonTyped
  <2>5. jc'[x] = [jc[x] EXCEPT !.raced = b]
    BY <2>1, <2>2
  <2> QED BY <2>3, <2>4, <2>5
<1>3. JsonRest \in R /\ JsonRest.at = "idle"
  BY DEF JsonRest
<1>4. jc' = [x \in JsonClients |-> jc'[x]]
  BY DEF Written
<1>5. \A x \in JsonClients : jc'[x] \in R
  BY <1>1, <1>2, <1>3
<1>6. jc' \in [JsonClients -> R]
  BY <1>4, <1>5
<1>7. ReadInv'
  <2> SUFFICES ASSUME NEW x \in JsonClients
               PROVE  /\ jc'[x].at # "idle" => jc'[x].read \in Docs
                      /\ jc'[x].at = "pop" => jc'[x].read.arr # <<>>
                      /\ jc'[x].at = "merge" => jc'[x].field \in JsonFields
                      /\ jc'[x].at # "idle" => jc'[x].raced
    BY DEF ReadInv
  <2>1. CASE x = c
    BY <2>1, <1>1, <1>3
  <2>2. CASE x # c
    BY <2>2, <1>2 DEF ReadInv
  <2> QED BY <2>1, <2>2
<1> QED BY <1>6, <1>7

\* The first half of ArrayPop or ObjectMerge.
LEMMA JsonReads ==
  ASSUME JsonInv, NEW c \in JsonClients, NEW at \in {"pop", "merge"}, NEW f \in JsonFields \cup {NoDoc},
         at = "pop" => doc # NoDoc /\ doc.arr # <<>>, at = "merge" => f \in JsonFields, JsonRead(c, at, f)
  PROVE  JsonInv'
<1>1. PICK r : r = [at |-> at, read |-> doc, field |-> f, raced |-> FALSE]  OBVIOUS
<1>2. /\ jc' = [jc EXCEPT ![c] = r] /\ doc # NoDoc
      /\ doc' = doc /\ popped' = popped /\ merged' = merged /\ jsonRace' = jsonRace
  BY <1>1 DEF JsonRead
<1>3. JsonTyped /\ ReadInv /\ ArrayInv /\ PopsOnce /\ MergesKept
  BY DEF JsonInv
<1>4. /\ r \in [at : {"idle", "pop", "merge"}, read : Docs \cup {NoDoc}, field : JsonFields \cup {NoDoc}, raced : BOOLEAN]
      /\ r.at = at /\ r.read = doc /\ r.field = f
  BY <1>1, <1>2, <1>3 DEF JsonTyped
<1>5. JsonTyped'
  BY <1>2, <1>3, <1>4 DEF JsonTyped
<1>6. doc \in Docs
  BY <1>2, <1>3 DEF JsonTyped
<1>7. ReadInv'
  <2>1. jc'[c] = r /\ \A x \in JsonClients : x # c => jc'[x] = jc[x]
    BY <1>2, <1>3 DEF JsonTyped
  <2> QED BY <1>2, <1>3, <1>4, <1>6, <2>1 DEF ReadInv
<1>8. ArrayInv' /\ PopsOnce' /\ MergesKept'
  BY <1>2, <1>3 DEF ArrayInv, PopsOnce, MergesKept
<1> QED BY <1>5, <1>7, <1>8 DEF JsonInv

\* The second half of ArrayPop.
LEMMA ArrayPops ==
  ASSUME JsonInv, NEW c \in JsonClients, ArrayPopWrite(c)
  PROVE  JsonInv'
<1>1. JsonTyped /\ ReadInv /\ ArrayInv /\ PopsOnce /\ MergesKept
  BY DEF JsonInv
<1>2. PICK a : a = jc[c].read.arr  OBVIOUS
<1>3. /\ jc[c].at = "pop" /\ doc # NoDoc /\ doc' = [doc EXCEPT !.arr = Front(a)]
      /\ jsonRace' = (jsonRace \/ jc[c].raced) /\ jc' = Written(c)
      /\ popped' = (IF jsonRace' THEN <<>> ELSE Append(popped, Last(a)))
      /\ merged' = merged
  BY <1>2 DEF ArrayPopWrite
<1>4. a \in Seq(Elements) /\ a # <<>> /\ doc \in Docs
  BY <1>1, <1>2, <1>3 DEF ReadInv, Docs, JsonTyped
<1>5. /\ Front(a) \in Seq(Elements) /\ Last(a) \in Elements /\ Len(a) \in Nat /\ Len(a) > 0 /\ Len(Front(a)) = Len(a) - 1
      /\ \A i \in 1..(Len(a) - 1) : Front(a)[i] = a[i]
  <2>1. PICK m : m = Len(a)  OBVIOUS
  <2>2. m \in Nat /\ m > 0 /\ a \in [1..m -> Elements] /\ Front(a) = SubSeq(a, 1, m - 1) /\ Last(a) = a[m]
    BY <1>4, <2>1 DEF Front, Last
  <2>3. /\ SubSeq(a, 1, m - 1) \in Seq(Elements) /\ Len(SubSeq(a, 1, m - 1)) = m - 1
        /\ \A i \in 1..(m - 1) : SubSeq(a, 1, m - 1)[i] = a[i]
    BY <1>4, <2>1, <2>2
  <2>4. a[m] \in Elements
    BY <2>2
  <2> QED BY <2>1, <2>2, <2>3, <2>4
<1>6. doc' \in Docs /\ doc'.arr = Front(a) /\ doc'.obj = doc.obj
  BY <1>3, <1>4, <1>5 DEF Docs
<1>7. jsonRace' \in BOOLEAN /\ (~jsonRace' => ~jsonRace /\ ~jc[c].raced)
  BY <1>3
<1>8. /\ jc' \in [JsonClients -> [at : {"idle", "pop", "merge"}, read : Docs \cup {NoDoc}, field : JsonFields \cup {NoDoc}, raced : BOOLEAN]]
      /\ ReadInv'
  BY <1>1, <1>3, WrittenIs
<1>9. popped' \in Seq(Elements)
  <2>1. CASE jsonRace'
    BY <2>1, <1>3
  <2>2. CASE ~jsonRace'
    BY <2>2, <1>1, <1>3, <1>5 DEF JsonTyped
  <2> QED BY <2>1, <2>2
<1>10. JsonTyped'
  BY <1>6, <1>7, <1>8, <1>9 DEF JsonTyped
<1>11. ASSUME ~jsonRace'
       PROVE  IsInjective(doc'.arr) /\ IsInjective(popped') /\ Range(doc'.arr) \cap Range(popped') = {} /\ merged' \subseteq doc'.obj
  <2>1. ~jsonRace /\ jc[c].read = doc /\ a = doc.arr
    BY <1>1, <1>2, <1>3, <1>7, <1>11 DEF ReadInv
  <2>2. /\ IsInjective(a) /\ IsInjective(popped) /\ Range(a) \cap Range(popped) = {} /\ merged \subseteq doc.obj
    BY <1>1, <1>3, <2>1 DEF ArrayInv, PopsOnce, MergesKept
  <2>3. popped' = Append(popped, Last(a)) /\ popped \in Seq(Elements)
    BY <1>1, <1>3, <1>11 DEF JsonTyped
  <2>4. PICK n : n = Len(popped)  OBVIOUS
  <2>5. /\ n \in Nat /\ DOMAIN popped = 1..n /\ DOMAIN popped' = 1..(n + 1) /\ popped'[n + 1] = a[Len(a)]
        /\ \A i \in 1..n : popped'[i] = popped[i]
    BY <1>5, <2>3, <2>4 DEF Last
  <2>6. \A i \in 1..n : popped[i] # a[Len(a)]
    <3>1. Len(a) \in DOMAIN a
      BY <1>4, <1>5
    <3>2. a[Len(a)] \in Range(a)
      BY <3>1 DEF Range
    <3>3. \A i \in 1..n : popped[i] \in Range(popped)
      BY <2>5 DEF Range
    <3> QED BY <2>2, <3>2, <3>3
  <2>7. IsInjective(popped')
    <3> SUFFICES ASSUME NEW i \in 1..(n + 1), NEW j \in 1..(n + 1), popped'[i] = popped'[j] PROVE i = j
      BY <2>5 DEF IsInjective
    <3>1. CASE i = n + 1 /\ j # n + 1
      <4>1. j \in 1..n
        BY <3>1, <2>5
      <4> QED BY <3>1, <4>1, <2>5, <2>6
    <3>2. CASE i # n + 1 /\ j = n + 1
      <4>1. i \in 1..n
        BY <3>2, <2>5
      <4> QED BY <3>2, <4>1, <2>5, <2>6
    <3>3. CASE i # n + 1 /\ j # n + 1
      <4>1. i \in 1..n /\ j \in 1..n
        BY <3>3, <2>5
      <4> QED BY <4>1, <2>2, <2>5 DEF IsInjective
    <3> QED BY <3>1, <3>2, <3>3
  <2>8. DOMAIN Front(a) = 1..(Len(a) - 1) /\ DOMAIN a = 1..Len(a)
    BY <1>4, <1>5
  <2>9. IsInjective(Front(a))
    BY <1>5, <2>2, <2>8 DEF IsInjective
  <2>10. Range(Front(a)) \cap Range(popped') = {}
    <3> SUFFICES ASSUME NEW i \in 1..(Len(a) - 1), NEW j \in 1..(n + 1), Front(a)[i] = popped'[j] PROVE FALSE
      BY <2>5, <2>8 DEF Range
    <3>1. i \in 1..Len(a) /\ i # Len(a) /\ Front(a)[i] = a[i]
      BY <1>5
    <3>2. CASE j = n + 1
      <4>1. a[i] = a[Len(a)] /\ Len(a) \in 1..Len(a)
        <5>1. Len(a) \in 1..Len(a)
          BY <1>5
        <5>2. popped'[j] = a[Len(a)]
          BY <3>2, <2>5
        <5> QED BY <3>1, <5>1, <5>2
      <4> QED BY <3>1, <4>1, <2>2, <2>8 DEF IsInjective
    <3>3. CASE j # n + 1
      <4>1. j \in 1..n
        BY <3>3, <2>5
      <4>2. a[i] \in Range(a)
        BY <3>1, <2>8 DEF Range
      <4>3. popped[j] \in Range(popped)
        BY <4>1, <2>5 DEF Range
      <4> QED BY <3>1, <4>1, <4>2, <4>3, <2>2, <2>5
    <3> QED BY <3>2, <3>3
  <2> QED BY <1>3, <1>6, <2>2, <2>7, <2>9, <2>10
<1>12. ArrayInv' /\ PopsOnce' /\ MergesKept'
  BY <1>11 DEF ArrayInv, PopsOnce, MergesKept
<1> QED BY <1>8, <1>10, <1>12 DEF JsonInv

\* The second half of ObjectMerge.
LEMMA ObjectMerges ==
  ASSUME JsonInv, NEW c \in JsonClients, ObjectMergeWrite(c)
  PROVE  JsonInv'
<1>1. JsonTyped /\ ReadInv /\ ArrayInv /\ PopsOnce /\ MergesKept
  BY DEF JsonInv
<1>2. PICK o : o = jc[c].read.obj \cup {jc[c].field}  OBVIOUS
<1>3. /\ jc[c].at = "merge" /\ doc # NoDoc /\ doc' = [doc EXCEPT !.obj = o]
      /\ jsonRace' = (jsonRace \/ jc[c].raced) /\ jc' = Written(c)
      /\ merged' = (IF jsonRace' THEN {} ELSE merged \cup {jc[c].field})
      /\ popped' = popped
  BY <1>2 DEF ObjectMergeWrite
<1>4. o \subseteq JsonFields /\ doc \in Docs
  BY <1>1, <1>2, <1>3 DEF ReadInv, Docs, JsonTyped
<1>5. doc' \in Docs /\ doc'.arr = doc.arr /\ doc'.obj = o
  BY <1>3, <1>4 DEF Docs
<1>6. jsonRace' \in BOOLEAN /\ (~jsonRace' => ~jsonRace /\ ~jc[c].raced)
  BY <1>3
<1>7. /\ jc' \in [JsonClients -> [at : {"idle", "pop", "merge"}, read : Docs \cup {NoDoc}, field : JsonFields \cup {NoDoc}, raced : BOOLEAN]]
      /\ ReadInv'
  BY <1>1, <1>3, WrittenIs
<1>8. JsonTyped'
  BY <1>1, <1>3, <1>5, <1>6, <1>7 DEF JsonTyped
<1>9. ASSUME ~jsonRace'
      PROVE  IsInjective(doc'.arr) /\ IsInjective(popped') /\ Range(doc'.arr) \cap Range(popped') = {} /\ merged' \subseteq doc'.obj
  <2>1. ~jsonRace /\ jc[c].read = doc
    BY <1>1, <1>3, <1>6, <1>9 DEF ReadInv
  <2>2. /\ IsInjective(doc.arr) /\ IsInjective(popped) /\ Range(doc.arr) \cap Range(popped) = {} /\ merged \subseteq doc.obj
    BY <1>1, <1>3, <2>1 DEF ArrayInv, PopsOnce, MergesKept
  <2>3. merged' = merged \cup {jc[c].field}
    BY <1>3, <1>9
  <2>4. merged' \subseteq o
    BY <1>2, <2>1, <2>2, <2>3
  <2> QED BY <1>3, <1>5, <2>2, <2>4
<1>10. ArrayInv' /\ PopsOnce' /\ MergesKept'
  BY <1>9 DEF ArrayInv, PopsOnce, MergesKept
<1> QED BY <1>7, <1>8, <1>10 DEF JsonInv

\* The second half fails.
LEMMA JsonFails ==
  ASSUME JsonInv, NEW c \in JsonClients, JsonWriteFails(c)
  PROVE  JsonInv'
<1>1. JsonTyped /\ ReadInv /\ ArrayInv /\ PopsOnce /\ MergesKept
  BY DEF JsonInv
<1>2. jc[c].at # "idle" /\ jc' = Written(c) /\ popped' = popped /\ merged' = merged
  BY DEF JsonWriteFails
<1>3. /\ jc' \in [JsonClients -> [at : {"idle", "pop", "merge"}, read : Docs \cup {NoDoc}, field : JsonFields \cup {NoDoc}, raced : BOOLEAN]]
      /\ ReadInv'
  BY <1>1, <1>2, WrittenIs
<1>4. CASE doc' = doc /\ jsonRace' = jsonRace
  BY <1>1, <1>2, <1>3, <1>4 DEF JsonInv, JsonTyped, ArrayInv, PopsOnce, MergesKept
<1>5. CASE /\ doc # NoDoc /\ jsonRace' = TRUE
           /\ doc' = IF jc[c].at = "pop" THEN [doc EXCEPT !.arr = Front(jc[c].read.arr)]
                     ELSE [doc EXCEPT !.obj = jc[c].read.obj \cup {jc[c].field}]
  <2>1. doc \in Docs /\ jc[c].read \in Docs /\ jc[c].at \in {"pop", "merge"}
    BY <1>1, <1>2, <1>5 DEF JsonTyped, ReadInv
  <2>2. doc' \in Docs
    <3>1. CASE jc[c].at = "pop"
      <4>1. PICK a : a = jc[c].read.arr  OBVIOUS
      <4>2. a \in Seq(Elements) /\ a # <<>>
        BY <4>1, <3>1, <2>1, <1>1 DEF ReadInv, Docs
      <4>3. Front(a) \in Seq(Elements)
        BY <4>2 DEF Front
      <4>4. doc' = [doc EXCEPT !.arr = Front(a)]
        BY <3>1, <4>1, <1>5
      <4> QED BY <2>1, <4>3, <4>4 DEF Docs
    <3>2. CASE jc[c].at # "pop"
      <4>1. PICK o : o = jc[c].read.obj \cup {jc[c].field}  OBVIOUS
      <4>2. o \subseteq JsonFields
        BY <4>1, <3>2, <2>1, <1>1 DEF ReadInv, Docs
      <4>3. doc' = [doc EXCEPT !.obj = o]
        BY <3>2, <4>1, <1>5
      <4> QED BY <2>1, <4>2, <4>3 DEF Docs
    <3> QED BY <3>1, <3>2
  <2>3. jsonRace' \in BOOLEAN /\ jsonRace'
    BY <1>5
  <2>4. JsonTyped'
    BY <1>1, <1>2, <1>3, <2>2, <2>3 DEF JsonTyped
  <2> QED BY <1>3, <2>3, <2>4 DEF JsonInv, ArrayInv, PopsOnce, MergesKept
<1> QED BY <1>4, <1>5 DEF JsonWriteFails

\* The whole document is set or deleted.
LEMMA JsonReplaces ==
  ASSUME JsonInv, NEW c \in JsonClients, JsonDelete(c) \/ JsonSet(c)
  PROVE  JsonInv'
<1>1. JsonTyped /\ ReadInv /\ ArrayInv /\ PopsOnce /\ MergesKept
  BY DEF JsonInv
<1>2. jc' = Written(c) /\ popped' = <<>> /\ merged' = {} /\ jsonRace' = jsonRace
  BY DEF JsonDelete, JsonSet
<1>3. /\ jc' \in [JsonClients -> [at : {"idle", "pop", "merge"}, read : Docs \cup {NoDoc}, field : JsonFields \cup {NoDoc}, raced : BOOLEAN]]
      /\ ReadInv'
  BY <1>1, <1>2, WrittenIs
<1>4. PICK a : a = SetToSeq(Elements)  OBVIOUS
<1>5. a \in Seq(Elements) /\ IsInjective(a)
  BY <1>4, ElementsOnce
<1>6. doc' = NoDoc \/ doc' = [arr |-> a, obj |-> {}]
  BY <1>4 DEF JsonDelete, JsonSet
<1>7. doc' # NoDoc => doc' \in Docs /\ doc'.arr = a
  BY <1>5, <1>6 DEF Docs
<1>8. JsonTyped'
  BY <1>1, <1>2, <1>3, <1>7 DEF JsonTyped
<1>9. ArrayInv' /\ PopsOnce' /\ MergesKept'
  BY <1>2, <1>5, <1>7 DEF ArrayInv, PopsOnce, MergesKept, IsInjective, Range
<1> QED BY <1>3, <1>8, <1>9 DEF JsonInv

\* Every step on the document keeps the invariant.
LEMMA JsonKeeps == JsonInv /\ [JsonNext]_jsonVars => JsonInv'
<1> SUFFICES ASSUME JsonInv, [JsonNext]_jsonVars PROVE JsonInv'  OBVIOUS
<1>1. CASE UNCHANGED jsonVars
  BY <1>1 DEF jsonVars, JsonInv, JsonTyped, ReadInv, ArrayInv, PopsOnce, MergesKept
<1>2. ASSUME NEW c \in JsonClients, ArrayPopRead(c) \/ \E f \in JsonFields : ObjectMergeRead(c, f) PROVE JsonInv'
  <2>1. CASE ArrayPopRead(c)
    BY <2>1, JsonReads DEF ArrayPopRead
  <2>2. CASE \E f \in JsonFields : ObjectMergeRead(c, f)
    BY <2>2, JsonReads DEF ObjectMergeRead
  <2> QED BY <1>2, <2>1, <2>2
<1> QED BY <1>1, <1>2, ArrayPops, ObjectMerges, JsonFails, JsonReplaces DEF JsonNext

(* kvx/mapping. *)

\* The store has the value of every field whose storage name is its own.
MapInv ==
  /\ DOMAIN value = FieldSet /\ stored = [n \in DOMAIN stored |-> stored[n]]
  /\ DOMAIN stored # {} => \A f \in Fields : ~Shared(f) =>
       StorageName(f) \in DOMAIN stored /\ stored[StorageName(f)] = value[f]
  /\ CodecRoundTrip

\* Nothing is stored before the first encoding.
LEMMA MappingStarts == MappingInit => MapInv
<1> SUFFICES ASSUME MappingInit PROVE MapInv  OBVIOUS
<1>1. DOMAIN value = FieldSet /\ DOMAIN stored = {} /\ stored = [n \in DOMAIN stored |-> stored[n]] /\ loaded = NoField
  BY DEF MappingInit
<1> QED BY <1>1 DEF MapInv, CodecRoundTrip

\* Encoding, decoding and new values keep what is stored readable.
LEMMA MappingKeeps == MapInv /\ [MappingNext]_mapVars => MapInv'
<1> SUFFICES ASSUME MapInv, [MappingNext]_mapVars PROVE MapInv'  OBVIOUS
<1>1. tags' = tags
  BY DEF MappingNext, MapSave, MapLoad, MapUpdateField, mapVars
<1>2. Fields' = Fields
  BY <1>1 DEF Fields
<1>3. \A f : StorageName(f)' = StorageName(f)
  BY <1>1 DEF StorageName
<1>4. \A f : Shared(f)' <=> Shared(f)
  BY <1>1, <1>2 DEF Shared, StorageName
<1>5. ASSUME NEW v \in [FieldSet -> FieldValues], MapSave(v) PROVE MapInv'
  <2>1. PICK h \in Encode(v) : stored' = [n \in StorageNames |-> h[n]]
    BY <1>5 DEF MapSave
  <2>2. value' = v /\ loaded' = NoField
    BY <1>5 DEF MapSave
  <2>3. ASSUME NEW f \in Fields, ~Shared(f) PROVE StorageName(f) \in StorageNames /\ h[StorageName(f)] = v[f]
    <3>1. StorageName(f) \in StorageNames
      BY DEF StorageNames
    <3>2. PICK g \in Fields : StorageName(g) = StorageName(f) /\ h[StorageName(f)] = v[g]
      BY <3>1 DEF Encode
    <3>3. g = f
      BY <3>2, <2>3 DEF Shared
    <3> QED BY <3>1, <3>2, <3>3
  <2>4. DOMAIN stored' = StorageNames /\ \A n \in StorageNames : stored'[n] = h[n]
    BY <2>1
  <2>5. stored' = [n \in DOMAIN stored' |-> stored'[n]]
    BY <2>1
  <2>6. \A f \in Fields : ~Shared(f) => StorageName(f) \in DOMAIN stored' /\ stored'[StorageName(f)] = value'[f]
    BY <2>2, <2>3, <2>4
  <2>7. \A f \in Fields' : ~Shared(f)' => StorageName(f)' \in DOMAIN stored' /\ stored'[StorageName(f)'] = value'[f]
    BY <2>6, <1>2, <1>3, <1>4
  <2> QED BY <2>2, <2>5, <2>7 DEF MapInv, CodecRoundTrip
<1>6. ASSUME MapLoad PROVE MapInv'
  <2>1. stored' = stored /\ value' = value /\ stored # [n \in {} |-> 0]
    BY <1>6 DEF MapLoad
  <2>2. DOMAIN stored # {}
    BY <2>1 DEF MapInv
  <2>3. PICK pick \in { p \in [StorageNames -> Fields] : \A n \in StorageNames : StorageName(p[n]) = n } :
          loaded' = [f \in FieldSet |-> IF f \in Range(pick) THEN DecodeField(f) ELSE 0]
    BY <1>6 DEF MapLoad
  <2>4. ASSUME NEW f \in Fields, ~Shared(f) PROVE loaded'[f] = value[f]
    <3>1. StorageName(f) \in StorageNames
      BY DEF StorageNames
    <3>2. pick[StorageName(f)] \in Fields /\ StorageName(pick[StorageName(f)]) = StorageName(f)
      BY <3>1, <2>3
    <3>3. pick[StorageName(f)] = f
      BY <3>2, <2>4 DEF Shared
    <3>4. f \in Range(pick) /\ f \in FieldSet
      BY <3>1, <3>3, <2>3 DEF Range, Fields
    <3>5. loaded'[f] = DecodeField(f)
      BY <3>4, <2>3
    <3> QED BY <3>5, <2>2, <2>4 DEF MapInv, DecodeField
  <2>5. \A f \in Fields' : ~Shared(f)' => loaded'[f] = value'[f]
    BY <2>1, <2>4, <1>2, <1>4
  <2>6. CodecRoundTrip'
    BY <2>5 DEF CodecRoundTrip
  <2>7. \A f \in Fields' : ~Shared(f)' => StorageName(f)' \in DOMAIN stored' /\ stored'[StorageName(f)'] = value'[f]
    BY <2>1, <2>2, <1>2, <1>3, <1>4 DEF MapInv
  <2> QED BY <2>1, <2>6, <2>7 DEF MapInv
<1>7. ASSUME NEW n, NEW x, MapUpdateField(n, x) PROVE MapInv'
  <2>1. DOMAIN stored # {} /\ loaded' = NoField
    BY <1>7 DEF MapUpdateField
  <2>2. PICK f \in Resolve(n) :
          /\ stored' = [m \in DOMAIN stored \cup {StorageName(f)} |-> IF m = StorageName(f) THEN x ELSE stored[m]]
          /\ value' = [value EXCEPT ![f] = x]
    BY <1>7 DEF MapUpdateField
  <2>3. f \in Fields /\ f \in FieldSet
    BY DEF Resolve, Fields
  <2>4. DOMAIN value' = FieldSet /\ value'[f] = x /\ \A g \in FieldSet : g # f => value'[g] = value[g]
    BY <2>2, <2>3 DEF MapInv
  <2>5. PICK s : s = StorageName(f)  OBVIOUS
  <2>6. /\ DOMAIN stored' = DOMAIN stored \cup {s} /\ stored'[s] = x
        /\ \A m \in DOMAIN stored : m # s => stored'[m] = stored[m]
        /\ stored' = [m \in DOMAIN stored' |-> stored'[m]]
    BY <2>2, <2>5
  <2>7. ASSUME NEW g \in Fields, ~Shared(g) PROVE StorageName(g) \in DOMAIN stored' /\ stored'[StorageName(g)] = value'[g]
    <3>1. CASE g = f
      BY <3>1, <2>4, <2>5, <2>6
    <3>2. CASE g # f
      <4>1. StorageName(g) # s
        BY <3>2, <2>3, <2>5, <2>7 DEF Shared
      <4>2. StorageName(g) \in DOMAIN stored /\ stored[StorageName(g)] = value[g]
        BY <2>1, <2>7 DEF MapInv
      <4>3. value'[g] = value[g]
        BY <3>2, <2>4 DEF Fields
      <4> QED BY <4>1, <4>2, <4>3, <2>6
    <3> QED BY <3>1, <3>2
  <2>8. \A g \in Fields' : ~Shared(g)' => StorageName(g)' \in DOMAIN stored' /\ stored'[StorageName(g)'] = value'[g]
    BY <2>7, <1>2, <1>3, <1>4
  <2> QED BY <2>1, <2>4, <2>6, <2>8 DEF MapInv, CodecRoundTrip
<1>8. CASE UNCHANGED mapVars
  <2>1. tags' = tags /\ value' = value /\ stored' = stored /\ loaded' = loaded
    BY <1>8 DEF mapVars
  <2>2. CodecRoundTrip'
    BY <2>1, <1>2, <1>4 DEF MapInv, CodecRoundTrip
  <2>3. DOMAIN stored' # {} => \A f \in Fields' : ~Shared(f)' => StorageName(f)' \in DOMAIN stored' /\ stored'[StorageName(f)'] = value'[f]
    BY <2>1, <1>2, <1>3, <1>4 DEF MapInv
  <2> QED BY <2>1, <2>2, <2>3 DEF MapInv
<1> QED BY <1>5, <1>6, <1>7, <1>8 DEF MappingNext

\* A name that no other field carries resolves to the field, whatever the tags.
LEMMA ResolvesAlways == ResolvesOwn
<1> SUFFICES ASSUME NEW f \in Fields,
                    NEW n \in {StorageName(f), f} \cup (IF f \in IndexFields THEN {IndexNameOrDefault(f)} ELSE {}),
                    \A g \in Fields \ {f} : g # n /\ StorageName(g) # n /\ IndexNameOrDefault(g) # n
             PROVE  Resolve(n) = {f}
  BY DEF ResolvesOwn
<1>1. n = f \/ StorageName(f) = n \/ IndexNameOrDefault(f) = n
  OBVIOUS
<1> QED BY <1>1 DEF Resolve

\* JSON module, mapping and codec, for every set of clients, elements and fields and every
\* assignment of tags: a document's elements are popped once and merged fields stay unless two
\* calls overlap, a field is decoded from what it was encoded to, and a name that is one
\* field's alone resolves to it.
THEOREM DocumentsExactAlways == Spec => []DocumentsExact
<1> DEFINE MapOrEmpty == IF part = "mapping" THEN MapInv ELSE CodecRoundTrip
<1>1. Init => JsonInv /\ MapOrEmpty
  <2> SUFFICES ASSUME Init PROVE JsonInv /\ MapOrEmpty  OBVIOUS
  <2>1. JsonInv
    BY JsonStarts DEF Init
  <2>2. part = "mapping" => MapInv
    BY MappingStarts DEF Init
  <2>3. part # "mapping" => loaded = NoField
    BY DEF Init, EmptyMapping
  <2> QED BY <2>1, <2>2, <2>3 DEF CodecRoundTrip
<1>2. JsonInv /\ MapOrEmpty /\ [Next]_vars => (JsonInv /\ MapOrEmpty)'
  <2> SUFFICES ASSUME JsonInv, MapOrEmpty, [Next]_vars PROVE (JsonInv /\ MapOrEmpty)'  OBVIOUS
  <2>1. part' = part /\ [JsonNext]_jsonVars
    BY DEF Next, vars
  <2>2. JsonInv'
    BY <2>1, JsonKeeps
  <2>3. CASE part = "mapping"
    <3>1. [MappingNext]_mapVars
      BY DEF Next, vars
    <3> QED BY <2>1, <2>2, <2>3, <3>1, MappingKeeps
  <2>4. CASE part # "mapping"
    <3>1. UNCHANGED mapVars
      BY <2>4 DEF Next, vars
    <3>2. tags' = tags /\ value' = value /\ loaded' = loaded
      BY <3>1 DEF mapVars
    <3>3. CodecRoundTrip'
      BY <2>4, <3>2 DEF CodecRoundTrip, Fields, Shared, StorageName
    <3> QED BY <2>1, <2>2, <2>4, <3>3
  <2> QED BY <2>3, <2>4
<1>3. JsonInv /\ MapOrEmpty => DocumentsExact
  BY ResolvesAlways DEF JsonInv, MapInv, DocumentsExact
<1> HIDE DEF MapOrEmpty
<1> QED BY <1>1, <1>2, <1>3, PTL DEF Spec

-----------------------------------------------------------------------------
(* kvx/repository. *)

Stores == [entity : [EntityIds -> Values \cup {Absent}], ttl : SUBSET EntityIds, entries : SUBSET (Values \X EntityIds)]

\* The commands of a write on i.
Command(i) ==
  { Cmd(do, <<i, v>>) : do \in {"put", "field"}, v \in Values }
  \cup { Cmd(do, i) : do \in {"expire", "drop"} }
  \cup { Cmd(do, <<v, i>>) : do \in {"del", "set"}, v \in Values }

EntriesOf(s, i) == { e \in s.entries : e[2] = i }
Args(c, do) == { c[k].arg : k \in { l \in DOMAIN c : c[l].do = do } }

\* The value the entity has when commands c are done.
Target(s, c, i) ==
  IF c = <<>> THEN s.entity[i]
  ELSE IF c[1].do \in {"put", "field"} THEN c[1].arg[2]
  ELSE IF c[1].do = "drop" THEN Absent ELSE s.entity[i]

\* The entity comes first in a write, and no index entry comes twice.
Shaped(c) ==
  /\ \A k \in DOMAIN c : k # 1 => c[k].do \notin {"put", "field"}
  /\ \A k, l \in DOMAIN c : c[k].do = "drop" /\ l < k => c[l].do = "drop"
  /\ \A k, l \in DOMAIN c : c[k].do \in {"del", "set"} /\ c[l].do \in {"del", "set"} /\ c[k].arg = c[l].arg => k = l

Exact(s, i) == EntriesOf(s, i) = EntityIndexEntries(s.entity[i], i)

\* What is left of a write makes the index of the entity exact.
Completes(s, c, i) ==
  /\ Shaped(c)
  /\ c # <<>> => (c[1].do = "field" => s.entity[i] # Absent)
  /\ (EntriesOf(s, i) \ Args(c, "del")) \cup Args(c, "set") = EntityIndexEntries(Target(s, c, i), i)

WriterTyped(r) ==
  /\ r = [todo |-> r.todo, id |-> r.id, cmds |-> r.cmds]
  /\ r.todo \in Seq(Item) /\ r.id \in EntityIds \cup {Absent}
  /\ r.cmds # <<>> => r.id \in EntityIds
  /\ r.cmds \in Seq(Command(r.id)) /\ Len(r.cmds) <= 4

RepoTyped ==
  /\ RepoStored \in Stores /\ repo \in [kind : {"hash", "json"}, script : BOOLEAN]
  /\ DOMAIN writer = Writers /\ writer = [w \in Writers |-> writer[w]]
  /\ \A w \in Writers : WriterTyped(writer[w])

\* Outside dirt a write is alone on its entity and makes the index exact; where a script
\* does all of it, the index is exact before as well.
EntityInv ==
  \A i \in EntityIds : i \notin dirt =>
    /\ \A w, u \in Busy(i) : w = u
    /\ \A w \in Busy(i) : Completes(RepoStored, writer[w].cmds, i)
    /\ Busy(i) = {} \/ repo.script => Exact(RepoStored, i)

RepoInv == RepoTyped /\ EntityInv

\* The forms a command has.
LEMMA CommandIs ==
  ASSUME NEW i, NEW x \in Command(i)
  PROVE  /\ \/ \E do \in {"put", "field"}, v \in Values : x = Cmd(do, <<i, v>>)
            \/ \E do \in {"expire", "drop"} : x = Cmd(do, i)
            \/ \E do \in {"del", "set"}, v \in Values : x = Cmd(do, <<v, i>>)
         /\ x.do \in {"put", "field", "expire", "drop", "del", "set"}
<1>1. \/ x \in { Cmd(do, <<i, v>>) : do \in {"put", "field"}, v \in Values }
      \/ x \in { Cmd(do, i) : do \in {"expire", "drop"} }
      \/ x \in { Cmd(do, <<v, i>>) : do \in {"del", "set"}, v \in Values }
  BY DEF Command
<1>2. \/ \E do \in {"put", "field"}, v \in Values : x = Cmd(do, <<i, v>>)
      \/ \E do \in {"expire", "drop"} : x = Cmd(do, i)
      \/ \E do \in {"del", "set"}, v \in Values : x = Cmd(do, <<v, i>>)
  BY <1>1
<1>3. x.do \in {"put", "field", "expire", "drop", "del", "set"}
  BY <1>2 DEF Cmd
<1> QED BY <1>2, <1>3

\* What one command does to the entity of its write and to others.
LEMMA EffectIs ==
  ASSUME NEW s \in Stores, NEW i \in EntityIds, NEW x \in Command(i)
  PROVE  /\ Effect(s, x) \in Stores
         /\ \A j \in EntityIds : j # i => Effect(s, x).entity[j] = s.entity[j] /\ EntriesOf(Effect(s, x), j) = EntriesOf(s, j)
         /\ x.do \in {"put", "field"} =>
              /\ Effect(s, x).entries = s.entries
              /\ x.arg[2] \in Values
              /\ x.do = "put" \/ s.entity[i] # Absent => Effect(s, x).entity[i] = x.arg[2]
         /\ x.do = "expire" => Effect(s, x).entries = s.entries /\ Effect(s, x).entity[i] = s.entity[i]
         /\ x.do = "drop" => Effect(s, x).entries = s.entries /\ Effect(s, x).entity[i] = Absent
         /\ x.do = "del" => x.arg[2] = i /\ Effect(s, x).entries = s.entries \ {x.arg} /\ Effect(s, x).entity[i] = s.entity[i]
         /\ x.do = "set" => x.arg[2] = i /\ Effect(s, x).entries = s.entries \cup {x.arg} /\ Effect(s, x).entity[i] = s.entity[i]
<1>0. /\ s.entity \in [EntityIds -> Values \cup {Absent}] /\ s.ttl \in SUBSET EntityIds /\ s.entries \in SUBSET (Values \X EntityIds)
  BY DEF Stores
<1>1. CASE \E do \in {"put", "field"}, v \in Values : x = Cmd(do, <<i, v>>)
  <2>1. PICK do \in {"put", "field"}, v \in Values : x = Cmd(do, <<i, v>>)
    BY <1>1
  <2>2. x.do = do /\ x.arg = <<i, v>> /\ x.arg[1] = i /\ x.arg[2] = v
    BY <2>1 DEF Cmd
  <2>3. PICK t : t = [s EXCEPT !.entity[i] = v]  OBVIOUS
  <2>4. PICK g : g = [s.entity EXCEPT ![i] = v]  OBVIOUS
  <2>5. t = [s EXCEPT !.entity = g]
    BY <2>3, <2>4
  <2>6. g \in [EntityIds -> Values \cup {Absent}] /\ g[i] = v /\ \A j \in EntityIds : j # i => g[j] = s.entity[j]
    BY <1>0, <2>4
  <2>7. t \in Stores /\ t.entity = g /\ t.entries = s.entries
    BY <2>5, <2>6 DEF Stores
  <2>8. Effect(s, x) = t \/ (Effect(s, x) = s /\ x.do = "field" /\ s.entity[i] = Absent)
    BY <2>2, <2>3 DEF Effect
  <2> QED BY <2>2, <2>6, <2>7, <2>8 DEF EntriesOf
<1>2. CASE x = Cmd("expire", i)
  <2>1. x.do = "expire" /\ x.arg = i
    BY <1>2 DEF Cmd
  <2>2. PICK T : T = s.ttl \cup {i}  OBVIOUS
  <2>3. Effect(s, x) = [s EXCEPT !.ttl = T]
    BY <2>1, <2>2 DEF Effect
  <2>4. Effect(s, x) \in Stores /\ Effect(s, x).entity = s.entity /\ Effect(s, x).entries = s.entries
    BY <2>2, <2>3 DEF Stores
  <2> QED BY <2>1, <2>4 DEF EntriesOf
<1>3. CASE x = Cmd("drop", i)
  <2>1. x.do = "drop" /\ x.arg = i
    BY <1>3 DEF Cmd
  <2>2. PICK T : T = s.ttl \ {i}  OBVIOUS
  <2>3. PICK g : g = [s.entity EXCEPT ![i] = Absent]  OBVIOUS
  <2>4. Effect(s, x) = [s EXCEPT !.entity[i] = Absent, !.ttl = @ \ {i}]
    BY <2>1 DEF Effect
  <2>5. Effect(s, x) = [s EXCEPT !.entity = g, !.ttl = T]
    BY <2>2, <2>3, <2>4
  <2>6. g \in [EntityIds -> Values \cup {Absent}] /\ g[i] = Absent /\ \A j \in EntityIds : j # i => g[j] = s.entity[j]
    BY <1>0, <2>3
  <2>7. Effect(s, x) \in Stores /\ Effect(s, x).entity = g /\ Effect(s, x).entries = s.entries
    BY <2>2, <2>5, <2>6 DEF Stores
  <2> QED BY <2>1, <2>6, <2>7 DEF EntriesOf
<1>4. CASE \E do \in {"del", "set"}, v \in Values : x = Cmd(do, <<v, i>>)
  <2>1. PICK do \in {"del", "set"}, v \in Values : x = Cmd(do, <<v, i>>)
    BY <1>4
  <2>2. x.do = do /\ x.arg = <<v, i>> /\ x.arg[2] = i
    BY <2>1 DEF Cmd
  <2>3. PICK E : E = IF do = "del" THEN s.entries \ {x.arg} ELSE s.entries \cup {x.arg}  OBVIOUS
  <2>4. Effect(s, x) = [s EXCEPT !.entries = E]
    BY <2>2, <2>3 DEF Effect
  <2>5. E \in SUBSET (Values \X EntityIds)
    BY <1>0, <2>2, <2>3
  <2>6. Effect(s, x) \in Stores /\ Effect(s, x).entity = s.entity /\ Effect(s, x).entries = E
    BY <2>4, <2>5 DEF Stores
  <2>7. \A j \in EntityIds : j # i => EntriesOf(Effect(s, x), j) = EntriesOf(s, j)
    BY <2>2, <2>3, <2>6 DEF EntriesOf
  <2> QED BY <2>2, <2>3, <2>6, <2>7
<1>5. (\E do \in {"put", "field"}, v \in Values : x = Cmd(do, <<i, v>>))
      \/ (\E do \in {"expire", "drop"} : x = Cmd(do, i))
      \/ (\E do \in {"del", "set"}, v \in Values : x = Cmd(do, <<v, i>>))
  BY CommandIs
<1>6. CASE \E do \in {"expire", "drop"} : x = Cmd(do, i)
  BY <1>2, <1>3, <1>6
<1> QED BY <1>1, <1>4, <1>5, <1>6

\* One command of a write, the first.
LEMMA EffectStep ==
  ASSUME NEW s \in Stores, NEW i \in EntityIds, NEW c \in Seq(Command(i)), c # <<>>, Completes(s, c, i)
  PROVE  Completes(Effect(s, c[1]), Tail(c), i)
<1> DEFINE x == c[1]
           t == Tail(c)
           r == Effect(s, c[1])
<1>1. /\ Len(c) \in Nat /\ Len(c) > 0 /\ DOMAIN c = 1..Len(c) /\ x \in Command(i) /\ 1 \in DOMAIN c
      /\ DOMAIN t = 1..(Len(c) - 1) /\ t \in Seq(Command(i))
      /\ \A k \in DOMAIN t : k + 1 \in DOMAIN c /\ t[k] = c[k + 1] /\ k + 1 # 1
  OBVIOUS
<1>2. Shaped(c) /\ (x.do = "field" => s.entity[i] # Absent)
      /\ (EntriesOf(s, i) \ Args(c, "del")) \cup Args(c, "set") = EntityIndexEntries(Target(s, c, i), i)
  BY DEF Completes
<1>3. Shaped(t)
  <2>1. ASSUME NEW k \in DOMAIN t PROVE t[k].do \notin {"put", "field"}
    BY <1>1, <1>2 DEF Shaped
  <2>2. ASSUME NEW k \in DOMAIN t, NEW l \in DOMAIN t, t[k].do \in {"del", "set"}, t[l].do \in {"del", "set"}, t[k].arg = t[l].arg
        PROVE  k = l
    <3>1. k + 1 = l + 1
      BY <1>1, <1>2, <2>2 DEF Shaped
    <3> QED BY <3>1, <1>1
  <2>3. ASSUME NEW k \in DOMAIN t, NEW l \in DOMAIN t, t[k].do = "drop", l < k PROVE t[l].do = "drop"
    <3>1. l + 1 < k + 1
      BY <1>1, <2>3
    <3> QED BY <3>1, <2>3, <1>1, <1>2 DEF Shaped
  <2> QED BY <2>1, <2>2, <2>3 DEF Shaped
<1>4. \A k \in DOMAIN t : t[k].do = "drop" => x.do = "drop"
  <2> SUFFICES ASSUME NEW k \in DOMAIN t, t[k].do = "drop" PROVE x.do = "drop"  OBVIOUS
  <2>1. 1 < k + 1
    BY <1>1
  <2> QED BY <2>1, <1>1, <1>2 DEF Shaped
<1>5. \A do : Args(c, do) = Args(t, do) \cup (IF x.do = do THEN {x.arg} ELSE {})
  <2> SUFFICES ASSUME NEW do PROVE Args(c, do) = Args(t, do) \cup (IF x.do = do THEN {x.arg} ELSE {})  OBVIOUS
  <2>1. ASSUME NEW k \in DOMAIN c PROVE k = 1 \/ (k - 1 \in DOMAIN t /\ t[k - 1] = c[k])
    <3>1. CASE k # 1
      <4>1. k - 1 \in DOMAIN t /\ (k - 1) + 1 = k
        BY <3>1, <1>1
      <4> QED BY <4>1, <1>1
    <3> QED BY <3>1
  <2>2. ASSUME NEW a \in Args(c, do) PROVE a \in Args(t, do) \cup (IF x.do = do THEN {x.arg} ELSE {})
    <3>1. PICK k \in DOMAIN c : c[k].do = do /\ a = c[k].arg
      BY <2>2 DEF Args
    <3> QED BY <2>1, <3>1 DEF Args
  <2>3. ASSUME NEW a \in Args(t, do) PROVE a \in Args(c, do)
    <3>1. PICK k \in DOMAIN t : t[k].do = do /\ a = t[k].arg
      BY <2>3 DEF Args
    <3> QED BY <1>1, <3>1 DEF Args
  <2>4. x.do = do => x.arg \in Args(c, do)
    BY <1>1 DEF Args
  <2> QED BY <2>2, <2>3, <2>4
<1>6. x.do \in {"del", "set"} => x.arg \notin Args(t, "del") /\ x.arg \notin Args(t, "set")
  <2> SUFFICES ASSUME x.do \in {"del", "set"}, NEW k \in DOMAIN t, t[k].do \in {"del", "set"}, t[k].arg = x.arg PROVE FALSE
    BY DEF Args
  <2> QED BY <1>1, <1>2 DEF Shaped
<1>7. Target(r, t, i) = IF x.do = "drop" THEN Absent ELSE r.entity[i]
  <2>1. CASE t = <<>>
    BY <2>1, EffectIs, <1>1 DEF Target
  <2>2. CASE t # <<>>
    <3>1. 1 \in DOMAIN t
      BY <2>2, <1>1
    <3>2. t[1].do \notin {"put", "field"}
      BY <3>1, <1>1, <1>2 DEF Shaped
    <3>3. t[1].do = "drop" => x.do = "drop"
      BY <3>1, <1>4
    <3>4. Target(r, t, i) = IF t[1].do = "drop" THEN Absent ELSE r.entity[i]
      BY <2>2, <3>2 DEF Target
    <3>5. x.do = "drop" => r.entity[i] = Absent
      BY <1>1, EffectIs
    <3> QED BY <3>3, <3>4, <3>5
  <2> QED BY <2>1, <2>2
<1>8. Target(s, c, i) = IF x.do \in {"put", "field"} THEN x.arg[2] ELSE IF x.do = "drop" THEN Absent ELSE s.entity[i]
  BY DEF Target
<1>9. Target(r, t, i) = Target(s, c, i)
  <2>1. x.do \in {"put", "field", "expire", "drop", "del", "set"}
    BY <1>1, CommandIs
  <2> QED BY <2>1, <1>1, <1>2, <1>7, <1>8, EffectIs
<1>10. (EntriesOf(r, i) \ Args(t, "del")) \cup Args(t, "set") = (EntriesOf(s, i) \ Args(c, "del")) \cup Args(c, "set")
  <2>1. CASE x.do = "del"
    <3>1. EntriesOf(r, i) = EntriesOf(s, i) \ {x.arg}
      BY <2>1, <1>1, EffectIs DEF EntriesOf
    <3>2. Args(c, "del") = Args(t, "del") \cup {x.arg} /\ Args(c, "set") = Args(t, "set")
      BY <2>1, <1>5
    <3> QED BY <3>1, <3>2
  <2>2. CASE x.do = "set"
    <3>1. EntriesOf(r, i) = EntriesOf(s, i) \cup {x.arg}
      BY <2>2, <1>1, EffectIs DEF EntriesOf
    <3>2. Args(c, "set") = Args(t, "set") \cup {x.arg} /\ Args(c, "del") = Args(t, "del")
      BY <2>2, <1>5
    <3>3. x.arg \notin Args(t, "del")
      BY <2>2, <1>6
    <3> QED BY <3>1, <3>2, <3>3
  <2>3. CASE x.do \notin {"del", "set"}
    <3>1. x.do \in {"put", "field", "expire", "drop"}
      BY <2>3, <1>1, CommandIs
    <3>2. EntriesOf(r, i) = EntriesOf(s, i)
      BY <3>1, <1>1, EffectIs DEF EntriesOf
    <3>3. Args(c, "set") = Args(t, "set") /\ Args(c, "del") = Args(t, "del")
      BY <2>3, <1>5
    <3> QED BY <3>2, <3>3
  <2> QED BY <2>1, <2>2, <2>3
<1>11. t # <<>> => (t[1].do = "field" => r.entity[i] # Absent)
  BY <1>1, <1>2 DEF Shaped
<1> QED BY <1>2, <1>3, <1>9, <1>10, <1>11 DEF Completes

\* Up to four commands, one after the other.
LEMMA AppliedChain ==
  ASSUME NEW c, NEW L \in 0..4, L = Len(c)
  PROVE  \E f : /\ f[0] = RepoStored /\ \A n \in 1..L : f[n] = Effect(f[n - 1], c[n])
                /\ Applied(c) = f[L]
<1> DEFINE Def(h) == [n \in 0..L |-> IF n = 0 THEN RepoStored ELSE Effect(h[n - 1], c[n])]
<1>1. PICK s0 : s0 = RepoStored  OBVIOUS
<1>2. PICK s1 : s1 = Effect(s0, c[1])  OBVIOUS
<1>3. PICK s2 : s2 = Effect(s1, c[2])  OBVIOUS
<1>4. PICK s3 : s3 = Effect(s2, c[3])  OBVIOUS
<1>5. PICK s4 : s4 = Effect(s3, c[4])  OBVIOUS
<1>6. PICK g : g = [n \in 0..L |-> IF n = 0 THEN s0 ELSE IF n = 1 THEN s1 ELSE IF n = 2 THEN s2 ELSE IF n = 3 THEN s3 ELSE s4]
  OBVIOUS
<1>7. g = Def(g)
  <2> SUFFICES ASSUME NEW n \in 0..L PROVE g[n] = IF n = 0 THEN RepoStored ELSE Effect(g[n - 1], c[n])
    BY <1>6
  <2>1. CASE n = 0
    BY <2>1, <1>1, <1>6
  <2>2. CASE n = 1
    <3>1. g[n] = s1 /\ n - 1 = 0 /\ g[0] = s0
      BY <2>2, <1>6
    <3> QED BY <2>2, <3>1, <1>2
  <2>3. CASE n = 2
    <3>1. g[n] = s2 /\ n - 1 = 1 /\ g[1] = s1
      BY <2>3, <1>6
    <3> QED BY <2>3, <3>1, <1>3
  <2>4. CASE n = 3
    <3>1. g[n] = s3 /\ n - 1 = 2 /\ g[2] = s2
      BY <2>4, <1>6
    <3> QED BY <2>4, <3>1, <1>4
  <2>5. CASE n = 4
    <3>1. g[n] = s4 /\ n - 1 = 3 /\ g[3] = s3
      BY <2>5, <1>6
    <3> QED BY <2>5, <3>1, <1>5
  <2> QED BY <2>1, <2>2, <2>3, <2>4, <2>5
<1>8. PICK f : f = CHOOSE h : h = Def(h)  OBVIOUS
<1>9. f = Def(f)
  BY <1>7, <1>8, Zenon
<1>10. Applied(c) = f[L]
  BY <1>8 DEF Applied
<1>11. f[0] = RepoStored
  BY <1>9
<1>12. ASSUME NEW n \in 1..L PROVE f[n] = Effect(f[n - 1], c[n])
  <2>1. n \in 0..L /\ n # 0
    OBVIOUS
  <2> QED BY <2>1, <1>9
<1> QED BY <1>10, <1>11, <1>12

\* What follows the first n elements of a sequence.
LEMMA RestIs ==
  ASSUME NEW S, NEW c \in Seq(S), NEW m \in 1..Len(c)
  PROVE  /\ SubSeq(c, m, Len(c)) \in Seq(S) /\ SubSeq(c, m, Len(c)) # <<>>
         /\ SubSeq(c, m, Len(c))[1] = c[m] /\ Tail(SubSeq(c, m, Len(c))) = SubSeq(c, m + 1, Len(c))
<1>1. PICK L : L = Len(c)  OBVIOUS
<1>2. L \in Nat /\ m \in Int /\ L \in Int /\ m <= L /\ L \in m..L
  BY <1>1
<1>3. PICK d : d = SubSeq(c, m, L)  OBVIOUS
<1>4. \A k \in m..L : c[k] \in S
  BY <1>1, <1>2
<1>5. d \in Seq(S) /\ Len(d) = IF m <= L THEN L - m + 1 ELSE 0
  BY <1>2, <1>3, <1>4, SubSeqProperties
<1>6. d # <<>>
  <2>1. L - m + 1 > 0
    BY <1>2
  <2>2. Len(d) > 0
    BY <1>2, <1>5, <2>1
  <2> QED BY <2>2
<1>7. Head(d) = c[m] /\ Tail(d) = SubSeq(c, m + 1, L)
  BY <1>1, <1>2, <1>3, HeadTailOfSubSeq
<1>8. Head(d) = d[1]
  BY <1>5, <1>6
<1> QED BY <1>1, <1>3, <1>5, <1>6, <1>7, <1>8

\* What is done when all commands of a write are.
LEMMA AppliedIs ==
  ASSUME NEW i \in EntityIds, NEW c \in Seq(Command(i)), Len(c) <= 4, RepoStored \in Stores
  PROVE  /\ Applied(c) \in Stores
         /\ \A j \in EntityIds : j # i => Applied(c).entity[j] = entity[j] /\ EntriesOf(Applied(c), j) = EntriesOf(RepoStored, j)
         /\ Completes(RepoStored, c, i) => Completes(Applied(c), <<>>, i)
<1> DEFINE L == Len(c)
<1>1. L \in 0..4
  <2>1. PICK n : n = Len(c)  OBVIOUS
  <2>2. n \in Nat /\ n <= 4
    BY <2>1
  <2>3. n \in 0..4
    BY <2>2
  <2> QED BY <2>1, <2>3
<1>2. PICK f : /\ f[0] = RepoStored /\ \A n \in 1..L : f[n] = Effect(f[n - 1], c[n])
               /\ Applied(c) = f[L]
  BY <1>1, AppliedChain
<1> DEFINE Q(n) == /\ f[n] \in Stores
                   /\ \A j \in EntityIds : j # i => f[n].entity[j] = entity[j] /\ EntriesOf(f[n], j) = EntriesOf(RepoStored, j)
                   /\ Completes(RepoStored, c, i) => Completes(f[n], SubSeq(c, n + 1, L), i)
<1>3. Q(0)
  <2>1. SubSeq(c, 0 + 1, L) = c
    OBVIOUS
  <2>2. RepoStored.entity = entity
    BY DEF RepoStored
  <2> QED BY <1>2, <2>1, <2>2
<1>4. ASSUME NEW n \in 0..L, NEW m \in 0..L, m = n + 1, Q(n) PROVE Q(m)
  <2>1. n < L /\ m - 1 = n /\ m \in 1..L /\ n \in Nat /\ L \in Nat
    BY <1>4, <1>1
  <2>2. f[m] = Effect(f[n], c[m]) /\ c[m] \in Command(i)
    BY <1>2, <2>1
  <2>3. PICK d : d = SubSeq(c, n + 1, L)  OBVIOUS
  <2>4. d \in Seq(Command(i)) /\ d # <<>> /\ d[1] = c[m] /\ Tail(d) = SubSeq(c, m + 1, L)
    <3>1. m \in 1..L /\ d = SubSeq(c, m, L)
      BY <2>1, <2>3, <1>4
    <3> QED BY <3>1, RestIs
  <2>5. f[m] \in Stores
        /\ \A j \in EntityIds : j # i => f[m].entity[j] = f[n].entity[j] /\ EntriesOf(f[m], j) = EntriesOf(f[n], j)
    <3>1. PICK s : s = f[n]  OBVIOUS
    <3>2. s \in Stores /\ f[m] = Effect(s, c[m])
      BY <1>4, <2>2, <3>1
    <3>3. f[m] \in Stores
          /\ \A j \in EntityIds : j # i => f[m].entity[j] = s.entity[j] /\ EntriesOf(f[m], j) = EntriesOf(s, j)
      BY SMTT(40), <2>2, <3>2, EffectIs
    <3> QED BY <3>1, <3>3
  <2>6. ASSUME Completes(RepoStored, c, i) PROVE Completes(f[m], SubSeq(c, m + 1, L), i)
    BY <2>6, <1>4, <2>2, <2>3, <2>4, EffectStep
  <2> QED BY <1>4, <2>5, <2>6
<1>5. Q(L)
  <2> HIDE DEF Q
  <2>1. 0 \in 0..L /\ (L >= 1 => 1 \in 0..L) /\ (L >= 2 => 2 \in 0..L) /\ (L >= 3 => 3 \in 0..L) /\ (L >= 4 => 4 \in 0..L)
    BY <1>1
  <2>2. L >= 1 => Q(1)
    BY <2>1, <1>3, <1>4
  <2>3. L >= 2 => Q(2)
    BY <2>1, <2>2, <1>1, <1>4
  <2>4. L >= 3 => Q(3)
    BY <2>1, <2>3, <1>1, <1>4
  <2>5. L >= 4 => Q(4)
    BY <2>1, <2>4, <1>1, <1>4
  <2> QED BY <2>2, <2>3, <2>4, <2>5, <1>1, <1>3
<1>6. SubSeq(c, L + 1, L) = <<>>
  OBVIOUS
<1> QED BY <1>2, <1>5, <1>6

\* The commands for a set of index entries that has at most one.
LEMMA CmdsIs ==
  ASSUME NEW do
  PROVE  /\ Cmds(do, {}) = <<>> /\ SetToSeq({}) = <<>>
         /\ \A x : Cmds(do, {x}) = <<Cmd(do, x)>> /\ SetToSeq({x}) = <<x>>
<1>1. Cardinality({}) = 0 /\ \A x : Cardinality({x}) = 1
  BY FS_EmptySet, FS_Singleton
<1>2. SetToSeq({}) = <<>>
  <2>1. \E f \in [1..0 -> {}] : IsInjective(f)
    <3>1. <<>> \in [1..0 -> {}]
      OBVIOUS
    <3> QED BY <3>1 DEF IsInjective
  <2>2. SetToSeq({}) \in [1..0 -> {}]
    BY <1>1, <2>1 DEF SetToSeq
  <2> QED BY <2>2
<1>3. ASSUME NEW x PROVE SetToSeq({x}) = <<x>>
  <2>1. \E f \in [1..1 -> {x}] : IsInjective(f)
    <3>1. <<x>> \in [1..1 -> {x}] /\ DOMAIN <<x>> = {1}
      OBVIOUS
    <3> QED BY <3>1 DEF IsInjective
  <2>2. SetToSeq({x}) \in [1..1 -> {x}]
    BY <1>1, <2>1 DEF SetToSeq
  <2> QED BY <2>2
<1>4. Cmds(do, {}) = <<>>
  <2>1. Cmds(do, {}) = [k \in 1..0 |-> Cmd(do, SetToSeq({})[k])]
    BY <1>1 DEF Cmds
  <2> QED BY <2>1
<1>5. ASSUME NEW x PROVE Cmds(do, {x}) = <<Cmd(do, x)>>
  <2>1. Cmds(do, {x}) = [k \in 1..1 |-> Cmd(do, SetToSeq({x})[k])]
    BY <1>1 DEF Cmds
  <2>2. SetToSeq({x})[1] = x
    BY <1>3
  <2>3. Cmds(do, {x}) = [k \in 1..1 |-> Cmd(do, x)]
    BY <2>1, <2>2
  <2> QED BY <2>3
<1> QED BY <1>2, <1>3, <1>4, <1>5

\* The index commands of a write that takes dels out and puts sets in.
IndexPart(D, i, dels, sets) ==
  /\ D \in Seq(Command(i)) /\ Len(D) <= 2
  /\ \A k \in DOMAIN D : D[k].do \in {"del", "set"}
  /\ \A k, l \in DOMAIN D : D[k].arg = D[l].arg => k = l
  /\ Args(D, "del") = dels /\ Args(D, "set") = sets

\* The forms that a write's index commands have.
LEMMA OneIndexPart ==
  ASSUME NEW i, NEW x \in Values \X {i}, NEW y \in Values \X {i}
  PROVE  /\ IndexPart(<<>>, i, {}, {})
         /\ IndexPart(<<Cmd("del", x)>>, i, {x}, {})
         /\ IndexPart(<<Cmd("set", x)>>, i, {}, {x})
         /\ x # y => IndexPart(<<Cmd("del", x), Cmd("set", y)>>, i, {x}, {y})
<1>0. PICK p, q : p = Cmd("del", x) /\ q = Cmd("set", x)  OBVIOUS
<1>1. PICK r : r = Cmd("set", y)  OBVIOUS
<1>2. \E v \in Values : x = <<v, i>>
  OBVIOUS
<1>3. \E v \in Values : y = <<v, i>>
  OBVIOUS
<1>4. p \in Command(i) /\ q \in Command(i) /\ r \in Command(i)
  BY <1>0, <1>1, <1>2, <1>3 DEF Command
<1>5. p.do = "del" /\ p.arg = x /\ q.do = "set" /\ q.arg = x /\ r.do = "set" /\ r.arg = y
  BY <1>0, <1>1 DEF Cmd
<1>6. IndexPart(<<>>, i, {}, {})
  BY DEF IndexPart, Args
<1>7. IndexPart(<<p>>, i, {x}, {}) /\ IndexPart(<<q>>, i, {}, {x})
  <2>1. <<p>> \in Seq(Command(i)) /\ <<q>> \in Seq(Command(i)) /\ DOMAIN <<p>> = {1} /\ DOMAIN <<q>> = {1} /\ Len(<<p>>) <= 2 /\ Len(<<q>>) <= 2
    BY <1>4
  <2>2. Args(<<p>>, "del") = {x} /\ Args(<<p>>, "set") = {} /\ Args(<<q>>, "del") = {} /\ Args(<<q>>, "set") = {x}
    BY <2>1, <1>5 DEF Args
  <2> QED BY <2>1, <2>2, <1>5 DEF IndexPart
<1>8. ASSUME x # y PROVE IndexPart(<<p, r>>, i, {x}, {y})
  <2>1. <<p, r>> \in Seq(Command(i)) /\ DOMAIN <<p, r>> = {1, 2} /\ Len(<<p, r>>) <= 2 /\ <<p, r>>[1] = p /\ <<p, r>>[2] = r
    BY <1>4
  <2>2. Args(<<p, r>>, "del") = {x} /\ Args(<<p, r>>, "set") = {y}
    BY <2>1, <1>5 DEF Args
  <2> QED BY <1>8, <2>1, <2>2, <1>5 DEF IndexPart
<1> QED BY <1>0, <1>1, <1>6, <1>7, <1>8

\* Short sequences joined.
LEMMA JoinIs ==
  ASSUME NEW p, NEW q
  PROVE  /\ <<>> \o <<>> = <<>> /\ <<p>> \o <<>> = <<p>> /\ <<>> \o <<q>> = <<q>> /\ <<p>> \o <<q>> = <<p, q>>
<1>1. <<>> \o <<>> = <<>>
  OBVIOUS
<1>2. <<p>> \o <<>> = <<p>>
  OBVIOUS
<1>3. <<>> \o <<q>> = <<q>>
  OBVIOUS
<1>4. <<p>> \o <<q>> = <<p, q>>
  <2>1. PICK S : S = {p, q}  OBVIOUS
  <2>2. <<p>> \in Seq(S) /\ <<q>> \in Seq(S) /\ <<p, q>> \in Seq(S)
    BY <2>1
  <2>3. PICK t : t = <<p>> \o <<q>>  OBVIOUS
  <2>4. t \in Seq(S) /\ Len(t) = 2 /\ t[1] = p /\ t[2] = q
    BY <2>2, <2>3
  <2>5. \A k \in 1..2 : t[k] = <<p, q>>[k]
    BY <2>4
  <2>6. Len(<<p, q>>) = 2
    OBVIOUS
  <2>7. t = <<p, q>>
    BY <2>2, <2>4, <2>5, <2>6, SeqEqual
  <2> QED BY <2>3, <2>7
<1> QED BY <1>1, <1>2, <1>3, <1>4

\* ApplyIndexDiff between the entries of two values.
LEMMA IndexDiff ==
  ASSUME NEW i \in EntityIds, NEW o \in Values \cup {Absent}, NEW v \in Values \cup {Absent},
         NEW old, NEW new, old = EntityIndexEntries(o, i), new = EntityIndexEntries(v, i)
  PROVE  IndexPart(ApplyIndexDiff(diffIndexEntries(old, new), diffIndexEntries(new, old)), i, old \ new, new \ old)
<1>1. \/ old \ new = {} /\ new \ old = {}
      \/ \E x \in Values \X {i} : old \ new = {x} /\ new \ old = {}
      \/ \E x \in Values \X {i} : old \ new = {} /\ new \ old = {x}
      \/ \E x, y \in Values \X {i} : x # y /\ old \ new = {x} /\ new \ old = {y}
  BY DEF EntityIndexEntries
<1>2. PICK a, b : a = old \ new /\ b = new \ old  OBVIOUS
<1>3. ApplyIndexDiff(diffIndexEntries(old, new), diffIndexEntries(new, old)) = Cmds("del", a) \o Cmds("set", b)
  BY <1>2 DEF ApplyIndexDiff, diffIndexEntries
<1>4. <<Blank, i>> \in Values \X {i}
  BY RepositoryAssumption
<1>5. CASE a = {} /\ b = {}
  <2>1. Cmds("del", a) \o Cmds("set", b) = <<>>
    BY <1>5, CmdsIs, JoinIs
  <2> QED BY <1>2, <1>3, <1>4, <1>5, <2>1, OneIndexPart
<1>6. ASSUME NEW x \in Values \X {i}, a = {x}, b = {} PROVE IndexPart(Cmds("del", a) \o Cmds("set", b), i, a, b)
  <2>1. Cmds("del", a) \o Cmds("set", b) = <<Cmd("del", x)>>
    BY ZenonT(60), <1>6, CmdsIs, JoinIs
  <2> QED BY <1>6, <2>1, OneIndexPart
<1>7. ASSUME NEW x \in Values \X {i}, a = {}, b = {x} PROVE IndexPart(Cmds("del", a) \o Cmds("set", b), i, a, b)
  <2>1. Cmds("del", a) \o Cmds("set", b) = <<Cmd("set", x)>>
    BY ZenonT(60), <1>7, CmdsIs, JoinIs
  <2> QED BY <1>7, <2>1, OneIndexPart
<1>8. ASSUME NEW x \in Values \X {i}, NEW y \in Values \X {i}, x # y, a = {x}, b = {y}
      PROVE  IndexPart(Cmds("del", a) \o Cmds("set", b), i, a, b)
  <2>1. Cmds("del", a) \o Cmds("set", b) = <<Cmd("del", x), Cmd("set", y)>>
    <3>1. Cmds("del", a) = <<Cmd("del", x)>>
      BY <1>8, CmdsIs
    <3>2. Cmds("set", b) = <<Cmd("set", y)>>
      BY <1>8, CmdsIs
    <3> QED BY <3>1, <3>2, JoinIs
  <2>2. IndexPart(<<Cmd("del", x), Cmd("set", y)>>, i, {x}, {y})
    BY <1>8, OneIndexPart
  <2> QED BY <1>8, <2>1, <2>2
<1> QED BY <1>1, <1>2, <1>3, <1>5, <1>6, <1>7, <1>8
\* The commands before the index commands.
Leading(H, i) ==
  /\ H \in Seq(Command(i)) /\ Len(H) \in 1..2 /\ Shaped(H)
  /\ \A k \in DOMAIN H : H[k].do \notin {"del", "set"}
  /\ \A k \in DOMAIN H : H[k].do = "drop" \/ \A l \in DOMAIN H : H[l].do # "drop"

\* The entity's commands of each operation.
LEMMA LeadingIs ==
  ASSUME NEW i \in EntityIds, NEW v \in Values
  PROVE  /\ Leading(<<Cmd("put", <<i, v>>)>>, i) /\ Leading(<<Cmd("put", <<i, v>>), Cmd("expire", i)>>, i)
         /\ Leading(<<Cmd("field", <<i, v>>)>>, i) /\ Leading(<<Cmd("drop", i)>>, i) /\ Leading(<<Cmd("drop", i), Cmd("drop", i)>>, i)
<1>1. ASSUME NEW p \in Command(i), p.do \in {"put", "field", "drop"} PROVE Leading(<<p>>, i)
  <2>1. <<p>> \in Seq(Command(i)) /\ DOMAIN <<p>> = {1} /\ Len(<<p>>) \in 1..2 /\ <<p>>[1] = p
    OBVIOUS
  <2>2. Shaped(<<p>>)
    BY <1>1, <2>1 DEF Shaped
  <2> QED BY <1>1, <2>1, <2>2 DEF Leading
<1>2. ASSUME NEW p \in Command(i), NEW q \in Command(i), (p.do = "put" /\ q.do = "expire") \/ (p.do = "drop" /\ q.do = "drop")
      PROVE  Leading(<<p, q>>, i)
  <2>1. <<p, q>> \in Seq(Command(i)) /\ DOMAIN <<p, q>> = {1, 2} /\ Len(<<p, q>>) \in 1..2 /\ <<p, q>>[1] = p /\ <<p, q>>[2] = q
    OBVIOUS
  <2>2. Shaped(<<p, q>>)
    BY <1>2, <2>1 DEF Shaped
  <2> QED BY <1>2, <2>1, <2>2 DEF Leading
<1>3. PICK p, e : p = Cmd("put", <<i, v>>) /\ e = Cmd("expire", i)  OBVIOUS
<1>4. PICK f, d : f = Cmd("field", <<i, v>>) /\ d = Cmd("drop", i)  OBVIOUS
<1>5. p \in Command(i) /\ e \in Command(i) /\ f \in Command(i) /\ d \in Command(i)
  BY <1>3, <1>4 DEF Command
<1>6. p.do = "put" /\ e.do = "expire" /\ f.do = "field" /\ d.do = "drop"
  BY <1>3, <1>4 DEF Cmd
<1> QED BY <1>1, <1>2, <1>3, <1>4, <1>5, <1>6

\* The entity's commands and then the index commands are a write.
LEMMA WriteIs ==
  ASSUME NEW i \in EntityIds, NEW H, Leading(H, i), NEW D, NEW a, NEW b, IndexPart(D, i, a, b)
  PROVE  /\ H \o D \in Seq(Command(i)) /\ Len(H \o D) <= 4 /\ H \o D # <<>> /\ (H \o D)[1] = H[1]
         /\ Shaped(H \o D) /\ Args(H \o D, "del") = a /\ Args(H \o D, "set") = b
<1>1. PICK c : c = H \o D  OBVIOUS
<1>2. PICK m, n : m = Len(H) /\ n = Len(D)  OBVIOUS
<1>3. H \in Seq(Command(i)) /\ D \in Seq(Command(i)) /\ m \in 1..2 /\ n \in Nat /\ n <= 2
  BY <1>2 DEF Leading, IndexPart
<1>4. /\ c \in Seq(Command(i)) /\ Len(c) = m + n /\ DOMAIN c = 1..(m + n) /\ DOMAIN H = 1..m /\ DOMAIN D = 1..n
      /\ \A k \in 1..m : c[k] = H[k]
      /\ \A k \in 1..(m + n) : k > m => c[k] = D[k - m]
  BY <1>1, <1>2, <1>3
<1>5. Len(c) <= 4 /\ c # <<>> /\ c[1] = H[1]
  BY <1>3, <1>4
<1>6. /\ \A k \in 1..m : c[k].do \notin {"del", "set"} /\ (k # 1 => c[k].do \notin {"put", "field"})
      /\ \A k \in 1..m : c[k].do = "drop" => \A l \in 1..m : c[l].do = "drop"
  BY <1>4 DEF Leading, Shaped
<1>7. \A k \in DOMAIN c : k > m => k - m \in DOMAIN D /\ c[k] = D[k - m] /\ c[k].do \in {"del", "set"}
  <2> SUFFICES ASSUME NEW k \in DOMAIN c, k > m PROVE k - m \in DOMAIN D /\ c[k] = D[k - m] /\ c[k].do \in {"del", "set"}
    OBVIOUS
  <2>1. k - m \in DOMAIN D /\ c[k] = D[k - m]
    BY <1>3, <1>4
  <2> QED BY <2>1 DEF IndexPart
<1>8. \A k \in DOMAIN c : k \in 1..m \/ k > m
  BY <1>3, <1>4
<1>9. Shaped(c)
  <2>1. ASSUME NEW k \in DOMAIN c, k # 1 PROVE c[k].do \notin {"put", "field"}
    <3>1. CASE k \in 1..m
      BY <2>1, <3>1, <1>6
    <3>2. CASE k > m
      BY <3>2, <1>7
    <3> QED BY <3>1, <3>2, <1>8
  <2>2. ASSUME NEW k \in DOMAIN c, NEW l \in DOMAIN c, c[k].do = "drop", l < k PROVE c[l].do = "drop"
    <3>1. k \in 1..m
      BY <2>2, <1>7, <1>8
    <3>2. l \in 1..m
      BY <3>1, <2>2, <1>3, <1>4
    <3> QED BY <3>1, <3>2, <2>2, <1>6
  <2>3. ASSUME NEW k \in DOMAIN c, NEW l \in DOMAIN c, c[k].do \in {"del", "set"}, c[l].do \in {"del", "set"}, c[k].arg = c[l].arg
        PROVE  k = l
    <3>1. k > m /\ l > m
      BY <2>3, <1>6, <1>8
    <3>2. D[k - m].arg = D[l - m].arg /\ k - m \in DOMAIN D /\ l - m \in DOMAIN D
      BY <3>1, <2>3, <1>7
    <3>3. k - m = l - m
      BY <3>2 DEF IndexPart
    <3> QED BY <3>3, <1>3, <1>4
  <2> QED BY <2>1, <2>2, <2>3 DEF Shaped
<1>10. ASSUME NEW do \in {"del", "set"} PROVE Args(c, do) = Args(D, do)
  <2>1. ASSUME NEW x \in Args(c, do) PROVE x \in Args(D, do)
    <3>1. PICK k \in DOMAIN c : c[k].do = do /\ x = c[k].arg
      BY <2>1 DEF Args
    <3>2. k > m
      BY <3>1, <1>6, <1>8
    <3>3. k - m \in DOMAIN D /\ D[k - m] = c[k]
      BY <3>2, <1>7
    <3> QED BY <3>1, <3>3 DEF Args
  <2>2. ASSUME NEW x \in Args(D, do) PROVE x \in Args(c, do)
    <3>1. PICK k \in DOMAIN D : D[k].do = do /\ x = D[k].arg
      BY <2>2 DEF Args
    <3>2. k + m \in DOMAIN c /\ k + m > m /\ (k + m) - m = k
      BY <1>3, <1>4
    <3>3. c[k + m] = D[k]
      BY <3>2, <1>7
    <3> QED BY <3>1, <3>2, <3>3 DEF Args
  <2> QED BY <2>1, <2>2
<1>11. Args(c, "del") = a /\ Args(c, "set") = b
  BY <1>10 DEF IndexPart
<1> QED BY <1>1, <1>4, <1>5, <1>9, <1>11

\* Such a write makes an index exact that is exact.
LEMMA WriteCompletes ==
  ASSUME NEW i \in EntityIds, NEW H, Leading(H, i), NEW D, NEW s, Exact(s, i), NEW v,
         H[1].do = "field" => s.entity[i] # Absent,
         v = IF H[1].do = "drop" THEN Absent ELSE H[1].arg[2], H[1].do \in {"put", "field", "drop"},
         NEW old, NEW new, old = EntityIndexEntries(s.entity[i], i), new = EntityIndexEntries(v, i),
         IndexPart(D, i, old \ new, new \ old)
  PROVE  Completes(s, H \o D, i)
<1>1. PICK c : c = H \o D  OBVIOUS
<1>2. c # <<>> /\ c[1] = H[1] /\ Shaped(c) /\ Args(c, "del") = old \ new /\ Args(c, "set") = new \ old
  BY <1>1, WriteIs
<1>3. Target(s, c, i) = v
  BY <1>2 DEF Target
<1>4. EntriesOf(s, i) = old
  BY DEF Exact
<1>5. (old \ (old \ new)) \cup (new \ old) = new
  OBVIOUS
<1> QED BY <1>1, <1>2, <1>3, <1>4, <1>5 DEF Completes


\* The index commands of a field update script.
ScriptOf(keys) == [k \in 1..Len(keys) |-> Cmd(IF k = 1 THEN "del" ELSE "set", keys[k])]

\* For up to two keys: the first is deleted, the second set.
LEMMA ScriptOfIs ==
  ASSUME NEW x, NEW y
  PROVE  ScriptOf(<<>>) = <<>> /\ ScriptOf(<<x>>) = <<Cmd("del", x)>> /\ ScriptOf(<<x, y>>) = <<Cmd("del", x), Cmd("set", y)>>
<1>1. PICK p, q : p = Cmd("del", x) /\ q = Cmd("set", y)  OBVIOUS
<1>2. ScriptOf(<<>>) = <<>>
  <2>1. ScriptOf(<<>>) = [k \in 1..0 |-> Cmd(IF k = 1 THEN "del" ELSE "set", <<>>[k])]
    BY DEF ScriptOf
  <2> QED BY <2>1
<1>3. ScriptOf(<<x>>) = <<p>>
  <2>1. PICK t : t = <<x>>  OBVIOUS
  <2>2. Len(t) = 1 /\ t[1] = x
    BY <2>1
  <2>3. ScriptOf(t) = [k \in 1..1 |-> Cmd(IF k = 1 THEN "del" ELSE "set", t[k])]
    BY <2>2 DEF ScriptOf
  <2>4. ScriptOf(t) = [k \in 1..1 |-> p]
    BY <2>2, <2>3, <1>1
  <2> QED BY <2>1, <2>4
<1>4. ScriptOf(<<x, y>>) = <<p, q>>
  <2>1. PICK t : t = <<x, y>>  OBVIOUS
  <2>2. Len(t) = 2 /\ t[1] = x /\ t[2] = y
    BY <2>1
  <2>3. ScriptOf(t) = [k \in 1..2 |-> Cmd(IF k = 1 THEN "del" ELSE "set", t[k])]
    BY <2>2 DEF ScriptOf
  <2>4. ScriptOf(t) = [k \in 1..2 |-> IF k = 1 THEN p ELSE q]
    BY <2>2, <2>3, <1>1
  <2> QED BY <2>1, <2>4
<1> QED BY <1>1, <1>2, <1>3, <1>4

\* Of a field that had a value the script's commands are those of ApplyIndexDiff.
LEMMA ScriptPart ==
  ASSUME NEW i \in EntityIds, NEW o \in Values, NEW v \in Values,
         NEW old, NEW new, old = EntityIndexEntries(o, i), new = EntityIndexEntries(v, i),
         NEW keys, keys = SetToSeq(old \ new) \o SetToSeq(new \ old)
  PROVE  /\ \E a, b : IndexPart(ScriptOf(keys), i, a, b)
         /\ o # Blank => IndexPart(ScriptOf(keys), i, old \ new, new \ old)
<1>0. o # Absent /\ v # Absent
  BY RepositoryAssumption
<1>1. PICK a, b : a = old \ new /\ b = new \ old  OBVIOUS
<1>2. \/ a = {} /\ b = {}
      \/ o # Blank /\ \E x \in Values \X {i} : a = {x} /\ b = {}
      \/ o = Blank /\ \E x \in Values \X {i} : a = {} /\ b = {x}
      \/ o # Blank /\ \E x, y \in Values \X {i} : x # y /\ a = {x} /\ b = {y}
  <2>1. old = (IF o = Blank THEN {} ELSE {<<o, i>>}) /\ new = (IF v = Blank THEN {} ELSE {<<v, i>>})
    BY <1>0 DEF EntityIndexEntries
  <2>2. <<o, i>> \in Values \X {i} /\ <<v, i>> \in Values \X {i}
    OBVIOUS
  <2> QED BY <1>1, <2>1, <2>2
<1>3. keys = SetToSeq(a) \o SetToSeq(b)
  BY <1>1
<1>4. CASE a = {} /\ b = {}
  <2>1. keys = <<>>
    BY <1>3, <1>4, CmdsIs, JoinIs
  <2>2. <<Blank, i>> \in Values \X {i}
    BY RepositoryAssumption
  <2>3. IndexPart(ScriptOf(keys), i, {}, {})
    BY <2>1, <2>2, OneIndexPart, ScriptOfIs
  <2> QED BY <1>1, <1>4, <2>3
<1>5. ASSUME NEW x \in Values \X {i}, keys = <<x>> PROVE IndexPart(ScriptOf(keys), i, {x}, {})
  <2>1. ScriptOf(keys) = <<Cmd("del", x)>>
    BY <1>5, ScriptOfIs
  <2> QED BY <2>1, OneIndexPart
<1>6. ASSUME NEW x \in Values \X {i}, NEW y \in Values \X {i}, x # y, keys = <<x, y>> PROVE IndexPart(ScriptOf(keys), i, {x}, {y})
  <2>1. ScriptOf(keys) = <<Cmd("del", x), Cmd("set", y)>>
    BY <1>6, ScriptOfIs
  <2>2. IndexPart(<<Cmd("del", x), Cmd("set", y)>>, i, {x}, {y})
    BY <1>6, OneIndexPart
  <2> QED BY <2>1, <2>2
<1>7. ASSUME NEW x \in Values \X {i}, o # Blank, a = {x}, b = {} PROVE IndexPart(ScriptOf(keys), i, a, b)
  <2>1. keys = <<x>>
    BY <1>3, <1>7, CmdsIs, JoinIs
  <2> QED BY <1>5, <1>7, <2>1
<1>8. ASSUME NEW x \in Values \X {i}, a = {}, b = {x} PROVE IndexPart(ScriptOf(keys), i, {x}, {})
  <2>1. keys = <<x>>
    BY <1>3, <1>8, CmdsIs, JoinIs
  <2> QED BY <1>5, <2>1
<1>9. ASSUME NEW x \in Values \X {i}, NEW y \in Values \X {i}, x # y, a = {x}, b = {y} PROVE IndexPart(ScriptOf(keys), i, a, b)
  <2>1. keys = <<x, y>>
    <3>1. SetToSeq(a) = <<x>> /\ SetToSeq(b) = <<y>>
      BY <1>9, CmdsIs
    <3> QED BY <1>3, <3>1, JoinIs
  <2> QED BY <1>6, <1>9, <2>1
<1> QED BY <1>1, <1>2, <1>4, <1>7, <1>8, <1>9

\* A write on i that is prepared.
Prepared(c, i) == c \in Seq(Command(i)) /\ Len(c) <= 4 /\ c # <<>>

\* The commands of prepareHashSave and prepareJSONSave, with and without a time to live.
LEMMA SaveIs ==
  ASSUME RepoTyped, NEW i \in EntityIds, NEW v \in Values, NEW x \in BOOLEAN
  PROVE  /\ Prepared(SaveCommands(i, v, x), i)
         /\ Exact(RepoStored, i) => Completes(RepoStored, SaveCommands(i, v, x), i)
<1>1. entity[i] \in Values \cup {Absent} /\ RepoStored.entity = entity
  BY DEF RepoTyped, Stores, RepoStored
<1>2. PICK old, new : old = EntityIndexEntries(entity[i], i) /\ new = EntityIndexEntries(v, i)  OBVIOUS
<1>3. PICK D : D = ApplyIndexDiff(diffIndexEntries(old, new), diffIndexEntries(new, old))  OBVIOUS
<1>4. IndexPart(D, i, old \ new, new \ old)
  BY <1>1, <1>2, <1>3, IndexDiff
<1>5. PICK p, e : p = Cmd("put", <<i, v>>) /\ e = Cmd("expire", i)  OBVIOUS
<1>6. PICK H : H = IF x THEN <<p, e>> ELSE <<p>>  OBVIOUS
<1>7. <<p>> \o (IF x THEN <<e>> ELSE <<>>) = H
  BY <1>6, JoinIs
<1>8. SaveCommands(i, v, x) = H \o D
  BY <1>2, <1>3, <1>5, <1>7 DEF SaveCommands
<1>9. Leading(H, i)
  BY <1>5, <1>6, LeadingIs
<1>10. H[1].do = "put" /\ H[1].arg[2] = v
  <2>1. H[1] = p
    BY <1>6
  <2> QED BY <2>1, <1>5 DEF Cmd
<1>11. Prepared(H \o D, i)
  BY <1>4, <1>9, WriteIs DEF Prepared
<1>12. Exact(RepoStored, i) => Completes(RepoStored, H \o D, i)
  BY <1>1, <1>2, <1>4, <1>9, <1>10, WriteCompletes
<1> QED BY <1>8, <1>11, <1>12

\* The commands of prepareRepositoryDelete, for hashes and documents.
LEMMA DeleteIs ==
  ASSUME RepoTyped, NEW i \in EntityIds
  PROVE  /\ Prepared(DeleteCommands(i), i)
         /\ Exact(RepoStored, i) => Completes(RepoStored, DeleteCommands(i), i)
<1>1. entity[i] \in Values \cup {Absent} /\ RepoStored.entity = entity
  BY DEF RepoTyped, Stores, RepoStored
<1>2. PICK old, new : old = EntityIndexEntries(entity[i], i) /\ new = EntityIndexEntries(Absent, i)  OBVIOUS
<1>3. PICK D : D = ApplyIndexDiff(diffIndexEntries(old, new), diffIndexEntries(new, old))  OBVIOUS
<1>4. IndexPart(D, i, old \ new, new \ old)
  BY <1>1, <1>2, <1>3, IndexDiff
<1>5. PICK d : d = Cmd("drop", i)  OBVIOUS
<1>6. PICK H : H = IF repo.kind = "hash" THEN <<d, d>> ELSE <<d>>  OBVIOUS
<1>7. (IF repo.kind = "hash" THEN <<d>> \o <<d>> ELSE <<d>>) = H
  BY <1>6, JoinIs
<1>8. DeleteCommands(i) = H \o D
  <2>1. new = {}
    BY <1>2 DEF EntityIndexEntries
  <2>2. diffIndexEntries(old, new) = old /\ diffIndexEntries(new, old) = {}
    BY <2>1 DEF diffIndexEntries
  <2>3. D = ApplyIndexDiff(old, {})
    BY <1>3, <2>2
  <2> QED BY <1>2, <2>3, <1>5, <1>7 DEF DeleteCommands
<1>9. Leading(H, i)
  <2>1. Blank \in Values
    BY RepositoryAssumption
  <2> QED BY <2>1, <1>5, <1>6, LeadingIs
<1>10. H[1].do = "drop"
  <2>1. H[1] = d
    BY <1>6
  <2> QED BY <2>1, <1>5 DEF Cmd
<1>11. Prepared(H \o D, i)
  BY <1>4, <1>9, WriteIs DEF Prepared
<1>12. Exact(RepoStored, i) => Completes(RepoStored, H \o D, i)
  BY <1>1, <1>2, <1>4, <1>9, <1>10, WriteCompletes
<1> QED BY <1>8, <1>11, <1>12

\* The commands of UpdateField; a script is excused on a field that was empty.
LEMMA UpdateIs ==
  ASSUME RepoTyped, NEW i \in EntityIds, NEW v \in Values, entity[i] # Absent
  PROVE  /\ Prepared(UpdateCommands(i, v), i)
         /\ Exact(RepoStored, i) /\ ~(repo.script /\ entity[i] = Blank) => Completes(RepoStored, UpdateCommands(i, v), i)
<1>1. entity[i] \in Values /\ RepoStored.entity = entity
  BY DEF RepoTyped, Stores, RepoStored
<1>2. PICK old, new : old = EntityIndexEntries(entity[i], i) /\ new = EntityIndexEntries(v, i)  OBVIOUS
<1>3. PICK f : f = Cmd("field", <<i, v>>)  OBVIOUS
<1>4. PICK H : H = <<f>>  OBVIOUS
<1>5. Leading(H, i)
  BY <1>3, <1>4, LeadingIs
<1>6. H[1].do = "field" /\ H[1].arg[2] = v
  BY <1>3, <1>4 DEF Cmd
<1>7. CASE repo.script
  <2>1. PICK keys : keys = SetToSeq(old \ new) \o SetToSeq(new \ old)  OBVIOUS
  <2>2. PICK D : D = ScriptOf(keys)  OBVIOUS
  <2>3. UpdateCommands(i, v) = H \o D
    BY <1>2, <1>3, <1>4, <1>7, <2>1, <2>2 DEF UpdateCommands, diffIndexEntries, ScriptOf
  <2>4. /\ \E a, b : IndexPart(D, i, a, b)
        /\ entity[i] # Blank => IndexPart(D, i, old \ new, new \ old)
    BY <1>1, <1>2, <2>1, <2>2, ScriptPart
  <2>5. Prepared(H \o D, i)
    <3>1. PICK a, b : IndexPart(D, i, a, b)
      BY <2>4
    <3> QED BY <3>1, <1>5, WriteIs DEF Prepared
  <2>6. Exact(RepoStored, i) /\ entity[i] # Blank => Completes(RepoStored, H \o D, i)
    BY <1>1, <1>2, <1>5, <1>6, <2>4, WriteCompletes
  <2> QED BY <1>7, <2>3, <2>5, <2>6
<1>8. CASE ~repo.script
  <2>1. PICK D : D = ApplyIndexDiff(diffIndexEntries(old, new), diffIndexEntries(new, old))  OBVIOUS
  <2>2. UpdateCommands(i, v) = H \o D
    BY <1>2, <1>3, <1>4, <1>8, <2>1 DEF UpdateCommands
  <2>3. IndexPart(D, i, old \ new, new \ old)
    BY <1>1, <1>2, <2>1, IndexDiff
  <2>4. Prepared(H \o D, i)
    BY <1>5, <2>3, WriteIs DEF Prepared
  <2>5. Exact(RepoStored, i) => Completes(RepoStored, H \o D, i)
    BY <1>1, <1>2, <1>5, <1>6, <2>3, WriteCompletes
  <2> QED BY <2>2, <2>4, <2>5
<1> QED BY <1>7, <1>8

\* No command left: the index is exact.
LEMMA NothingLeft ==
  ASSUME NEW s, NEW i, Completes(s, <<>>, i)
  PROVE  Exact(s, i)
<1>1. Args(<<>>, "del") = {} /\ Args(<<>>, "set") = {}
  BY DEF Args
<1>2. Target(s, <<>>, i) = s.entity[i]
  BY DEF Target
<1> QED BY <1>1, <1>2 DEF Completes, Exact

\* Only the value and the entries of the entity count.
LEMMA SameEntity ==
  ASSUME NEW s, NEW t, NEW j, s.entity[j] = t.entity[j], EntriesOf(s, j) = EntriesOf(t, j)
  PROVE  /\ Exact(s, j) => Exact(t, j)
         /\ \A c : Completes(s, c, j) => Completes(t, c, j)
<1>1. \A c : Target(s, c, j) = Target(t, c, j)
  BY DEF Target
<1> QED BY <1>1 DEF Exact, Completes

\* What the store becomes.
LEMMA Becoming ==
  ASSUME NEW s \in Stores, Becomes(s)
  PROVE  RepoStored' = s
BY DEF Stores, Becomes, RepoStored

\* The parts of a sequence that a send takes and leaves.
LEMMA SubSeqIs ==
  ASSUME NEW S, NEW c \in Seq(S), c # <<>>
  PROVE  /\ SubSeq(c, 1, Len(c)) = c /\ SubSeq(c, Len(c) + 1, Len(c)) = <<>>
         /\ SubSeq(c, 1, 1) = <<c[1]>> /\ SubSeq(c, 1 + 1, Len(c)) = Tail(c)
         /\ Tail(c) \in Seq(S) /\ (Len(c) <= 4 => Len(Tail(c)) <= 4) /\ <<>> \in Seq(S) /\ Len(<<>>) <= 4
         /\ c[1] \in S /\ Len(<<c[1]>>) = 1 /\ <<c[1]>>[1] = c[1] /\ Len(c) \in Nat
<1>1. SubSeq(c, 1, Len(c)) = c /\ SubSeq(c, Len(c) + 1, Len(c)) = <<>>
  OBVIOUS
<1>2. PICK n : n = Len(c)  OBVIOUS
<1>3. n \in Nat /\ n >= 1 /\ DOMAIN c = 1..n
  BY <1>2
<1>4. SubSeq(c, 1, 1) = <<c[1]>>
  <2>1. c[1] \in S
    BY <1>3
  <2>2. PICK t : t = SubSeq(c, 1, 1)  OBVIOUS
  <2>3. t \in Seq(S) /\ Len(t) = 1 /\ t[1] = c[1]
    BY <1>2, <1>3, <2>2
  <2>4. <<c[1]>> \in Seq(S) /\ Len(<<c[1]>>) = 1 /\ <<c[1]>>[1] = c[1]
    BY <2>1
  <2>5. t = <<c[1]>>
    BY <2>3, <2>4, SeqEqual
  <2> QED BY <2>2, <2>5
<1>5. SubSeq(c, 1 + 1, n) = Tail(c)
  <2>1. PICK t : t = SubSeq(c, 1 + 1, n)  OBVIOUS
  <2>2. t \in Seq(S) /\ Len(t) = n - 1 /\ \A k \in 1..(n - 1) : t[k] = c[k + 1]
    BY <1>2, <1>3, <2>1
  <2>3. Tail(c) \in Seq(S) /\ Len(Tail(c)) = n - 1 /\ \A k \in 1..(n - 1) : Tail(c)[k] = c[k + 1]
    BY <1>2, <1>3
  <2>4. t = Tail(c)
    BY <2>2, <2>3, SeqEqual
  <2> QED BY <2>1, <2>4
<1>6. Tail(c) \in Seq(S) /\ (Len(c) <= 4 => Len(Tail(c)) <= 4) /\ <<>> \in Seq(S) /\ Len(<<>>) <= 4 /\ c[1] \in S
  BY <1>2, <1>3
<1>7. Len(<<c[1]>>) = 1 /\ <<c[1]>>[1] = c[1]
  OBVIOUS
<1> QED BY <1>1, <1>2, <1>3, <1>4, <1>5, <1>6, <1>7

\* What a send by w does: of the commands c on i it does all of a script, or the first. The store
\* becomes s, and r is left to send.
Sends(w, c, i, s, r) ==
  /\ c = writer[w].cmds /\ i = writer[w].id
  /\ s = Applied(SubSeq(c, 1, Sent(c))) /\ r = SubSeq(c, Sent(c) + 1, Len(c))
  /\ i \in EntityIds /\ s \in Stores /\ r \in Seq(Command(i)) /\ Len(r) <= 4
  /\ \A j \in EntityIds : j # i => s.entity[j] = entity[j] /\ EntriesOf(s, j) = EntriesOf(RepoStored, j)
  /\ Completes(RepoStored, c, i) => Completes(s, r, i)
  /\ repo.script => r = <<>>

\* Every send is of that form.
LEMMA SendIs ==
  ASSUME RepoTyped, NEW w \in Writers, writer[w].cmds # <<>>
  PROVE  \E c, i, s, r : Sends(w, c, i, s, r)
<1>01. PICK c, i : c = writer[w].cmds /\ i = writer[w].id  OBVIOUS
<1>02. PICK s : s = Applied(SubSeq(c, 1, Sent(c)))  OBVIOUS
<1>03. PICK r : r = SubSeq(c, Sent(c) + 1, Len(c))  OBVIOUS
<1>1. i \in EntityIds /\ c \in Seq(Command(i)) /\ Len(c) <= 4 /\ RepoStored \in Stores /\ c # <<>>
  BY <1>01 DEF RepoTyped, WriterTyped
<1>2. /\ SubSeq(c, 1, Len(c)) = c /\ SubSeq(c, Len(c) + 1, Len(c)) = <<>>
      /\ SubSeq(c, 1, 1) = <<c[1]>> /\ SubSeq(c, 1 + 1, Len(c)) = Tail(c)
      /\ Tail(c) \in Seq(Command(i)) /\ (Len(c) <= 4 => Len(Tail(c)) <= 4) /\ <<>> \in Seq(Command(i)) /\ Len(<<>>) <= 4
      /\ c[1] \in Command(i) /\ Len(<<c[1]>>) = 1 /\ <<c[1]>>[1] = c[1] /\ Len(c) \in Nat
  BY <1>1, SubSeqIs
<1>4. ASSUME repo.script
      PROVE  /\ i \in EntityIds /\ s \in Stores /\ r \in Seq(Command(i)) /\ Len(r) <= 4
             /\ \A j \in EntityIds : j # i => s.entity[j] = entity[j] /\ EntriesOf(s, j) = EntriesOf(RepoStored, j)
             /\ Completes(RepoStored, c, i) => Completes(s, r, i)
             /\ repo.script => r = <<>>
  <2>1. SubSeq(c, 1, Sent(c)) = c /\ r = <<>>
    BY <1>03, <1>2, <1>4 DEF Sent
  <2>2. s = Applied(c)
    BY <1>02, <2>1
  <2>3. r \in Seq(Command(i)) /\ Len(r) <= 4
    BY <1>2, <2>1, Zenon
  <2> QED BY <2>1, <2>2, <2>3, <1>1, AppliedIs
<1>5. ASSUME ~repo.script
      PROVE  /\ i \in EntityIds /\ s \in Stores /\ r \in Seq(Command(i)) /\ Len(r) <= 4
             /\ \A j \in EntityIds : j # i => s.entity[j] = entity[j] /\ EntriesOf(s, j) = EntriesOf(RepoStored, j)
             /\ Completes(RepoStored, c, i) => Completes(s, r, i)
             /\ repo.script => r = <<>>
  <2>1. PICK d : d = SubSeq(c, 1, 1)  OBVIOUS
  <2>2. d = <<c[1]>> /\ Len(d) = 1 /\ d[1] = c[1]
    BY <1>2, <2>1
  <2>3. s = Applied(d)
    BY <1>02, <1>5, <2>1 DEF Sent
  <2>4. s = Effect(RepoStored, c[1])
    <3>1. PICK L : L = 1  OBVIOUS
    <3>2. L \in 0..4 /\ L = Len(d)
      BY <3>1, <2>2
    <3>3. PICK f : /\ f[0] = RepoStored /\ \A k \in 1..L : f[k] = Effect(f[k - 1], d[k])
                   /\ Applied(d) = f[L]
      BY <3>2, AppliedChain
    <3>4. f[1] = Effect(f[1 - 1], d[1])
      BY <3>1, <3>3
    <3>5. f[1] = Effect(f[0], d[1])
      BY <3>4
    <3> QED BY <3>1, <3>3, <3>5, <2>2, <2>3
  <2>5. r = Tail(c) /\ r \in Seq(Command(i)) /\ Len(r) <= 4
    <3>1. r = SubSeq(c, 1 + 1, Len(c))
      BY <1>03, <1>5 DEF Sent
    <3>2. r = Tail(c)
      BY <3>1, <1>2
    <3> QED BY <3>2, <1>1, <1>2, Zenon
  <2>6. c[1] \in Command(i)
    BY <1>2
  <2>7. s \in Stores /\ \A j \in EntityIds : j # i => s.entity[j] = RepoStored.entity[j] /\ EntriesOf(s, j) = EntriesOf(RepoStored, j)
    BY <2>4, <2>6, <1>1, EffectIs
  <2>8. Completes(RepoStored, c, i) => Completes(s, r, i)
    BY <2>4, <2>5, <1>1, EffectStep
  <2>9. RepoStored.entity = entity
    BY DEF RepoStored
  <2> QED BY <1>1, <1>5, <2>5, <2>7, <2>8, <2>9
<1>6. /\ i \in EntityIds /\ s \in Stores /\ r \in Seq(Command(i)) /\ Len(r) <= 4
      /\ \A j \in EntityIds : j # i => s.entity[j] = entity[j] /\ EntriesOf(s, j) = EntriesOf(RepoStored, j)
      /\ Completes(RepoStored, c, i) => Completes(s, r, i)
      /\ repo.script => r = <<>>
  BY <1>4, <1>5
<1>7. Sends(w, c, i, s, r)
  BY <1>01, <1>02, <1>03, <1>6 DEF Sends
<1> QED BY <1>7

\* No entity, no entry, no write.
LEMMA RepoStarts == RepoInit => RepoInv
<1> SUFFICES ASSUME RepoInit PROVE RepoInv  OBVIOUS
<1>1. repo \in [kind : {"hash", "json"}, script : BOOLEAN] /\ entity = [i \in EntityIds |-> Absent] /\ ttl = {} /\ entries = {}
      /\ writer = [w \in Writers |-> RepoIdle]
  BY DEF RepoInit
<1>2. RepoStored \in Stores
  BY <1>1 DEF RepoStored, Stores
<1>3. WriterTyped(RepoIdle) /\ RepoIdle.cmds = <<>>
  BY DEF WriterTyped, RepoIdle
<1>4. \A w \in Writers : writer[w] = RepoIdle
  BY <1>1
<1>5. RepoTyped
  BY <1>1, <1>2, <1>3, <1>4 DEF RepoTyped
<1>6. ASSUME NEW i \in EntityIds PROVE Busy(i) = {} /\ Exact(RepoStored, i)
  <2>1. Busy(i) = {}
    BY <1>3, <1>4 DEF Busy
  <2>2. RepoStored.entity[i] = Absent /\ RepoStored.entries = {}
    BY <1>1 DEF RepoStored
  <2> QED BY <2>1, <2>2 DEF Exact, EntriesOf, EntityIndexEntries
<1>7. EntityInv
  BY <1>6 DEF EntityInv
<1> QED BY <1>5, <1>7 DEF RepoInv

\* One client has a new record; the others keep theirs.
LEMMA WriterTypedKept ==
  ASSUME RepoTyped, NEW w \in Writers, NEW r, WriterTyped(r), writer' = [writer EXCEPT ![w] = r],
         RepoStored' \in Stores, repo' = repo
  PROVE  /\ RepoTyped' /\ writer'[w] = r
         /\ \A u \in Writers : u # w => writer'[u] = writer[u]
<1>1. DOMAIN writer = Writers /\ \A u \in Writers : WriterTyped(writer[u])
  BY DEF RepoTyped
<1>2. /\ DOMAIN writer' = Writers /\ writer'[w] = r /\ writer' = [u \in Writers |-> writer'[u]]
      /\ \A u \in Writers : u # w => writer'[u] = writer[u]
  BY <1>1
<1>3. \A u \in Writers : WriterTyped(writer'[u])
  BY <1>1, <1>2
<1>4. \A u \in Writers : WriterTyped(writer[u])'
  BY <1>3 DEF WriterTyped
<1>5. repo' \in [kind : {"hash", "json"}, script : BOOLEAN]
  BY DEF RepoTyped
<1> QED BY <1>2, <1>4, <1>5 DEF RepoTyped

\* A write that is prepared alone on an entity whose index is exact.
LEMMA PrepareKeeps ==
  ASSUME RepoInv, NEW w \in Writers, NEW i \in EntityIds, NEW c, NEW todo \in Seq(Item), NEW excused,
         Prepare(w, i, c, todo, excused), writer[w].cmds = <<>>, Prepared(c, i),
         Exact(RepoStored, i) /\ ~excused => Completes(RepoStored, c, i)
  PROVE  RepoInv'
<1>1. PICK r : r = [todo |-> todo, id |-> i, cmds |-> c]  OBVIOUS
<1>2. r.todo = todo /\ r.id = i /\ r.cmds = c
  BY <1>1
<1>3. WriterTyped(r)
  BY <1>1, <1>2 DEF WriterTyped, Prepared
<1>4. /\ writer' = [writer EXCEPT ![w] = r] /\ repo' = repo /\ entity' = entity /\ ttl' = ttl /\ entries' = entries
      /\ dirt' = IF excused \/ Busy(i) # {} THEN dirt \cup {i} ELSE dirt
  BY <1>1 DEF Prepare
<1>5. RepoStored' = RepoStored
  BY <1>4 DEF RepoStored
<1>6. RepoTyped' /\ writer'[w] = r /\ \A u \in Writers : u # w => writer'[u] = writer[u]
  BY <1>3, <1>4, <1>5, WriterTypedKept DEF RepoInv, RepoTyped
<1>7. \A j \in EntityIds : Busy(j)' = IF j = i THEN Busy(i) \cup {w} ELSE Busy(j)
  BY <1>2, <1>6 DEF Busy, Prepared
<1>8. EntityInv'
  <2> SUFFICES ASSUME NEW j \in EntityIds, j \notin dirt'
               PROVE  /\ \A v, u \in Busy(j)' : v = u
                      /\ \A v \in Busy(j)' : Completes(RepoStored', writer'[v].cmds, j)
                      /\ Busy(j)' = {} \/ repo.script' => Exact(RepoStored', j)
    BY DEF EntityInv, Completes, Exact, Shaped, Args, Target, EntriesOf
  <2>1. j \notin dirt
    BY <1>4
  <2>2. /\ \A v, u \in Busy(j) : v = u
        /\ \A v \in Busy(j) : Completes(RepoStored, writer[v].cmds, j)
        /\ Busy(j) = {} \/ repo.script => Exact(RepoStored, j)
    BY <2>1 DEF RepoInv, EntityInv
  <2>3. CASE j = i
    <3>1. ~excused /\ Busy(i) = {}
      BY <2>3, <1>4
    <3>2. Busy(i)' = {w} /\ Exact(RepoStored, i)
      BY <2>2, <2>3, <3>1, <1>7
    <3>3. Completes(RepoStored, c, i)
      BY <3>1, <3>2
    <3> QED BY <2>3, <3>2, <3>3, <1>2, <1>5, <1>6
  <2>4. CASE j # i
    <3>1. Busy(j)' = Busy(j)
      BY <2>4, <1>7
    <3>2. \A v \in Busy(j) : v \in Writers /\ v # w
      BY DEF Busy
    <3> QED BY <2>2, <3>1, <3>2, <1>4, <1>5, <1>6
  <2> QED BY <2>3, <2>4
<1> QED BY <1>6, <1>8 DEF RepoInv

\* The store changes to t, on entity i only unless it is dirty; w has record r afterwards, and its
\* write, when it was on i, is over or goes on.
LEMMA StoreKeeps ==
  ASSUME RepoInv, NEW w \in Writers, NEW i \in EntityIds, NEW t \in Stores, RepoStored' = t, NEW r, WriterTyped(r),
         writer' = [writer EXCEPT ![w] = r], repo' = repo, dirt \subseteq dirt',
         writer[w].id = i, writer[w].cmds # <<>>, r.cmds # <<>> => r.id = i,
         \A j \in EntityIds : j # i => t.entity[j] = entity[j] /\ EntriesOf(t, j) = EntriesOf(RepoStored, j),
         i \notin dirt' /\ Completes(RepoStored, writer[w].cmds, i) /\ (repo.script => Exact(RepoStored, i))
           => Completes(t, r.cmds, i) /\ (repo.script => r.cmds = <<>>)
  PROVE  RepoInv'
<1>1. RepoTyped' /\ writer'[w] = r /\ \A u \in Writers : u # w => writer'[u] = writer[u]
  BY WriterTypedKept DEF RepoInv
<1>2. w \in Busy(i) /\ RepoStored.entity = entity
  BY DEF Busy, RepoStored
<1>3. EntityInv'
  <2> SUFFICES ASSUME NEW j \in EntityIds, j \notin dirt'
               PROVE  /\ \A v, u \in Busy(j)' : v = u
                      /\ \A v \in Busy(j)' : Completes(RepoStored', writer'[v].cmds, j)
                      /\ Busy(j)' = {} \/ repo.script' => Exact(RepoStored', j)
    BY DEF EntityInv, Completes, Exact, Shaped, Args, Target, EntriesOf
  <2>1. j \notin dirt
    OBVIOUS
  <2>2. /\ \A v, u \in Busy(j) : v = u
        /\ \A v \in Busy(j) : Completes(RepoStored, writer[v].cmds, j)
        /\ Busy(j) = {} \/ repo.script => Exact(RepoStored, j)
    BY <2>1 DEF RepoInv, EntityInv
  <2>3. CASE j = i
    <3>1. Completes(t, r.cmds, i) /\ (repo.script => r.cmds = <<>>)
      BY <2>2, <2>3, <1>2
    <3>2. Busy(i) = {w}
      BY <2>2, <2>3, <1>2
    <3>3. Busy(i)' = IF r.cmds = <<>> THEN {} ELSE {w}
      BY <3>2, <1>1 DEF Busy
    <3>4. r.cmds = <<>> => Exact(t, i)
      BY <3>1, NothingLeft
    <3> QED BY <2>3, <3>1, <3>3, <3>4, <1>1
  <2>4. CASE j # i
    <3>1. Busy(j)' = Busy(j)
      BY <2>4, <1>1 DEF Busy
    <3>2. \A v \in Busy(j) : v \in Writers /\ v # w
      BY <2>4 DEF Busy
    <3>3. RepoStored.entity[j] = t.entity[j] /\ EntriesOf(RepoStored, j) = EntriesOf(t, j)
      BY <2>4, <1>2
    <3>4. /\ Exact(RepoStored, j) => Exact(t, j)
          /\ \A c : Completes(RepoStored, c, j) => Completes(t, c, j)
      BY <3>3, SameEntity
    <3> QED BY <2>2, <3>1, <3>2, <3>4, <1>1
  <2> QED BY <2>3, <2>4
<1> QED BY <1>1, <1>3 DEF RepoInv

\* The store changes on an entity that is dirty from now on; no client moves.
LEMMA DirtKeeps ==
  ASSUME RepoInv, NEW i \in EntityIds, NEW t \in Stores, RepoStored' = t, writer' = writer, repo' = repo, dirt' = dirt \cup {i},
         \A j \in EntityIds : j # i => t.entity[j] = entity[j] /\ EntriesOf(t, j) = EntriesOf(RepoStored, j)
  PROVE  RepoInv'
<1>1. RepoTyped'
  BY DEF RepoInv, RepoTyped, WriterTyped
<1>2. RepoStored.entity = entity
  BY DEF RepoStored
<1>3. EntityInv'
  <2> SUFFICES ASSUME NEW j \in EntityIds, j \notin dirt'
               PROVE  /\ \A v, u \in Busy(j)' : v = u
                      /\ \A v \in Busy(j)' : Completes(RepoStored', writer'[v].cmds, j)
                      /\ Busy(j)' = {} \/ repo.script' => Exact(RepoStored', j)
    <3>1. ASSUME NEW c, NEW j \in EntityIds PROVE Completes(RepoStored', c, j) <=> Completes(t, c, j)
      OBVIOUS
    <3> QED BY <3>1, Zenon DEF EntityInv
  <2>1. j \notin dirt /\ j # i
    OBVIOUS
  <2>2. /\ \A v, u \in Busy(j) : v = u
        /\ \A v \in Busy(j) : Completes(RepoStored, writer[v].cmds, j)
        /\ Busy(j) = {} \/ repo.script => Exact(RepoStored, j)
    BY <2>1 DEF RepoInv, EntityInv
  <2>3. Busy(j)' = Busy(j)
    BY DEF Busy
  <2>4. /\ Exact(RepoStored, j) => Exact(t, j)
        /\ \A c : Completes(RepoStored, c, j) => Completes(t, c, j)
    BY <2>1, <1>2, SameEntity
  <2> QED BY <2>2, <2>3, <2>4
<1> QED BY <1>1, <1>3 DEF RepoInv

\* One step of a client, or a key that expires.
LEMMA RepoKeeps ==
  ASSUME RepoInv, [RepoNext]_repoVars
  PROVE  RepoInv'
<1>0. /\ RepoTyped /\ RepoStored \in Stores /\ RepoStored.entity = entity /\ RepoStored.ttl = ttl /\ RepoStored.entries = entries
      /\ repo \in [kind : {"hash", "json"}, script : BOOLEAN]
      /\ \A w \in Writers : WriterTyped(writer[w])
  BY DEF RepoInv, RepoTyped, RepoStored
<1>1. RepoIdle.todo = <<>> /\ RepoIdle.cmds = <<>> /\ <<>> \in Seq(Item) /\ WriterTyped(RepoIdle)
  BY DEF RepoIdle, WriterTyped
<1>2. ASSUME NEW w \in Writers, NEW n \in 1..BatchMax, NEW items \in [1..n -> Item], SaveBatch(w, items)
      PROVE  RepoInv'
  <2>1. writer[w] = RepoIdle /\ writer' = [writer EXCEPT ![w].todo = items] /\ UNCHANGED <<repo, entity, ttl, entries, dirt>>
    BY <1>2 DEF SaveBatch
  <2>2. PICK r : r = [RepoIdle EXCEPT !.todo = items]  OBVIOUS
  <2>3. items \in Seq(Item)
    OBVIOUS
  <2>4. r.cmds = <<>> /\ WriterTyped(r)
    BY <2>2, <2>3 DEF RepoIdle, WriterTyped
  <2>5. writer' = [writer EXCEPT ![w] = r]
    BY <2>1, <2>2
  <2>6. RepoStored' = RepoStored
    BY <2>1 DEF RepoStored
  <2>7. RepoTyped' /\ writer'[w] = r /\ \A u \in Writers : u # w => writer'[u] = writer[u]
    BY <1>0, <2>1, <2>4, <2>5, <2>6, WriterTypedKept
  <2>8. \A j : Busy(j)' = Busy(j) /\ \A v \in Busy(j) : writer'[v] = writer[v]
    BY <2>1, <2>4, <2>7, <1>1 DEF Busy
  <2>9. EntityInv'
    <3> SUFFICES ASSUME NEW j \in EntityIds, j \notin dirt'
                 PROVE  /\ \A v, u \in Busy(j)' : v = u
                        /\ \A v \in Busy(j)' : Completes(RepoStored', writer'[v].cmds, j)
                        /\ Busy(j)' = {} \/ repo.script' => Exact(RepoStored', j)
      BY DEF EntityInv, Completes, Exact, Shaped, Args, Target, EntriesOf
    <3>1. /\ \A v, u \in Busy(j) : v = u
          /\ \A v \in Busy(j) : Completes(RepoStored, writer[v].cmds, j)
          /\ Busy(j) = {} \/ repo.script => Exact(RepoStored, j)
      BY <2>1 DEF RepoInv, EntityInv
    <3> QED BY <3>1, <2>1, <2>6, <2>8
  <2> QED BY <2>7, <2>9 DEF RepoInv
<1>3. ASSUME NEW w \in Writers, Save(w) PROVE RepoInv'
  <2>1. writer[w].todo # <<>> /\ writer[w].cmds = <<>> /\ writer[w].todo \in Seq(Item)
    BY <1>0, <1>3 DEF Save, WriterTyped
  <2>2. PICK e : e = Head(writer[w].todo)  OBVIOUS
  <2>3. e \in Item /\ Tail(writer[w].todo) \in Seq(Item)
    BY <2>1, <2>2
  <2>4. e.id \in EntityIds /\ e.v \in Values /\ e.expires \in BOOLEAN
    BY <2>3 DEF Item
  <2>5. PICK c : c = SaveCommands(e.id, e.v, e.expires)  OBVIOUS
  <2>6. Prepare(w, e.id, c, Tail(writer[w].todo), FALSE)
    BY <1>3, <2>2, <2>5 DEF Save
  <2>7. Prepared(c, e.id) /\ (Exact(RepoStored, e.id) => Completes(RepoStored, c, e.id))
    BY <1>0, <2>4, <2>5, SaveIs
  <2> QED BY <2>1, <2>3, <2>4, <2>6, <2>7, PrepareKeeps
<1>4. ASSUME NEW w \in Writers, NEW i \in EntityIds, RepoDelete(w, i) PROVE RepoInv'
  <2>1. PICK c : c = DeleteCommands(i)  OBVIOUS
  <2>2. Prepare(w, i, c, <<>>, FALSE) /\ writer[w].cmds = <<>>
    BY <1>1, <1>4, <2>1 DEF RepoDelete
  <2>3. Prepared(c, i) /\ (Exact(RepoStored, i) => Completes(RepoStored, c, i))
    BY <1>0, <2>1, DeleteIs
  <2> QED BY <1>1, <2>2, <2>3, PrepareKeeps
<1>5. ASSUME NEW w \in Writers, NEW i \in EntityIds, NEW v \in Values, UpdateField(w, i, v) PROVE RepoInv'
  <2>1. PICK c : c = UpdateCommands(i, v)  OBVIOUS
  <2>2. Prepare(w, i, c, <<>>, repo.script /\ entity[i] = Blank) /\ writer[w].cmds = <<>> /\ entity[i] # Absent
    BY <1>1, <1>5, <2>1 DEF UpdateField
  <2>3. Prepared(c, i) /\ (Exact(RepoStored, i) /\ ~(repo.script /\ entity[i] = Blank) => Completes(RepoStored, c, i))
    BY <1>0, <2>1, <2>2, UpdateIs
  <2> QED BY <1>1, <2>2, <2>3, PrepareKeeps
<1>6. ASSUME NEW w \in Writers, NEW i \in EntityIds, NEW v \in Values, IncrementField(w, i, v) PROVE RepoInv'
  <2>1. entity' = [entity EXCEPT ![i] = v] /\ dirt' = dirt \cup {i} /\ UNCHANGED <<repo, ttl, entries, writer>>
    BY <1>6 DEF IncrementField
  <2>2. entity \in [EntityIds -> Values \cup {Absent}] /\ ttl \in SUBSET EntityIds /\ entries \in SUBSET (Values \X EntityIds)
    BY <1>0 DEF Stores
  <2>3. PICK t : t = RepoStored'  OBVIOUS
  <2>4. t = [entity |-> entity', ttl |-> ttl, entries |-> entries]
    BY <2>1, <2>3 DEF RepoStored
  <2>5. entity' \in [EntityIds -> Values \cup {Absent}] /\ \A j \in EntityIds : j # i => entity'[j] = entity[j]
    BY <2>1, <2>2
  <2>6. t \in Stores /\ t.entity = entity' /\ t.entries = entries
    BY <2>2, <2>4, <2>5 DEF Stores
  <2>7. \A j \in EntityIds : j # i => t.entity[j] = entity[j] /\ EntriesOf(t, j) = EntriesOf(RepoStored, j)
    BY <1>0, <2>5, <2>6 DEF EntriesOf
  <2> QED BY <2>1, <2>3, <2>6, <2>7, DirtKeeps
<1>7. ASSUME NEW i \in EntityIds, EntityExpires(i) PROVE RepoInv'
  <2>1. PICK x : x = Cmd("drop", i)  OBVIOUS
  <2>2. x \in Command(i)
    BY <2>1 DEF Command
  <2>3. PICK t : t = Effect(RepoStored, x)  OBVIOUS
  <2>4. Becomes(t) /\ dirt' = dirt \cup {i} /\ repo' = repo /\ writer' = writer
    BY <1>7, <2>1, <2>3 DEF EntityExpires
  <2>5. t \in Stores /\ \A j \in EntityIds : j # i => t.entity[j] = RepoStored.entity[j] /\ EntriesOf(t, j) = EntriesOf(RepoStored, j)
    BY <1>0, <2>2, <2>3, EffectIs
  <2>6. RepoStored' = t
    BY <2>4, <2>5, Becoming
  <2> QED BY <1>0, <2>4, <2>5, <2>6, DirtKeeps
<1>8. ASSUME NEW w \in Writers, Send(w) PROVE RepoInv'
  <2>1. writer[w].cmds # <<>>
    BY <1>8 DEF Send
  <2>2. PICK c, i, t, rest : Sends(w, c, i, t, rest)
    BY <1>0, <2>1, SendIs
  <2>3. /\ c = writer[w].cmds /\ i = writer[w].id
        /\ t = Applied(SubSeq(c, 1, Sent(c))) /\ rest = SubSeq(c, Sent(c) + 1, Len(c))
        /\ i \in EntityIds /\ t \in Stores /\ rest \in Seq(Command(i)) /\ Len(rest) <= 4
        /\ \A j \in EntityIds : j # i => t.entity[j] = entity[j] /\ EntriesOf(t, j) = EntriesOf(RepoStored, j)
        /\ Completes(RepoStored, c, i) => Completes(t, rest, i)
        /\ repo.script => rest = <<>>
    BY <2>2 DEF Sends
  <2>4. c # <<>> /\ Becomes(t) /\ writer' = RepoDone(w, rest) /\ repo' = repo /\ dirt' = dirt
    BY <1>8, <2>3 DEF Send
  <2>5. RepoStored' = t
    BY <2>3, <2>4, Becoming
  <2>6. PICK r : r = IF rest = <<>> /\ writer[w].todo = <<>> THEN RepoIdle ELSE [writer[w] EXCEPT !.cmds = rest]  OBVIOUS
  <2>7. writer' = [writer EXCEPT ![w] = r]
    BY <2>4, <2>6 DEF RepoDone
  <2>8. WriterTyped(r) /\ r.cmds = rest /\ (r.cmds # <<>> => r.id = i)
    <3>1. CASE rest = <<>> /\ writer[w].todo = <<>>
      BY <1>1, <2>6, <3>1
    <3>2. CASE ~(rest = <<>> /\ writer[w].todo = <<>>)
      <4>1. r = [todo |-> writer[w].todo, id |-> i, cmds |-> rest]
        <5>1. PICK a : a = writer[w]  OBVIOUS
        <5>2. a = [todo |-> a.todo, id |-> a.id, cmds |-> a.cmds]
          BY <1>0, <5>1 DEF WriterTyped
        <5>3. r = [a EXCEPT !.cmds = rest]
          BY <2>6, <3>2, <5>1
        <5>4. r = [todo |-> a.todo, id |-> a.id, cmds |-> rest]
          BY <5>2, <5>3
        <5> QED BY <2>3, <5>1, <5>4
      <4>2. r.todo = writer[w].todo /\ r.id = i /\ r.cmds = rest
        BY <4>1
      <4>3. writer[w].todo \in Seq(Item)
        BY <1>0 DEF WriterTyped
      <4> QED BY <2>3, <4>1, <4>2, <4>3 DEF WriterTyped
    <3> QED BY <3>1, <3>2
  <2>9. Completes(RepoStored, writer[w].cmds, i) => Completes(t, r.cmds, i) /\ (repo.script => r.cmds = <<>>)
    <3>1. c = writer[w].cmds /\ r.cmds = rest
      BY <2>3, <2>8
    <3>2. Completes(RepoStored, c, i) => Completes(t, rest, i)
      BY <2>2 DEF Sends
    <3>3. repo.script => rest = <<>>
      BY <2>2 DEF Sends
    <3> QED BY <3>1, <3>2, <3>3, Zenon
  <2>10. \A j \in EntityIds : j # i => t.entity[j] = entity[j] /\ EntriesOf(t, j) = EntriesOf(RepoStored, j)
    BY <2>2 DEF Sends
  <2>11. i \in EntityIds /\ t \in Stores /\ writer[w].id = i /\ writer[w].cmds # <<>> /\ repo' = repo /\ dirt \subseteq dirt'
    BY <2>1, <2>3, <2>4
  <2> QED BY <2>5, <2>7, <2>8, <2>9, <2>10, <2>11, StoreKeeps
<1>9. ASSUME NEW w \in Writers, SendFails(w) PROVE RepoInv'
  <2>1. writer[w].cmds # <<>>
    BY <1>9 DEF SendFails
  <2>2. PICK c, i, t, rest : Sends(w, c, i, t, rest)
    BY <1>0, <2>1, SendIs
  <2>3. /\ c = writer[w].cmds /\ i = writer[w].id
        /\ t = Applied(SubSeq(c, 1, Sent(c))) /\ rest = SubSeq(c, Sent(c) + 1, Len(c))
        /\ i \in EntityIds /\ t \in Stores /\ rest \in Seq(Command(i)) /\ Len(rest) <= 4
        /\ \A j \in EntityIds : j # i => t.entity[j] = entity[j] /\ EntriesOf(t, j) = EntriesOf(RepoStored, j)
        /\ Completes(RepoStored, c, i) => Completes(t, rest, i)
        /\ repo.script => rest = <<>>
    BY <2>2 DEF Sends
  <2>4. /\ c # <<>> /\ writer' = [writer EXCEPT ![w] = RepoIdle] /\ repo' = repo
        /\ dirt' = IF repo.script THEN dirt ELSE dirt \cup {i}
        /\ UNCHANGED <<entity, ttl, entries>> \/ Becomes(t)
    BY <1>9, <2>3 DEF SendFails
  <2>5. dirt \subseteq dirt' /\ (i \notin dirt' => repo.script)
    BY <2>4
  <2>6. CASE Becomes(t)
    <3>1. RepoStored' = t
      BY <2>3, <2>6, Becoming
    <3>2. i \notin dirt' /\ Completes(RepoStored, writer[w].cmds, i) => Completes(t, RepoIdle.cmds, i)
      <4>1. c = writer[w].cmds /\ RepoIdle.cmds = <<>>
        BY <1>1, <2>3
      <4>2. Completes(RepoStored, c, i) => Completes(t, rest, i)
        BY <2>2 DEF Sends
      <4>3. repo.script => rest = <<>>
        BY <2>2 DEF Sends
      <4> QED BY <2>5, <4>1, <4>2, <4>3, Zenon
    <3>3. \A j \in EntityIds : j # i => t.entity[j] = entity[j] /\ EntriesOf(t, j) = EntriesOf(RepoStored, j)
      BY <2>2 DEF Sends
    <3>4. i \in EntityIds /\ t \in Stores /\ writer[w].id = i /\ writer[w].cmds # <<>> /\ repo' = repo /\ dirt \subseteq dirt'
      BY <2>1, <2>3, <2>4, <2>5
    <3>5. writer' = [writer EXCEPT ![w] = RepoIdle]
      BY <2>4
    <3> QED BY <1>1, <3>1, <3>2, <3>3, <3>4, <3>5, StoreKeeps
  <2>7. CASE UNCHANGED <<entity, ttl, entries>>
    <3>1. RepoStored' = RepoStored
      BY <2>7 DEF RepoStored
    <3>2. Exact(RepoStored, i) => Completes(RepoStored, <<>>, i)
      <4>1. Args(<<>>, "del") = {} /\ Args(<<>>, "set") = {} /\ Target(RepoStored, <<>>, i) = RepoStored.entity[i] /\ Shaped(<<>>)
        BY DEF Args, Target, Shaped
      <4> QED BY <4>1 DEF Exact, Completes
    <3>3. i \notin dirt' /\ (repo.script => Exact(RepoStored, i)) => Completes(RepoStored, RepoIdle.cmds, i)
      BY <1>1, <2>5, <3>2
    <3> QED BY <1>0, <1>1, <2>3, <2>4, <2>5, <3>1, <3>3, StoreKeeps
  <2> QED BY <2>4, <2>6, <2>7
<1>10. CASE UNCHANGED repoVars
  <2>1. repo' = repo /\ entity' = entity /\ ttl' = ttl /\ entries' = entries /\ writer' = writer /\ dirt' = dirt
    BY <1>10 DEF repoVars
  <2>2. RepoStored' = RepoStored /\ \A j : Busy(j)' = Busy(j)
    BY <2>1 DEF RepoStored, Busy
  <2>3. RepoTyped'
    BY <1>0, <2>1, <2>2 DEF RepoTyped, WriterTyped, RepoInv
  <2>4. EntityInv'
    BY <2>1, <2>2 DEF RepoInv, EntityInv, Completes, Exact, Shaped, Args, Target, EntriesOf
  <2> QED BY <2>3, <2>4 DEF RepoInv
<1> QED BY <1>2, <1>3, <1>4, <1>5, <1>6, <1>7, <1>8, <1>9, <1>10 DEF RepoNext

\* Repositories, for every number of clients, entities and values and every batch size:
\* between writes, and unless something in dirt has happened to it, an entity is found under
\* its value and under no other, whatever interleaves with its writes.
THEOREM IndexExactAlways == Spec => []IndexExact
<1>1. Init => RepoInv
  BY RepoStarts DEF Init
<1>2. RepoInv /\ [Next]_vars => RepoInv'
  BY RepoKeeps DEF Next, vars
<1>3. RepoInv => IndexExact
  <2> SUFFICES ASSUME RepoInv, NEW i \in EntityIds, Busy(i) = {}, i \notin dirt
               PROVE  /\ { e \in entries : e[2] = i } = EntityIndexEntries(entity[i], i)
                      /\ \A v \in Values \ {Blank} : i \in FindByField(v) <=> entity[i] = v
    BY DEF IndexExact
  <2>1. Exact(RepoStored, i) /\ RepoStored.entity = entity /\ RepoStored.entries = entries
    BY DEF RepoInv, EntityInv, RepoStored
  <2>2. { e \in entries : e[2] = i } = EntityIndexEntries(entity[i], i)
    BY <2>1 DEF Exact, EntriesOf
  <2>3. ASSUME NEW v \in Values \ {Blank} PROVE i \in FindByField(v) <=> entity[i] = v
    <3>1. v # Absent
      BY RepositoryAssumption
    <3>2. <<v, i>> \in entries <=> <<v, i>> \in EntityIndexEntries(entity[i], i)
      BY <2>2
    <3>3. <<v, i>> \in EntityIndexEntries(entity[i], i) <=> entity[i] = v
      BY <3>1 DEF EntityIndexEntries
    <3> QED BY <3>1, <3>2, <3>3 DEF FindByField
  <2> QED BY <2>2, <2>3
<1> QED BY <1>1, <1>2, <1>3, PTL DEF Spec
=============================================================================
