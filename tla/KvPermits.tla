---------------------------- MODULE KvPermits ------------------------------
(***************************************************************************)
(* kvx/module/lock besides Lock itself: Semaphore, RWLock and Manager,     *)
(* each over calls to the server between which others come.                *)
(***************************************************************************)
EXTENDS Integers, FiniteSets

(***************************************************************************)
(* kvx/module/lock.Semaphore: a count of permits kept under one key with   *)
(* Get and Set, so that Acquire and Release are two server calls each.     *)
(* Clients are the goroutines (of any process) using the same key; a       *)
(* client that has a permit may die with it.                               *)
(***************************************************************************)

CONSTANTS
  Clients, \* users of the semaphore
  Limit,   \* NewSemaphore's limit
  SemExpires, \* whether the ttl given to Acquire can run out
  NoKey    \* the key is absent (kvx.ErrNil)

ASSUME SemaphoreAssumption ==
  IsFiniteSet(Clients) /\ Limit \in Nat /\ SemExpires \in BOOLEAN /\ NoKey \notin 0..Limit

VARIABLES
  count,    \* the number stored under the key
  leased,   \* the key has a time to live
  semPc,       \* where a client is
  seen,     \* what its loadCount returned
  raced     \* history: an update was based on an old count, the key expired,
            \* or a Set took effect although it reported an error

semVars == <<count, leased, semPc, seen, raced>>

SemPC == { "idle", "acquiring", "held", "releasing", "dead" }
Updating == { c \in Clients : semPc[c] \in {"acquiring", "releasing"} }

SemInit ==
  /\ count = NoKey /\ leased = FALSE /\ raced = FALSE
  /\ semPc = [c \in Clients |-> "idle"] /\ seen = [c \in Clients |-> 0]

SemGoto(c, p) == semPc' = [semPc EXCEPT ![c] = p]
See(c, n) == seen' = [seen EXCEPT ![c] = n]
Stored == IF count = NoKey THEN 0 ELSE count

\* Fault: the limit is compared with > instead of >=.
AcquireOneMore(c) ==
  /\ semPc[c] = "idle"
  /\ Stored <= Limit
  /\ See(c, Stored) /\ SemGoto(c, "acquiring")
  /\ UNCHANGED <<count, leased, raced>>

\* Acquire up to its decision: loadCount takes a missing key for 0; a full
\* semaphore or a failing Get leaves the client where it was.
Acquire(c) ==
  /\ semPc[c] = "idle"
  /\ Stored < Limit
  /\ See(c, Stored) /\ SemGoto(c, "acquiring")
  /\ UNCHANGED <<count, leased, raced>>

\* storeCount: the count goes back, and whoever else is between its load and
\* its store now works on an old one.
Store(c, n, ttl) ==
  /\ count' = n /\ leased' = ttl
  /\ raced' = (raced \/ Updating # {c})
  /\ See(c, 0)

\* A Set that reports an error, having taken effect or not.
StoreFails(c, n, ttl) ==
  /\ \/ count' = n /\ leased' = ttl /\ raced' = TRUE
     \/ UNCHANGED <<count, leased, raced>>
  /\ See(c, 0)

\* The Set of Acquire: the key gets the caller's ttl.
AcquireStores(c) ==
  /\ semPc[c] = "acquiring"
  /\ \/ Store(c, seen[c] + 1, SemExpires) /\ SemGoto(c, "held")
     \/ StoreFails(c, seen[c] + 1, SemExpires) /\ SemGoto(c, "idle")

\* Release up to its Set; a missing key is an error here.
Release(c) ==
  /\ semPc[c] = "held"
  /\ IF count = NoKey
       THEN SemGoto(c, "idle") /\ UNCHANGED seen
       ELSE SemGoto(c, "releasing") /\ See(c, count)
  /\ UNCHANGED <<count, leased, raced>>

\* The Set of Release, without a time to live; the count stays above zero.
ReleaseStores(c) ==
  LET n == IF seen[c] > 0 THEN seen[c] - 1 ELSE seen[c] IN
  /\ semPc[c] = "releasing"
  /\ \/ Store(c, n, FALSE) /\ SemGoto(c, "idle")
     \/ StoreFails(c, n, FALSE) /\ SemGoto(c, "held")

\* The key's time to live runs out.
SemExpire ==
  /\ leased /\ count # NoKey
  /\ count' = NoKey /\ leased' = FALSE /\ raced' = TRUE
  /\ UNCHANGED <<semPc, seen>>

\* The holder of a permit is gone without a Release.
Die(c) == semPc[c] = "held" /\ SemGoto(c, "dead") /\ UNCHANGED <<count, leased, seen, raced>>

SemNext ==
  \/ SemExpire
  \/ \E c \in Clients :
       \/ Acquire(c) \/ AcquireStores(c) \/ Release(c) \/ ReleaseStores(c) \/ Die(c)

SemSpec == SemInit /\ [][SemNext]_semVars

-----------------------------------------------------------------------------
\* The stored number stays between 0 and the limit, even when updates are lost:
\* a count never blocks or admits more than Limit on its own account.
CountWithinLimit ==
  /\ count \in {NoKey} \cup 0..Limit
  /\ semPc \in [Clients -> SemPC] /\ seen \in [Clients -> 0..Limit]

\* Overlapping updates and expiry are the only things that make the count wrong:
\* otherwise it is exactly the number of permits handed out.
PermitOut(c) == semPc[c] \in {"held", "releasing", "dead"}
ExactUnlessRaced ==
  ~raced => Stored = Cardinality({ c \in Clients : PermitOut(c) })

-----------------------------------------------------------------------------
(***************************************************************************)
(* kvx/module/lock.RWLock: one key per reader and one key for the writer,  *)
(* written with Set, read with Exists, removed with Delete.  A member of   *)
(* Objects is one RWLock object with its own identifier.                   *)
(***************************************************************************)

CONSTANTS
  Objects,  \* RWLock objects on one key
  RWExpires,  \* whether a ttl can run out
  NoWriter  \* the write key is absent

ASSUME RWAssumption == RWExpires \in BOOLEAN /\ NoWriter \notin Objects

VARIABLES
  writeKey,   \* the identifier under the write key
  readerKeys, \* the objects whose reader key exists
  rwPc,         \* where an object's user is
  disturbed   \* history: a Lock met another user, or a key expired

rwVars == <<writeKey, readerKeys, rwPc, disturbed>>

RWPC == { "idle", "checked", "reading", "writing" }

RWInit ==
  /\ writeKey = NoWriter /\ readerKeys = {} /\ disturbed = FALSE
  /\ rwPc = [o \in Objects |-> "idle"]

RWGoto(o, p) == rwPc' = [rwPc EXCEPT ![o] = p]

\* RLock: the write key does not exist.  (If it does, or Exists fails, the
\* caller has an error and no lock.)
RLock(o) ==
  /\ rwPc[o] = "idle" /\ writeKey = NoWriter
  /\ RWGoto(o, "checked") /\ UNCHANGED <<writeKey, readerKeys, disturbed>>

\* RLock stores the reader's key; or that fails.
RLockStores(o) ==
  /\ rwPc[o] = "checked"
  /\ \/ RWGoto(o, "reading") /\ readerKeys' = readerKeys \cup {o}
     \/ RWGoto(o, "idle") /\ UNCHANGED readerKeys
  /\ UNCHANGED <<writeKey, disturbed>>

\* RUnlock; a failing Delete leaves the key to its ttl.
RUnlock(o) ==
  /\ rwPc[o] = "reading" /\ RWGoto(o, "idle")
  /\ \/ readerKeys' = readerKeys \ {o}
     \/ UNCHANGED readerKeys
  /\ UNCHANGED <<writeKey, disturbed>>

\* Lock: the write key is set, whatever it or the reader keys say; the Set may
\* report an error all the same.
Lock(o) ==
  /\ rwPc[o] = "idle"
  /\ RWGoto(o, "writing") \/ UNCHANGED rwPc
  /\ writeKey' = o
  /\ disturbed' = (disturbed \/ \E q \in Objects \ {o} : rwPc[q] # "idle")
  /\ UNCHANGED readerKeys

\* Unlock: the write key is deleted, whoever's it is; or the Delete fails.
Unlock(o) ==
  /\ rwPc[o] = "writing" /\ RWGoto(o, "idle")
  /\ writeKey' \in {NoWriter, writeKey}
  /\ UNCHANGED <<readerKeys, disturbed>>

\* A key reaches the end of its time to live; its owner does not notice.
RWExpire ==
  /\ RWExpires
  /\ \/ /\ writeKey # NoWriter /\ writeKey' = NoWriter
        /\ disturbed' = (disturbed \/ \E o \in Objects : rwPc[o] = "writing")
        /\ UNCHANGED readerKeys
     \/ /\ \E o \in readerKeys : readerKeys' = readerKeys \ {o}
        /\ UNCHANGED <<writeKey, disturbed>>
  /\ UNCHANGED rwPc

RWNext ==
  \/ RWExpire
  \/ \E o \in Objects :
       RLock(o) \/ RLockStores(o) \/ RUnlock(o) \/ Lock(o) \/ Unlock(o)

RWSpec == RWInit /\ [][RWNext]_rwVars

-----------------------------------------------------------------------------
Inside(o) == rwPc[o] \in {"reading", "writing"}
Excludes ==
  \A o, q \in Objects : rwPc[o] = "writing" /\ Inside(q) => o = q

\* The write lock shuts everyone else out as long as every Lock was called with
\* nobody else active and no write key expired under its holder: readers that
\* come later are stopped by the check in RLock.
ExclusiveIfLockedAlone == ~disturbed => Excludes

-----------------------------------------------------------------------------
(***************************************************************************)
(* kvx/module/lock.Manager: a map from keys to the Lock objects it has     *)
(* acquired, used by several goroutines, and WithLock next to it. A Lock   *)
(* is its identifier; the server keeps the identifier under the key and    *)
(* releases it to nobody else. One key; auto-extension is KvLock's part.   *)
(***************************************************************************)

CONSTANTS
  Callers,  \* goroutines that use the manager
  MaxLocks, \* bound: Lock objects made
  NoLock    \* no lock under the key

ASSUME ManagerAssumption == MaxLocks \in Nat /\ NoLock \notin Nat

VARIABLES
  holder,   \* the server: identifier under the key
  locks,    \* Manager.locks: the Lock under the key
  mgr,      \* each caller: place, and the Lock it works on
  made,     \* Lock objects made so far
  lapsed,   \* history: identifiers whose lease ran out
  displaced \* history: pairs of a Lock in the map and the one that replaced it

managerVars == <<holder, locks, mgr, made, lapsed, displaced>>

ManagerInit ==
  /\ holder = NoLock /\ locks = NoLock /\ made = 0 /\ lapsed = {} /\ displaced = {}
  /\ mgr = [c \in Callers |-> [at |-> "idle", lock |-> NoLock]]

MgrSet(c, at, lock) == mgr' = [mgr EXCEPT ![c] = [at |-> at, lock |-> lock]]

\* Manager.Acquire, TryAcquire and WithLock: New and Lock.Acquire. A key that is
\* taken is an error, and the Lock object is dropped.
ManagerAcquire(c) ==
  /\ mgr[c].at = "idle" /\ made < MaxLocks /\ made' = made + 1
  /\ \/ holder = NoLock /\ holder' = made + 1
        /\ \E at \in {"acquired", "fn"} : MgrSet(c, at, made + 1)
     \/ holder # NoLock /\ UNCHANGED <<holder, mgr>>
  /\ UNCHANGED <<locks, lapsed, displaced>>

\* m.locks.Set, after Acquire has returned.
ManagerStores(c) ==
  /\ mgr[c].at = "acquired" /\ locks' = mgr[c].lock
  /\ displaced' = IF locks = NoLock THEN displaced ELSE displaced \cup {<<locks, mgr[c].lock>>}
  /\ MgrSet(c, "idle", NoLock) /\ UNCHANGED <<holder, made, lapsed>>

\* Manager.Release and each key of ReleaseAll: LoadAndDelete.
ManagerRelease(c) ==
  /\ mgr[c].at = "idle" /\ locks # NoLock
  /\ MgrSet(c, "releasing", locks) /\ locks' = NoLock
  /\ UNCHANGED <<holder, made, lapsed, displaced>>

\* WithLock: fn returns, or panics, and the deferred Release runs.
releaseLockOnExit(c) ==
  /\ mgr[c].at = "fn" /\ MgrSet(c, "releasing", mgr[c].lock)
  /\ UNCHANGED <<holder, locks, made, lapsed, displaced>>

\* Lock.Release at the server: only the owner's key goes.
LockRelease(c) ==
  /\ mgr[c].at = "releasing"
  /\ holder' = IF holder = mgr[c].lock THEN NoLock ELSE holder
  /\ MgrSet(c, "idle", NoLock) /\ UNCHANGED <<locks, made, lapsed, displaced>>

\* The lease runs out.
LeaseEnds ==
  /\ holder # NoLock /\ lapsed' = lapsed \cup {holder} /\ holder' = NoLock
  /\ UNCHANGED <<locks, mgr, made, displaced>>

ManagerNext ==
  \/ LeaseEnds
  \/ \E c \in Callers : ManagerAcquire(c) \/ ManagerStores(c) \/ ManagerRelease(c) \/ releaseLockOnExit(c) \/ LockRelease(c)

\* A key taken through the manager can be released through it: the Lock that holds
\* the key is in the map or in the hands of a call. The one exception is a Lock whose
\* entry was replaced by the late Set of another one, which had lost its lease by then
\* or lost it afterwards.
HeldIsManaged ==
  holder # NoLock =>
    \/ locks = holder
    \/ \E c \in Callers : mgr[c].lock = holder
    \/ \E l \in lapsed : <<holder, l>> \in displaced
=============================================================================
