--------------------------- MODULE CxConcurrent ----------------------------
(***************************************************************************)
(* What the concurrent containers of collectionx do in more than one step: *)
(* the shards of a map that are locked in turn, and a callback that runs   *)
(* under the lock of its set.                                              *)
(***************************************************************************)
EXTENDS Integers, FiniteSets, FiniteSetsExt, Functions

(***************************************************************************)
(* collectionx/mapping: ShardedConcurrentMap. A method on one key runs     *)
(* under the lock of the key's shard and is one step; SetAll, Clear, Len,  *)
(* Keys, Values and All take the locks one after the other, so other calls *)
(* come between their steps.                                               *)
(***************************************************************************)

CONSTANTS
  ShardKeys,   \* keys; the hash of a key is the key itself (HashUint64)
  ShardVals,   \* values
  ShardCount   \* the shardCount NewShardedConcurrentMap is given

ASSUME ShardedAssumption == ShardKeys \subseteq Nat /\ ShardCount \in Nat

VARIABLES
  shards,      \* the entries of each shard
  reader,      \* a goroutine inside All: the next shard and what it has copied
  during,      \* ghost: entries present at every, and at some, moment of that call
  batch        \* a goroutine inside SetAll or Clear: what it has left to do

shardedVars == <<shards, reader, during, batch>>

\* The count is rounded up to a power of two by doubling; zero means 32.
RoundedShards ==
  LET want == IF ShardCount = 0 THEN 32 ELSE ShardCount
      doubled[n \in 1..(2 * want)] == IF n < want THEN doubled[2 * n] ELSE n
  IN doubled[1]
ShardIds == 0..(RoundedShards - 1)

\* hash & mask for mask = count - 1
shard(k) == k % RoundedShards

EntrySetOf(s) == UNION { { <<k, s[i][k]>> : k \in DOMAIN s[i] } : i \in DOMAIN s }
Over(f, g) == [x \in DOMAIN f \cup DOMAIN g |-> IF x \in DOMAIN f THEN f[x] ELSE g[x]]
NoReader == [next |-> -1, out |-> << >>]

ShardedInit ==
  /\ shards = [i \in ShardIds |-> << >>]
  /\ reader = NoReader /\ during = [always |-> {}, ever |-> {}]
  /\ batch = [todo |-> {}, clear |-> -1]

\* Every change of the entries is seen by the ghost of a call that is under way.
Store(s) ==
  /\ shards' = s
  /\ during' = IF reader.next = -1 THEN during
               ELSE [always |-> during.always \cap EntrySetOf(s), ever |-> during.ever \cup EntrySetOf(s)]

PutIn(s, k, v) == [s EXCEPT ![shard(k)] = Over([x \in {k} |-> v], @)]
ShardedSet == \E k \in ShardKeys, v \in ShardVals : Store(PutIn(shards, k, v)) /\ UNCHANGED <<reader, batch>>
ShardedGetOrStore ==
  \E k \in ShardKeys, v \in ShardVals :
    /\ Store(IF k \in DOMAIN shards[shard(k)] THEN shards ELSE PutIn(shards, k, v))
    /\ UNCHANGED <<reader, batch>>
\* Delete and LoadAndDelete
ShardedDelete ==
  \E k \in ShardKeys : /\ Store([shards EXCEPT ![shard(k)] = Restrict(@, DOMAIN @ \ {k})])
                       /\ UNCHANGED <<reader, batch>>

\* SetAll: Set for each entry of the source, in some order.
SetAllBegin ==
  /\ batch = [todo |-> {}, clear |-> -1]
  /\ \E v \in ShardVals : batch' = [batch EXCEPT !.todo = { <<k, v>> : k \in ShardKeys }]
  /\ UNCHANGED <<shards, reader, during>>
SetAllStep ==
  \E e \in batch.todo : /\ Store(PutIn(shards, e[1], e[2])) /\ batch' = [batch EXCEPT !.todo = @ \ {e}]
                        /\ UNCHANGED reader
ClearBegin ==
  batch = [todo |-> {}, clear |-> -1] /\ batch' = [batch EXCEPT !.clear = 0] /\ UNCHANGED <<shards, reader, during>>
ClearStep ==
  /\ batch.clear >= 0
  /\ Store([shards EXCEPT ![batch.clear] = << >>])
  /\ batch' = [batch EXCEPT !.clear = IF @ + 1 \in ShardIds THEN @ + 1 ELSE -1] /\ UNCHANGED reader

\* All, and in the same loop Keys, Values and Len.
AllBegin ==
  /\ reader.next = -1
  /\ reader' = [next |-> 0, out |-> << >>]
  /\ during' = [always |-> EntrySetOf(shards), ever |-> EntrySetOf(shards)] /\ UNCHANGED <<shards, batch>>

AllStep ==
  /\ reader.next \in ShardIds
  /\ reader' = [next |-> reader.next + 1, out |-> Over(shards[reader.next], reader.out)]
  /\ UNCHANGED <<shards, during, batch>>
AllReturn ==
  /\ reader.next = RoundedShards
  /\ reader' = NoReader /\ during' = [always |-> {}, ever |-> {}] /\ UNCHANGED <<shards, batch>>

ShardedNext == ShardedSet \/ ShardedGetOrStore \/ ShardedDelete \/ SetAllBegin \/ SetAllStep \/ ClearBegin \/ ClearStep
               \/ AllBegin \/ AllStep \/ AllReturn

\* What All returns while others write: every entry that was there for the whole
\* call is in it, and nothing is in it that was not there at some moment of the
\* call. (It need not be a state the map ever was in: the locks are taken in turn.)
SnapshotBracketed ==
  LET out == { <<k, reader.out[k]>> : k \in DOMAIN reader.out } IN
  /\ out \subseteq during.ever
  /\ reader.next = RoundedShards => during.always \subseteq out

-----------------------------------------------------------------------------
(***************************************************************************)
(* ConcurrentSet.Range of collectionx/set and the RWMutex of the set. The  *)
(* other concurrent containers call back on a copy; this one calls back    *)
(* with the read lock held.                                                *)
(***************************************************************************)

CONSTANTS
  Goroutines, \* goroutines that use one ConcurrentSet
  Callbacks   \* what the callback given to Range does with the set

ASSUME CallbacksAssumption == Callbacks \subseteq {"pure", "contains", "add"}

VARIABLES
  rw,         \* the RWMutex: who reads, who writes, who waits to write
  rangePc     \* what each goroutine does with the set

setRangeVars == <<rw, rangePc>>
Idle == [at |-> "idle", does |-> "pure"]

\* sync.RWMutex: a waiting writer keeps new readers out.
MayRead == rw.writer = {} /\ rw.waiting = {}
MayWrite(g) == g \in rw.waiting /\ rw.writer = {} /\ rw.readers = << >>
Readers(f, g, n) == IF n = 0 THEN Restrict(f, DOMAIN f \ {g}) ELSE Over([x \in {g} |-> n], f)

SetRangeInit ==
  /\ rw = [readers |-> << >>, writer |-> {}, waiting |-> {}]
  /\ rangePc = [g \in Goroutines |-> Idle]

\* Range takes the read lock and calls fn, which may use the set it iterates.
RangeCall(g) ==
  /\ rangePc[g].at = "idle" /\ MayRead
  /\ rw' = [rw EXCEPT !.readers = Readers(@, g, 1)]
  /\ \E does \in Callbacks : rangePc' = [rangePc EXCEPT ![g] = [at |-> "fn", does |-> does]]

\* fn calls Contains: a second read lock of the same goroutine.
FnContains(g) ==
  /\ rangePc[g] = [at |-> "fn", does |-> "contains"] /\ MayRead
  /\ rangePc' = [rangePc EXCEPT ![g].does = "pure"] /\ UNCHANGED rw

\* fn calls Add, or another goroutine does: Lock waits for every reader to leave.
AskLock(g) ==
  /\ rangePc[g] \in {Idle, [at |-> "fn", does |-> "add"]}
  /\ rw' = [rw EXCEPT !.waiting = @ \cup {g}]
  /\ rangePc' = [rangePc EXCEPT ![g].at = IF @ = "idle" THEN "add" ELSE "fnAdd"]
TakeLock(g) ==
  /\ rangePc[g].at \in {"add", "fnAdd"} /\ MayWrite(g)
  /\ rw' = [rw EXCEPT !.waiting = @ \ {g}, !.writer = {g}] /\ UNCHANGED rangePc
DropLock(g) ==
  /\ rw.writer = {g}
  /\ rw' = [rw EXCEPT !.writer = {}]
  /\ rangePc' = [rangePc EXCEPT ![g] = IF @.at = "add" THEN Idle ELSE [at |-> "fn", does |-> "pure"]]

\* Fault: the read lock is not dropped when fn ends the iteration.
RangeReturnKeepsLock(g) ==
  /\ rangePc[g] = [at |-> "fn", does |-> "pure"]
  /\ UNCHANGED rw /\ rangePc' = [rangePc EXCEPT ![g] = Idle]

RangeReturn(g) ==
  /\ rangePc[g] = [at |-> "fn", does |-> "pure"]
  /\ rw' = [rw EXCEPT !.readers = Readers(@, g, 0)] /\ rangePc' = [rangePc EXCEPT ![g] = Idle]

SetRangeNext ==
  \E g \in Goroutines : RangeCall(g) \/ AskLock(g) \/ FnContains(g) \/ TakeLock(g) \/ DropLock(g) \/ RangeReturn(g)

Blocked(g) ==
  \/ rangePc[g] = [at |-> "fn", does |-> "contains"] /\ ~MayRead
  \/ rangePc[g].at \in {"add", "fnAdd"} /\ ~MayWrite(g) /\ rw.writer # {g}

\* Range runs fn with the read lock held. Its callers come to a standstill only when
\* an fn uses the set it iterates: by writing to it, or by reading it again while a
\* writer waits, a second RLock of one goroutine that waits behind that writer.
StuckOnlyByReentry ==
  LET busy == { g \in Goroutines : rangePc[g].at # "idle" } IN
  busy # {} /\ (\A g \in busy : Blocked(g)) =>
    \E g \in busy : rangePc[g].at = "fnAdd" \/ (rangePc[g].does = "contains" /\ rw.waiting \ {g} # {})
-----------------------------------------------------------------------------
\* The two in one specification; MCCollections runs each of them alone.
concurrentVars == <<shardedVars, setRangeVars>>
ConcurrentNext == [ShardedNext]_shardedVars /\ [SetRangeNext]_setRangeVars
ConcurrentSpec == ShardedInit /\ SetRangeInit /\ [][ConcurrentNext]_concurrentVars

\* A reader of the sharded map sees what was there throughout its walk and nothing
\* that never was; readers and writers of the concurrent set wait for each other
\* forever only if a callback calls back into the set.
ConcurrentViews == SnapshotBracketed /\ StuckOnlyByReentry
=============================================================================
