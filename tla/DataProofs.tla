----------------------------- MODULE DataProofs ------------------------------
(***************************************************************************)
(* Proofs about data that several callers share: the concurrent            *)
(* collections of collectionx, and dbx's sessions, id generators,          *)
(* migrations, repositories, catalog inspection, schema migration and      *)
(* entities.                                                               *)
(***************************************************************************)
EXTENDS CxConcurrent, DbRuntime, DbMigrate, DbRepository, DbInspect, DbSchemaMigrate, DbEntities,
        FiniteSetTheorems, SequenceTheorems, WellFoundedInduction, TLAPS

\* A set of naturals has a least one: induction without an operator parameter.
LEMMA LeastNatural ==
  ASSUME NEW T \in SUBSET Nat, T # {}
  PROVE  \E m \in T : \A n \in T : m <= n
  <1> DEFINE R == {ss \in Nat \X Nat : ss[1] < ss[2]}
  <1>1. IsWellFoundedOn(R, Nat)
    BY NatLessThanWellFounded DEF OpToRel
  <1> HIDE DEF R
  <1>2. PICK m \in T : \A n \in T : ~ (<<n, m>> \in R)
    BY <1>1, WFMin
  <1>3. \A n \in T : ~(n < m)
    BY <1>2 DEF R
  <1> QED BY <1>3

-----------------------------------------------------------------------------
(* collectionx: the sharded map. *)

\* The loop of NewShardedConcurrentMap ends: there is at least one shard.
LEMMA SomeShards == RoundedShards \in Nat /\ RoundedShards >= 1
  <1>0. PICK w \in Nat : w = (IF ShardCount = 0 THEN 32 ELSE ShardCount) /\ w >= 1
    BY ShardedAssumption
  <1> DEFINE D == 1..(2 * w)
             doubled[n \in 1..(2 * w)] == IF n < w THEN doubled[2 * n] ELSE n
             Upper(m) == {n \in D : n >= 2 * w - m}
             Loop(g, m) == g = [n \in Upper(m) |-> IF n < w THEN g[2 * n] ELSE n]
             T == {m \in 0..(2 * w - 1) : ~ \E g : Loop(g, m)}
  <1>1. T = {}
    <2> SUFFICES ASSUME T # {} PROVE FALSE  OBVIOUS
    <2>1. PICK m \in T : \A j \in T : m <= j
      <3> HIDE DEF T
      <3>1. T \in SUBSET Nat
        BY <1>0 DEF T
      <3> QED BY <3>1, LeastNatural
    <2>2. m \in 0..(2 * w - 1) /\ ~ \E g : Loop(g, m)
      OBVIOUS
    <2>3. m > w
      <3> DEFINE g == [n \in Upper(m) |-> n]
      <3> SUFFICES ASSUME m <= w PROVE FALSE  BY <1>0, <2>2
      <3>1. \A n \in Upper(m) : ~(n < w) /\ n \in Nat /\ n >= 1
        BY <1>0, <2>2
      <3>2. Loop(g, m)
        BY <3>1
      <3> QED BY <2>2, <3>2
    <2>4. m - 1 \in 0..(2 * w - 1) /\ ~(m <= m - 1)
      BY <1>0, <2>2, <2>3
    <2>5. m - 1 \notin T
      <3> HIDE DEF T
      <3> QED BY <2>1, <2>4
    <2>6. PICK g : Loop(g, m - 1)
      BY <2>4, <2>5
    <2>7. PICK b \in Nat : b = 2 * w - m /\ b \in 1..(2 * w) /\ b < w
      BY <1>0, <2>2, <2>3
    <2>8. Upper(m) = Upper(m - 1) \cup {b} /\ b \notin Upper(m - 1) /\ 2 * b \in Upper(m - 1)
      <3>1. \A n \in D : n >= 2 * w - m <=> n >= 2 * w - (m - 1) \/ n = b
        BY <1>0, <2>2, <2>7
      <3>2. b \notin Upper(m - 1)
        BY <1>0, <2>2, <2>7
      <3>3. 2 * b \in Upper(m - 1)
        BY <1>0, <2>2, <2>7
      <3> QED BY <2>7, <3>1, <3>2, <3>3
    <2>9. \A n \in Upper(m - 1) : n < w => 2 * n \in Upper(m - 1)
      BY <1>0, <2>2, <2>4
    <2> HIDE DEF Upper
    <2>10. g = [n \in Upper(m - 1) |-> IF n < w THEN g[2 * n] ELSE n]
      BY <2>6
    <2> DEFINE h == [n \in Upper(m) |-> IF n = b THEN g[2 * b] ELSE g[n]]
    <2>11. \A n \in Upper(m) : h[n] = IF n < w THEN h[2 * n] ELSE n
      <3> SUFFICES ASSUME NEW n \in Upper(m) PROVE h[n] = IF n < w THEN h[2 * n] ELSE n  OBVIOUS
      <3>1. CASE n = b
        <4>1. h[2 * b] = g[2 * b] /\ h[b] = g[2 * b]
          BY <2>8, <3>1
        <4> QED BY <2>7, <3>1, <4>1
      <3>2. CASE n # b
        <4>1. n \in Upper(m - 1)
          BY <2>8, <3>2
        <4>2. n < w => 2 * n \in Upper(m) /\ 2 * n # b
          BY <2>8, <2>9, <4>1
        <4>3. g[n] = IF n < w THEN g[2 * n] ELSE n
          BY <2>10, <4>1
        <4>4. h[n] = g[n] /\ (n < w => h[2 * n] = g[2 * n])
          BY <3>2, <4>2
        <4> QED BY <4>3, <4>4
      <3> QED BY <3>1, <3>2
    <2>12. Loop(h, m)
      BY <2>11
    <2> HIDE DEF h
    <2> QED BY <2>2, <2>12
  <1>2. PICK g : Loop(g, 2 * w - 1)
    <2>1. 2 * w - 1 \in 0..(2 * w - 1)
      BY <1>0
    <2> QED BY <1>1, <2>1
  <1>3. Upper(2 * w - 1) = 1..(2 * w)
    BY <1>0
  <1>4. g = [n \in 1..(2 * w) |-> IF n < w THEN g[2 * n] ELSE n]
    BY <1>2, <1>3
  <1>5. doubled = [n \in 1..(2 * w) |-> IF n < w THEN doubled[2 * n] ELSE n]
    BY <1>4
  <1>6. RoundedShards = doubled[1]
    BY <1>0 DEF RoundedShards
  <1> HIDE DEF doubled
  <1> DEFINE Bad == {m \in 0..(2 * w - 1) : ~(doubled[2 * w - m] \in Nat /\ doubled[2 * w - m] >= 1)}
  <1>7. Bad = {}
    <2> SUFFICES ASSUME Bad # {} PROVE FALSE  OBVIOUS
    <2>1. PICK m \in Bad : \A j \in Bad : m <= j
      <3> HIDE DEF Bad
      <3>1. Bad \in SUBSET Nat
        BY <1>0 DEF Bad
      <3> QED BY <3>1, LeastNatural
    <2>2. PICK n \in Nat : n = 2 * w - m /\ n \in 1..(2 * w) /\ m \in 0..(2 * w - 1)
      BY <1>0
    <2>3. ~(doubled[n] \in Nat /\ doubled[n] >= 1)
      BY <2>2
    <2>4. n < w /\ doubled[n] = doubled[2 * n]
      BY <1>0, <1>5, <2>2, <2>3
    <2>a. PICK j : j = 2 * w - 2 * n
      OBVIOUS
    <2>5. j \in 0..(2 * w - 1) /\ ~(m <= j) /\ 2 * w - j = 2 * n
      BY <1>0, <2>2, <2>4, <2>a
    <2>6. j \notin Bad
      <3> HIDE DEF Bad
      <3> QED BY <2>1, <2>5
    <2> QED BY <2>3, <2>4, <2>5, <2>6
  <1>8. PICK m : m = 2 * w - 1 /\ m \in 0..(2 * w - 1) /\ 2 * w - m = 1
    BY <1>0
  <1>9. doubled[1] \in Nat /\ doubled[1] >= 1
    BY <1>7, <1>8
  <1> QED BY <1>6, <1>9

\* Every key lies in its own shard.
ShardsWell(s) ==
  /\ DOMAIN s = ShardIds
  /\ \A i \in ShardIds : \A k \in DOMAIN s[i] : k \in ShardKeys /\ shard(k) = i

BatchTyped ==
  /\ batch = [todo |-> batch.todo, clear |-> batch.clear]
  /\ \A e \in batch.todo : e[1] \in ShardKeys
  /\ batch.clear \in ShardIds \cup {-1}

\* During a call of All the ghost brackets the map, and what was copied is bracketed by
\* the ghost, shard by shard.
ReaderInv ==
  /\ reader = [next |-> reader.next, out |-> reader.out] /\ reader.next \in -1..RoundedShards
  /\ during = [always |-> during.always, ever |-> during.ever]
  /\ reader.next = -1 => DOMAIN reader.out = {}
  /\ \A k \in DOMAIN reader.out :
       k \in ShardKeys /\ shard(k) < reader.next /\ <<k, reader.out[k]>> \in during.ever
  /\ reader.next # -1 =>
       /\ EntrySetOf(shards) \subseteq during.ever /\ during.always \subseteq EntrySetOf(shards)
       /\ \A k \in ShardKeys : \A v :
            <<k, v>> \in during.always /\ shard(k) < reader.next => k \in DOMAIN reader.out /\ reader.out[k] = v

ShardedInv == ShardsWell(shards) /\ BatchTyped /\ ReaderInv

LEMMA ShardOfKey == \A k \in ShardKeys : shard(k) \in ShardIds /\ shard(k) \in Nat
  <1>1. \A n \in Nat : n % RoundedShards \in 0..(RoundedShards - 1)
    BY SomeShards
  <1> QED BY <1>1, SomeShards, ShardedAssumption DEF shard, ShardIds

LEMMA EntriesOf ==
  ASSUME NEW s, DOMAIN s = ShardIds
  PROVE  \A e : e \in EntrySetOf(s) <=> \E i \in ShardIds : \E k \in DOMAIN s[i] : e = <<k, s[i][k]>>
  BY DEF EntrySetOf

LEMMA EntryAt ==
  ASSUME NEW s, ShardsWell(s), NEW k, NEW v, <<k, v>> \in EntrySetOf(s)
  PROVE  k \in ShardKeys /\ k \in DOMAIN s[shard(k)] /\ s[shard(k)][k] = v
  <1>1. PICK i \in ShardIds : \E j \in DOMAIN s[i] : <<k, v>> = <<j, s[i][j]>>
    BY EntriesOf DEF ShardsWell
  <1>2. k \in DOMAIN s[i] /\ s[i][k] = v
    BY <1>1
  <1>3. k \in ShardKeys /\ shard(k) = i
    BY <1>2 DEF ShardsWell
  <1> QED BY <1>2, <1>3

LEMMA ShardedStarts == ShardedInit => ShardedInv
  <1> SUFFICES ASSUME ShardedInit PROVE ShardedInv  OBVIOUS
  <1>1. ShardsWell(shards)
    BY DEF ShardedInit, ShardsWell
  <1>2. BatchTyped
    BY DEF ShardedInit, BatchTyped
  <1>3. reader.next = -1 /\ DOMAIN reader.out = {} /\ reader = [next |-> reader.next, out |-> reader.out]
    BY DEF ShardedInit, NoReader
  <1>4. -1 \in -1..RoundedShards
    BY SomeShards
  <1>5. during = [always |-> during.always, ever |-> during.ever]
    BY DEF ShardedInit
  <1>6. ReaderInv
    BY <1>3, <1>4, <1>5 DEF ReaderInv
  <1> QED BY <1>1, <1>2, <1>6 DEF ShardedInv

\* A change of the entries keeps the brackets.
LEMMA Stores ==
  ASSUME ShardedInv, NEW s, Store(s), ShardsWell(s), UNCHANGED reader, BatchTyped'
  PROVE  ShardedInv'
  <1>1. ShardsWell(shards)'
    BY DEF Store, ShardsWell
  <1>2. shards' = s /\ reader' = reader
    BY DEF Store
  <1>3. CASE reader.next = -1
    <2>1. during' = during
      BY <1>3 DEF Store
    <2> QED BY <1>1, <1>2, <1>3, <2>1 DEF ShardedInv, ReaderInv
  <1>4. CASE reader.next # -1
    <2>0. PICK always, ever : always = during.always \cap EntrySetOf(s) /\ ever = during.ever \cup EntrySetOf(s)
      OBVIOUS
    <2>1. during' = [always |-> always, ever |-> ever]
      BY <1>4, <2>0 DEF Store
    <2>2. EntrySetOf(shards)' = EntrySetOf(s)
      BY <1>2 DEF EntrySetOf
    <2>3. during'.always \subseteq during.always /\ during.ever \subseteq during'.ever
      BY <2>0, <2>1
    <2>4. EntrySetOf(s) \subseteq during'.ever /\ during'.always \subseteq EntrySetOf(s)
      BY <2>0, <2>1
    <2>5. during' = [always |-> during'.always, ever |-> during'.ever]
      BY <2>1
    <2>6. ReaderInv
      BY DEF ShardedInv
    <2>7. ReaderInv'
      BY <1>2, <1>4, <2>2, <2>3, <2>4, <2>5, <2>6 DEF ReaderInv
    <2> QED BY <1>1, <2>7 DEF ShardedInv
  <1> QED BY <1>3, <1>4

LEMMA PutsIn ==
  ASSUME NEW s, ShardsWell(s), NEW k \in ShardKeys, NEW v
  PROVE  ShardsWell(PutIn(s, k, v))
  <1>1. PICK f : f = Over([x \in {k} |-> v], s[shard(k)])
    OBVIOUS
  <1>2. DOMAIN f = {k} \cup DOMAIN s[shard(k)]
    BY <1>1 DEF Over
  <1>3. PutIn(s, k, v) = [s EXCEPT ![shard(k)] = f]
    BY <1>1 DEF PutIn
  <1> QED BY <1>2, <1>3, ShardOfKey DEF ShardsWell

\* One shard of All: its keys are in none of the shards copied before.
LEMMA AllStepKeeps ==
  ASSUME ShardedInv, AllStep
  PROVE  ShardedInv'
  <1>1. PICK i \in Nat : i = reader.next /\ i \in ShardIds /\ i # -1 /\ i + 1 \in -1..RoundedShards /\ i + 1 # -1
    BY SomeShards DEF AllStep, ShardIds
  <1>2. PICK out : out = Over(shards[i], reader.out)
    OBVIOUS
  <1>3. reader' = [next |-> i + 1, out |-> out]
    BY <1>1, <1>2 DEF AllStep
  <1>4. reader'.next = i + 1 /\ reader'.out = out /\ reader' = [next |-> reader'.next, out |-> reader'.out]
    BY <1>3
  <1>5. UNCHANGED <<shards, during, batch>> /\ ShardsWell(shards) /\ ReaderInv /\ BatchTyped
    BY DEF AllStep, ShardedInv
  <1>6. ShardsWell(shards)' /\ BatchTyped'
    BY <1>5 DEF ShardsWell, BatchTyped
  <1>7. /\ DOMAIN out = DOMAIN shards[i] \cup DOMAIN reader.out
        /\ \A k \in DOMAIN shards[i] : out[k] = shards[i][k]
        /\ \A k \in DOMAIN reader.out : k \notin DOMAIN shards[i] => out[k] = reader.out[k]
    BY <1>2 DEF Over
  <1>8. \A k \in DOMAIN shards[i] : k \in ShardKeys /\ shard(k) = i /\ <<k, shards[i][k]>> \in EntrySetOf(shards)
    BY <1>1, <1>5, EntriesOf DEF ShardsWell
  <1>9. \A k \in DOMAIN reader.out : k \in ShardKeys /\ shard(k) < i /\ <<k, reader.out[k]>> \in during.ever
    BY <1>1, <1>5 DEF ReaderInv
  <1>10. EntrySetOf(shards) \subseteq during.ever /\ during.always \subseteq EntrySetOf(shards)
    BY <1>1, <1>5 DEF ReaderInv
  <1>11. \A k \in DOMAIN out : k \in ShardKeys /\ shard(k) < i + 1 /\ <<k, out[k]>> \in during.ever
    <2> SUFFICES ASSUME NEW k \in DOMAIN out
                 PROVE  k \in ShardKeys /\ shard(k) < i + 1 /\ <<k, out[k]>> \in during.ever
      OBVIOUS
    <2>1. CASE k \in DOMAIN shards[i]
      BY <1>7, <1>8, <1>10, <2>1
    <2>2. CASE k \notin DOMAIN shards[i]
      <3>1. k \in DOMAIN reader.out /\ out[k] = reader.out[k]
        BY <1>7, <2>2
      <3>2. shard(k) \in Nat
        BY <1>9, <3>1, ShardOfKey
      <3> QED BY <1>1, <1>9, <3>1, <3>2
    <2> QED BY <2>1, <2>2
  <1>12. \A k \in ShardKeys : \A v :
           <<k, v>> \in during.always /\ shard(k) < i + 1 => k \in DOMAIN out /\ out[k] = v
    <2> SUFFICES ASSUME NEW k \in ShardKeys, NEW v, <<k, v>> \in during.always, shard(k) < i + 1
                 PROVE  k \in DOMAIN out /\ out[k] = v
      OBVIOUS
    <2>0. shard(k) \in Nat
      BY ShardOfKey
    <2>1. CASE shard(k) = i
      <3>1. k \in DOMAIN shards[i] /\ shards[i][k] = v
        BY <1>5, <1>10, <2>1, EntryAt
      <3> QED BY <1>7, <3>1
    <2>2. CASE shard(k) < i
      <3>1. k \in DOMAIN reader.out /\ reader.out[k] = v
        BY <1>1, <1>5, <2>2 DEF ReaderInv
      <3>2. k \notin DOMAIN shards[i]
        <4>1. shard(k) # i
          BY <1>1, <2>0, <2>2
        <4> QED BY <1>8, <4>1
      <3> QED BY <1>7, <3>1, <3>2
    <2> QED BY <1>1, <2>0, <2>1, <2>2
  <1>13. EntrySetOf(shards)' = EntrySetOf(shards)
    BY <1>5 DEF EntrySetOf
  <1>14. ReaderInv'
    <2>1. during' = [always |-> during'.always, ever |-> during'.ever]
      BY <1>5 DEF ReaderInv
    <2> QED BY <1>1, <1>4, <1>5, <1>10, <1>11, <1>12, <1>13, <2>1 DEF ReaderInv
  <1> QED BY <1>6, <1>14 DEF ShardedInv

LEMMA AllBeginKeeps ==
  ASSUME ShardedInv, AllBegin
  PROVE  ShardedInv'
  <1>1. reader' = [next |-> 0, out |-> << >>] /\ UNCHANGED <<shards, batch>>
        /\ during' = [always |-> EntrySetOf(shards), ever |-> EntrySetOf(shards)]
    BY DEF AllBegin
  <1>2. ShardsWell(shards)' /\ BatchTyped'
    BY <1>1 DEF ShardedInv, ShardsWell, BatchTyped
  <1>3. EntrySetOf(shards)' = EntrySetOf(shards)
    BY <1>1 DEF EntrySetOf
  <1>4. 0 \in -1..RoundedShards
    BY SomeShards
  <1>5. \A k \in ShardKeys : ~(shard(k) < 0)
    BY ShardOfKey
  <1>6. ReaderInv'
    BY <1>1, <1>3, <1>4, <1>5 DEF ReaderInv
  <1> QED BY <1>2, <1>6 DEF ShardedInv

LEMMA AllReturnKeeps ==
  ASSUME ShardedInv, AllReturn
  PROVE  ShardedInv'
  <1>1. reader' = NoReader /\ UNCHANGED <<shards, batch>> /\ during' = [always |-> {}, ever |-> {}]
    BY DEF AllReturn
  <1>2. ShardsWell(shards)' /\ BatchTyped'
    BY <1>1 DEF ShardedInv, ShardsWell, BatchTyped
  <1>4. -1 \in -1..RoundedShards
    BY SomeShards
  <1>6. ReaderInv'
    BY <1>1, <1>4 DEF ReaderInv, NoReader
  <1> QED BY <1>2, <1>6 DEF ShardedInv

LEMMA ShardedStep == ShardedInv /\ [ShardedNext]_shardedVars => ShardedInv'
  <1> SUFFICES ASSUME ShardedInv, [ShardedNext]_shardedVars PROVE ShardedInv'  OBVIOUS
  <1>0. ShardsWell(shards) /\ BatchTyped
    BY DEF ShardedInv
  <1>1. CASE ShardedSet
    <2>1. PICK k \in ShardKeys, v \in ShardVals : Store(PutIn(shards, k, v)) /\ UNCHANGED <<reader, batch>>
      BY <1>1 DEF ShardedSet
    <2>2. BatchTyped'
      BY <1>0, <2>1 DEF BatchTyped
    <2> QED BY <1>0, <2>1, <2>2, PutsIn, Stores
  <1>2. CASE ShardedGetOrStore
    <2>1. PICK k \in ShardKeys, v \in ShardVals :
            /\ Store(IF k \in DOMAIN shards[shard(k)] THEN shards ELSE PutIn(shards, k, v))
            /\ UNCHANGED <<reader, batch>>
      BY <1>2 DEF ShardedGetOrStore
    <2>2. BatchTyped'
      BY <1>0, <2>1 DEF BatchTyped
    <2>3. PICK s : s = IF k \in DOMAIN shards[shard(k)] THEN shards ELSE PutIn(shards, k, v)
      OBVIOUS
    <2>4. ShardsWell(s)
      BY <1>0, <2>3, PutsIn
    <2>5. Store(s)
      BY <2>1, <2>3
    <2> QED BY <2>1, <2>2, <2>4, <2>5, Stores
  <1>3. CASE ShardedDelete
    <2>1. PICK k \in ShardKeys : /\ Store([shards EXCEPT ![shard(k)] = Restrict(@, DOMAIN @ \ {k})])
                                 /\ UNCHANGED <<reader, batch>>
      BY <1>3 DEF ShardedDelete
    <2>2. BatchTyped'
      BY <1>0, <2>1 DEF BatchTyped
    <2>3. PICK f : f = Restrict(shards[shard(k)], DOMAIN shards[shard(k)] \ {k})
      OBVIOUS
    <2>4. PICK s : s = [shards EXCEPT ![shard(k)] = f]
      OBVIOUS
    <2>5. DOMAIN f \subseteq DOMAIN shards[shard(k)]
      BY <2>3 DEF Restrict
    <2>6. ShardsWell(s)
      BY <1>0, <2>4, <2>5, ShardOfKey DEF ShardsWell
    <2>7. Store(s)
      BY <2>1, <2>3, <2>4
    <2> QED BY <2>1, <2>2, <2>6, <2>7, Stores
  <1>4. CASE SetAllBegin
    <2>1. PICK v \in ShardVals : batch' = [batch EXCEPT !.todo = { <<k, v>> : k \in ShardKeys }]
      BY <1>4 DEF SetAllBegin
    <2>2. UNCHANGED <<shards, reader, during>>
      BY <1>4 DEF SetAllBegin
    <2>3. BatchTyped'
      BY <1>0, <2>1 DEF BatchTyped
    <2> QED BY <2>2, <2>3 DEF ShardedInv, ShardsWell, ReaderInv, EntrySetOf
  <1>5. CASE SetAllStep
    <2>1. PICK e \in batch.todo : /\ Store(PutIn(shards, e[1], e[2])) /\ batch' = [batch EXCEPT !.todo = @ \ {e}]
                                 /\ UNCHANGED reader
      BY <1>5 DEF SetAllStep
    <2>2. e[1] \in ShardKeys
      BY <1>0, <2>1 DEF BatchTyped
    <2>3. BatchTyped'
      BY <1>0, <2>1 DEF BatchTyped
    <2>4. ShardsWell(PutIn(shards, e[1], e[2]))
      BY <1>0, <2>2, PutsIn
    <2> QED BY <2>1, <2>3, <2>4, Stores
  <1>6. CASE ClearBegin
    <2>1. batch' = [batch EXCEPT !.clear = 0] /\ UNCHANGED <<shards, reader, during>>
      BY <1>6 DEF ClearBegin
    <2>2. 0 \in ShardIds
      BY SomeShards DEF ShardIds
    <2>3. BatchTyped'
      BY <1>0, <2>1, <2>2 DEF BatchTyped
    <2> QED BY <2>1, <2>3 DEF ShardedInv, ShardsWell, ReaderInv, EntrySetOf
  <1>7. CASE ClearStep
    <2>1. batch.clear \in ShardIds
      BY <1>0, <1>7 DEF ClearStep, BatchTyped, ShardIds
    <2>2. PICK s : s = [shards EXCEPT ![batch.clear] = << >>]
      OBVIOUS
    <2>3. Store(s) /\ UNCHANGED reader
      BY <1>7, <2>2 DEF ClearStep
    <2>4. PICK n : n = IF batch.clear + 1 \in ShardIds THEN batch.clear + 1 ELSE -1
      OBVIOUS
    <2>5. batch' = [batch EXCEPT !.clear = n]
      BY <1>7, <2>4 DEF ClearStep
    <2>6. BatchTyped'
      BY <1>0, <2>4, <2>5 DEF BatchTyped
    <2>7. ShardsWell(s)
      BY <1>0, <2>1, <2>2 DEF ShardsWell
    <2> QED BY <2>3, <2>6, <2>7, Stores
  <1>8. CASE AllBegin
    BY <1>8, AllBeginKeeps
  <1>9. CASE AllStep
    BY <1>9, AllStepKeeps
  <1>10. CASE AllReturn
    BY <1>10, AllReturnKeeps
  <1>11. CASE UNCHANGED shardedVars
    BY <1>11 DEF shardedVars, ShardedInv, ShardsWell, BatchTyped, ReaderInv, EntrySetOf
  <1> QED
    BY <1>1, <1>2, <1>3, <1>4, <1>5, <1>6, <1>7, <1>8, <1>9, <1>10, <1>11 DEF ShardedNext

LEMMA ShardedImplies == ShardedInv => SnapshotBracketed
  <1> SUFFICES ASSUME ShardedInv PROVE SnapshotBracketed  OBVIOUS
  <1>1. ShardsWell(shards) /\ ReaderInv
    BY DEF ShardedInv
  <1> DEFINE out == { <<k, reader.out[k]>> : k \in DOMAIN reader.out }
  <1>2. out \subseteq during.ever
    BY <1>1 DEF ReaderInv
  <1>3. ASSUME reader.next = RoundedShards, NEW e \in during.always PROVE e \in out
    <2>1. reader.next # -1
      BY <1>3, SomeShards
    <2>2. e \in EntrySetOf(shards)
      BY <1>1, <2>1 DEF ReaderInv
    <2>3. PICK i \in ShardIds : \E k \in DOMAIN shards[i] : e = <<k, shards[i][k]>>
      BY <1>1, <2>2, EntriesOf DEF ShardsWell
    <2>4. PICK k \in DOMAIN shards[i] : e = <<k, shards[i][k]>>
      BY <2>3
    <2>5. k \in ShardKeys /\ shard(k) = i
      BY <1>1, <2>4 DEF ShardsWell
    <2>6. shard(k) < reader.next
      BY <1>3, <2>5, SomeShards DEF ShardIds
    <2>7. k \in DOMAIN reader.out /\ reader.out[k] = shards[i][k]
      BY <1>1, <2>1, <2>4, <2>5, <2>6 DEF ReaderInv
    <2> QED BY <2>4, <2>7
  <1> QED BY <1>2, <1>3 DEF SnapshotBracketed

-----------------------------------------------------------------------------
(* collectionx: ConcurrentSet.Range. *)

InFn(g) == rangePc[g].at \in {"fn", "fnAdd"}
InAdd(g) == rangePc[g].at \in {"add", "fnAdd"}

PcTyped ==
  /\ DOMAIN rangePc = Goroutines
  /\ \A g \in Goroutines :
       /\ rangePc[g] = [at |-> rangePc[g].at, does |-> rangePc[g].does]
       /\ rangePc[g].at \in {"idle", "fn", "add", "fnAdd"} /\ rangePc[g].does \in {"pure", "contains", "add"}

\* The read lock is held by who is in fn, the write lock by one who adds while nobody is
\* in fn, and who adds without it waits for it.
LocksHeld ==
  /\ rw = [readers |-> rw.readers, writer |-> rw.writer, waiting |-> rw.waiting]
  /\ rw.readers = [g \in DOMAIN rw.readers |-> rw.readers[g]]
  /\ DOMAIN rw.readers = {g \in Goroutines : InFn(g)}
  /\ rw.writer \subseteq Goroutines /\ rw.waiting \subseteq Goroutines
  /\ \A g, h \in rw.writer : g = h
  /\ rw.writer # {} => DOMAIN rw.readers = {}
  /\ \A g \in Goroutines : InAdd(g) <=> g \in rw.writer \cup rw.waiting
  /\ rw.writer \cap rw.waiting = {}

SetRangeInv == PcTyped /\ LocksHeld

LEMMA NoReaders ==
  ASSUME NEW f, f = [x \in DOMAIN f |-> f[x]], DOMAIN f = {}
  PROVE  f = << >>
  OBVIOUS

LEMMA SetRangeStarts == SetRangeInit => SetRangeInv
  <1> SUFFICES ASSUME SetRangeInit PROVE SetRangeInv  OBVIOUS
  <1>1. PcTyped
    BY DEF SetRangeInit, PcTyped, Idle
  <1>2. \A g \in Goroutines : ~InFn(g) /\ ~InAdd(g)
    BY DEF SetRangeInit, Idle, InFn, InAdd
  <1>3. rw.readers = << >> /\ rw.writer = {} /\ rw.waiting = {}
        /\ rw = [readers |-> rw.readers, writer |-> rw.writer, waiting |-> rw.waiting]
    BY DEF SetRangeInit
  <1>4. DOMAIN rw.readers = {} /\ rw.readers = [g \in DOMAIN rw.readers |-> rw.readers[g]]
    BY <1>3
  <1>5. LocksHeld
    BY <1>2, <1>3, <1>4 DEF LocksHeld
  <1> QED BY <1>1, <1>5 DEF SetRangeInv

\* One goroutine moves.
LEMMA PcMoves ==
  ASSUME SetRangeInv, NEW g \in Goroutines,
         NEW a \in {"idle", "fn", "add", "fnAdd"}, NEW d \in {"pure", "contains", "add"},
         rangePc' = [rangePc EXCEPT ![g] = [at |-> a, does |-> d]]
  PROVE  /\ PcTyped' /\ rangePc'[g].at = a /\ rangePc'[g].does = d
         /\ (InFn(g)' <=> a \in {"fn", "fnAdd"}) /\ (InAdd(g)' <=> a \in {"add", "fnAdd"})
         /\ \A h \in Goroutines : h # g => (InFn(h)' <=> InFn(h)) /\ (InAdd(h)' <=> InAdd(h))
  <1>1. PICK new : new = [at |-> a, does |-> d]
    OBVIOUS
  <1>2. rangePc' = [rangePc EXCEPT ![g] = new] /\ DOMAIN rangePc = Goroutines
    BY <1>1 DEF SetRangeInv, PcTyped
  <1>3. rangePc'[g] = new /\ (\A h \in Goroutines : h # g => rangePc'[h] = rangePc[h]) /\ DOMAIN rangePc' = Goroutines
    BY <1>2
  <1>4. new.at = a /\ new.does = d /\ new = [at |-> new.at, does |-> new.does]
    BY <1>1
  <1>5. PcTyped'
    BY <1>3, <1>4 DEF SetRangeInv, PcTyped
  <1> QED BY <1>3, <1>4, <1>5 DEF InFn, InAdd

LEMMA RangeCalls ==
  ASSUME SetRangeInv, NEW g \in Goroutines, RangeCall(g)
  PROVE  SetRangeInv'
  <1>0. LocksHeld /\ PcTyped
    BY DEF SetRangeInv
  <1>1. PICK d \in Callbacks : rangePc' = [rangePc EXCEPT ![g] = [at |-> "fn", does |-> d]]
    BY DEF RangeCall
  <1>2. d \in {"pure", "contains", "add"}
    BY <1>1, CallbacksAssumption
  <1>3. /\ PcTyped' /\ InFn(g)' /\ ~InAdd(g)'
        /\ \A h \in Goroutines : h # g => (InFn(h)' <=> InFn(h)) /\ (InAdd(h)' <=> InAdd(h))
    BY <1>1, <1>2, PcMoves
  <1>4. PICK f : f = Readers(rw.readers, g, 1)
    OBVIOUS
  <1>5. rw' = [rw EXCEPT !.readers = f] /\ rw.writer = {} /\ rw.waiting = {}
    BY <1>4 DEF RangeCall, MayRead
  <1>6. DOMAIN f = DOMAIN rw.readers \cup {g} /\ f = [x \in DOMAIN f |-> f[x]]
    BY <1>4 DEF Readers, Over
  <1>7. rw'.readers = f /\ rw'.writer = {} /\ rw'.waiting = {}
        /\ rw' = [readers |-> rw'.readers, writer |-> rw'.writer, waiting |-> rw'.waiting]
    BY <1>0, <1>5 DEF LocksHeld
  <1>8. ~InAdd(g)
    BY <1>0, <1>5 DEF LocksHeld
  <1>9. DOMAIN f = {h \in Goroutines : InFn(h)'}
    BY <1>0, <1>3, <1>6 DEF LocksHeld
  <1>10. LocksHeld'
    BY <1>0, <1>3, <1>5, <1>6, <1>7, <1>9 DEF LocksHeld
  <1> QED BY <1>3, <1>10 DEF SetRangeInv

LEMMA FnContainsKeeps ==
  ASSUME SetRangeInv, NEW g \in Goroutines, FnContains(g)
  PROVE  SetRangeInv'
  <1>0. LocksHeld /\ PcTyped
    BY DEF SetRangeInv
  <1>1. rangePc[g].at = "fn" /\ rangePc' = [rangePc EXCEPT ![g].does = "pure"] /\ rw' = rw
    BY DEF FnContains
  <1>2. rangePc' = [rangePc EXCEPT ![g] = [at |-> "fn", does |-> "pure"]]
    <2>1. [rangePc[g] EXCEPT !.does = "pure"] = [at |-> "fn", does |-> "pure"]
      BY <1>0, <1>1 DEF PcTyped
    <2> QED BY <1>1, <2>1
  <1>3. /\ PcTyped' /\ InFn(g)' /\ ~InAdd(g)'
        /\ \A h \in Goroutines : h # g => (InFn(h)' <=> InFn(h)) /\ (InAdd(h)' <=> InAdd(h))
    BY <1>2, PcMoves
  <1>4. InFn(g) /\ ~InAdd(g)
    BY <1>1 DEF InFn, InAdd
  <1>5. LocksHeld'
    BY <1>0, <1>1, <1>3, <1>4 DEF LocksHeld
  <1> QED BY <1>3, <1>5 DEF SetRangeInv

LEMMA AskLockKeeps ==
  ASSUME SetRangeInv, NEW g \in Goroutines, AskLock(g)
  PROVE  SetRangeInv'
  <1>0. LocksHeld /\ PcTyped
    BY DEF SetRangeInv
  <1>1. rangePc[g].at \in {"idle", "fn"}
    BY DEF AskLock, Idle
  <1>2. PICK a : a = IF rangePc[g].at = "idle" THEN "add" ELSE "fnAdd"
    OBVIOUS
  <1>3. rangePc' = [rangePc EXCEPT ![g] = [at |-> a, does |-> rangePc[g].does]]
    <2>1. [rangePc[g] EXCEPT !.at = a] = [at |-> a, does |-> rangePc[g].does]
      BY <1>0 DEF PcTyped
    <2>2. rangePc' = [rangePc EXCEPT ![g].at = a]
      BY <1>2 DEF AskLock
    <2> QED BY <2>1, <2>2
  <1>4. a \in {"add", "fnAdd"} /\ (a = "fnAdd" <=> rangePc[g].at = "fn")
    BY <1>1, <1>2
  <1>5. a \in {"idle", "fn", "add", "fnAdd"} /\ rangePc[g].does \in {"pure", "contains", "add"}
    BY <1>0, <1>4 DEF PcTyped
  <1>6. /\ PcTyped' /\ (InFn(g)' <=> a \in {"fn", "fnAdd"}) /\ (InAdd(g)' <=> a \in {"add", "fnAdd"})
        /\ \A h \in Goroutines : h # g => (InFn(h)' <=> InFn(h)) /\ (InAdd(h)' <=> InAdd(h))
    BY <1>3, <1>5, PcMoves
  <1>7. (InFn(g)' <=> InFn(g)) /\ InAdd(g)' /\ ~InAdd(g)
    BY <1>1, <1>4, <1>6 DEF InFn, InAdd
  <1>8. rw' = [rw EXCEPT !.waiting = @ \cup {g}]
    BY DEF AskLock
  <1>9. rw'.readers = rw.readers /\ rw'.writer = rw.writer /\ rw'.waiting = rw.waiting \cup {g}
        /\ rw' = [readers |-> rw'.readers, writer |-> rw'.writer, waiting |-> rw'.waiting]
    BY <1>0, <1>8 DEF LocksHeld
  <1>10. LocksHeld'
    BY <1>0, <1>6, <1>7, <1>9 DEF LocksHeld
  <1> QED BY <1>6, <1>10 DEF SetRangeInv

LEMMA TakeLockKeeps ==
  ASSUME SetRangeInv, NEW g \in Goroutines, TakeLock(g)
  PROVE  SetRangeInv'
  <1>0. LocksHeld /\ PcTyped
    BY DEF SetRangeInv
  <1>1. rw' = [rw EXCEPT !.waiting = @ \ {g}, !.writer = {g}] /\ rangePc' = rangePc
        /\ g \in rw.waiting /\ rw.writer = {} /\ rw.readers = << >>
    BY DEF TakeLock, MayWrite
  <1>2. rw'.readers = rw.readers /\ rw'.writer = {g} /\ rw'.waiting = rw.waiting \ {g}
        /\ rw' = [readers |-> rw'.readers, writer |-> rw'.writer, waiting |-> rw'.waiting]
    BY <1>0, <1>1 DEF LocksHeld
  <1>3. DOMAIN rw.readers = {}
    BY <1>1
  <1>4. PcTyped' /\ \A h \in Goroutines : (InFn(h)' <=> InFn(h)) /\ (InAdd(h)' <=> InAdd(h))
    BY <1>0, <1>1 DEF PcTyped, InFn, InAdd
  <1>5. LocksHeld'
    BY <1>0, <1>1, <1>2, <1>3, <1>4 DEF LocksHeld
  <1> QED BY <1>4, <1>5 DEF SetRangeInv

LEMMA DropLockKeeps ==
  ASSUME SetRangeInv, NEW g \in Goroutines, DropLock(g)
  PROVE  SetRangeInv'
  <1>0. LocksHeld /\ PcTyped
    BY DEF SetRangeInv
  <1>1. rw' = [rw EXCEPT !.writer = {}] /\ rw.writer = {g}
    BY DEF DropLock
  <1>2. DOMAIN rw.readers = {} /\ ~InFn(g) /\ InAdd(g)
    BY <1>0, <1>1 DEF LocksHeld
  <1>3. rangePc[g].at = "add"
    BY <1>2 DEF InFn, InAdd
  <1>4. rangePc' = [rangePc EXCEPT ![g] = [at |-> "idle", does |-> "pure"]]
    BY <1>3 DEF DropLock, Idle
  <1>5. /\ PcTyped' /\ ~InFn(g)' /\ ~InAdd(g)'
        /\ \A h \in Goroutines : h # g => (InFn(h)' <=> InFn(h)) /\ (InAdd(h)' <=> InAdd(h))
    BY <1>4, PcMoves
  <1>6. rw'.readers = rw.readers /\ rw'.writer = {} /\ rw'.waiting = rw.waiting
        /\ rw' = [readers |-> rw'.readers, writer |-> rw'.writer, waiting |-> rw'.waiting]
    BY <1>0, <1>1 DEF LocksHeld
  <1>7. LocksHeld'
    BY <1>0, <1>1, <1>2, <1>5, <1>6 DEF LocksHeld
  <1> QED BY <1>5, <1>7 DEF SetRangeInv

LEMMA RangeReturns ==
  ASSUME SetRangeInv, NEW g \in Goroutines, RangeReturn(g)
  PROVE  SetRangeInv'
  <1>0. LocksHeld /\ PcTyped
    BY DEF SetRangeInv
  <1>1. rangePc[g].at = "fn" /\ rangePc' = [rangePc EXCEPT ![g] = [at |-> "idle", does |-> "pure"]]
    BY DEF RangeReturn, Idle
  <1>2. InFn(g) /\ ~InAdd(g)
    BY <1>1 DEF InFn, InAdd
  <1>3. /\ PcTyped' /\ ~InFn(g)' /\ ~InAdd(g)'
        /\ \A h \in Goroutines : h # g => (InFn(h)' <=> InFn(h)) /\ (InAdd(h)' <=> InAdd(h))
    BY <1>1, PcMoves
  <1>4. PICK f : f = Readers(rw.readers, g, 0)
    OBVIOUS
  <1>5. rw' = [rw EXCEPT !.readers = f]
    BY <1>4 DEF RangeReturn
  <1>6. DOMAIN f = DOMAIN rw.readers \ {g} /\ f = [x \in DOMAIN f |-> f[x]]
    BY <1>4 DEF Readers, Restrict
  <1>7. rw'.readers = f /\ rw'.writer = rw.writer /\ rw'.waiting = rw.waiting
        /\ rw' = [readers |-> rw'.readers, writer |-> rw'.writer, waiting |-> rw'.waiting]
    BY <1>0, <1>5 DEF LocksHeld
  <1>8. DOMAIN f = {h \in Goroutines : InFn(h)'}
    BY <1>0, <1>3, <1>6 DEF LocksHeld
  <1>9. LocksHeld'
    BY <1>0, <1>2, <1>3, <1>6, <1>7, <1>8 DEF LocksHeld
  <1> QED BY <1>3, <1>9 DEF SetRangeInv

LEMMA SetRangeStep == SetRangeInv /\ [SetRangeNext]_setRangeVars => SetRangeInv'
  <1> SUFFICES ASSUME SetRangeInv, [SetRangeNext]_setRangeVars PROVE SetRangeInv'  OBVIOUS
  <1>1. CASE SetRangeNext
    <2>1. PICK g \in Goroutines :
            RangeCall(g) \/ AskLock(g) \/ FnContains(g) \/ TakeLock(g) \/ DropLock(g) \/ RangeReturn(g)
      BY <1>1 DEF SetRangeNext
    <2> QED BY <2>1, RangeCalls, AskLockKeeps, FnContainsKeeps, TakeLockKeeps, DropLockKeeps, RangeReturns
  <1>2. CASE UNCHANGED setRangeVars
    BY <1>2 DEF setRangeVars, SetRangeInv, PcTyped, LocksHeld, InFn, InAdd
  <1> QED BY <1>1, <1>2

\* Who holds the write lock goes on; without one the first of those who wait does, unless
\* somebody is in fn; and who is in fn goes on unless it reads or writes the set itself.
LEMMA SetRangeImplies == SetRangeInv => StuckOnlyByReentry
  <1> DEFINE busy == { g \in Goroutines : rangePc[g].at # "idle" }
  <1> SUFFICES ASSUME SetRangeInv, busy # {}, \A g \in busy : Blocked(g), \A g \in busy : rangePc[g].at # "fnAdd"
               PROVE  \E g \in busy : rangePc[g].does = "contains" /\ rw.waiting \ {g} # {}
    BY DEF StuckOnlyByReentry
  <1>0. LocksHeld /\ PcTyped
    BY DEF SetRangeInv
  <1>1. rw.writer = {}
    <2> SUFFICES ASSUME NEW w \in rw.writer PROVE FALSE  OBVIOUS
    <2>1. w \in Goroutines /\ InAdd(w) /\ rw.writer = {w}
      BY <1>0 DEF LocksHeld
    <2>2. w \in busy
      BY <2>1 DEF InAdd
    <2> QED BY <2>1, <2>2 DEF Blocked, InAdd
  <1>2. CASE \E g \in busy : rangePc[g] = [at |-> "fn", does |-> "contains"]
    <2>1. PICK g \in busy : rangePc[g] = [at |-> "fn", does |-> "contains"]
      BY <1>2
    <2>2. rangePc[g].at = "fn" /\ rangePc[g].does = "contains"
      BY <2>1
    <2>3. ~MayRead
      BY <2>2 DEF Blocked
    <2>4. rw.waiting # {}
      BY <1>1, <2>3 DEF MayRead
    <2>5. g \notin rw.waiting
      BY <1>0, <2>2 DEF LocksHeld, InAdd
    <2> QED BY <2>2, <2>4, <2>5
  <1>3. CASE ~ \E g \in busy : rangePc[g] = [at |-> "fn", does |-> "contains"]
    <2>1. \A g \in busy : rangePc[g].at = "add" /\ ~MayWrite(g)
      BY <1>3 DEF Blocked
    <2>2. PICK g \in busy : TRUE
      OBVIOUS
    <2>3. g \in rw.waiting
      BY <1>0, <1>1, <2>1, <2>2 DEF LocksHeld, InAdd
    <2>4. \A h \in Goroutines : ~InFn(h)
      BY <2>1 DEF InFn
    <2>5. DOMAIN rw.readers = {} /\ rw.readers = [x \in DOMAIN rw.readers |-> rw.readers[x]]
      BY <1>0, <2>4 DEF LocksHeld
    <2>6. rw.readers = << >>
      BY <2>5, NoReaders
    <2> QED BY <1>1, <2>1, <2>2, <2>3, <2>6 DEF MayWrite
  <1> QED BY <1>2, <1>3

\* ConcurrentViews, in every behaviour: All brackets what the sharded map held, for any
\* number of keys and shards, and any number of goroutines that use a ConcurrentSet come
\* to a standstill only through a callback that uses the set.
THEOREM ConcurrentViewsAlways == ConcurrentSpec => []ConcurrentViews
  <1> DEFINE Inv == ShardedInv /\ SetRangeInv
  <1>1. ShardedInit /\ SetRangeInit => Inv
    BY ShardedStarts, SetRangeStarts
  <1>2. [ConcurrentNext]_concurrentVars => [ShardedNext]_shardedVars /\ [SetRangeNext]_setRangeVars
    BY DEF ConcurrentNext, concurrentVars
  <1>3. Inv /\ [ConcurrentNext]_concurrentVars => Inv'
    BY <1>2, ShardedStep, SetRangeStep
  <1>4. Inv => ConcurrentViews
    BY ShardedImplies, SetRangeImplies DEF ConcurrentViews
  <1> QED BY <1>1, <1>3, <1>4, PTL DEF ConcurrentSpec

-----------------------------------------------------------------------------
(* dbx: connections, transactions and hooks. *)

AllKinds == Kinds \cup {"begin", "commit", "rollback", "none"}
CallRecords ==
  [kind : AllKinds, pc : {"idle", "before", "run", "rows", "scanned", "closing"}, n : Nat, conn : BOOLEAN, row : Nat,
   err : BOOLEAN, stopped : BOOLEAN, overrun : BOOLEAN, closeFailed : BOOLEAN, consumed : BOOLEAN,
   peeked : {"none", "nil", "error"}, afters : Nat, finished : Nat]

\* Where a call of a caller with this transaction may be: how many of its operations the
\* hooks have seen the end of, when it holds a connection, and what its loop was told.
CallGood(s, t) ==
  /\ s \in CallRecords
  /\ s.afters = HookCount * s.finished
  /\ s.pc \in {"idle", "scanned", "closing"} => s.finished = s.n
  /\ s.pc \in {"before", "run"} => s.finished + 1 = s.n
  /\ s.pc = "rows" => (IF s.kind = "row" THEN s.finished + 1 = s.n ELSE s.finished = s.n)
  /\ s.conn = TRUE => s.pc \in {"rows", "closing"}
  /\ s.pc # "idle" /\ s.kind \in {"commit", "rollback"} => t = "open"
  /\ s.pc # "idle" /\ s.kind = "begin" => t = "none"
  /\ s.overrun = TRUE => s.closeFailed = TRUE /\ s.pc = "idle"

OpenTxs == { c \in DbCallers : tx[c] = "open" }
Holding == { c \in DbCallers : call[c].conn = TRUE }
Accounted == pool = PoolSize - Cardinality(OpenTxs) - Cardinality(Holding)

RuntimeInv ==
  /\ DOMAIN call = DbCallers /\ tx \in [DbCallers -> {"none", "open"}] /\ pool \in Int
  /\ \A c \in DbCallers : CallGood(call[c], tx[c])
  /\ Accounted

LEMMA OneChanges ==
  ASSUME NEW D, IsFiniteSet(D), NEW A \in SUBSET D, NEW B \in SUBSET D, NEW c \in D,
         \A d \in D : d # c => (d \in A <=> d \in B)
  PROVE  /\ Cardinality(A) \in Nat /\ Cardinality(B) \in Nat
         /\ Cardinality(B) = Cardinality(A) + (IF c \in B THEN 1 ELSE 0) - (IF c \in A THEN 1 ELSE 0)
  <1>1. IsFiniteSet(A) /\ IsFiniteSet(B) /\ IsFiniteSet(A \ {c})
    BY FS_Subset
  <1>2. Cardinality(A) \in Nat /\ Cardinality(B) \in Nat /\ Cardinality(A \ {c}) \in Nat
    BY <1>1, FS_CardinalityType
  <1>3. A \ {c} = B \ {c}
    OBVIOUS
  <1>4. Cardinality(A \ {c}) = IF c \in A THEN Cardinality(A) - 1 ELSE Cardinality(A)
    BY <1>1, FS_RemoveElement
  <1>5. Cardinality(B \ {c}) = IF c \in B THEN Cardinality(B) - 1 ELSE Cardinality(B)
    BY <1>1, FS_RemoveElement
  <1> QED BY <1>2, <1>3, <1>4, <1>5

LEMMA RuntimeStarts == RuntimeInit => RuntimeInv
  <1> SUFFICES ASSUME RuntimeInit PROVE RuntimeInv  OBVIOUS
  <1>1. NewCall \in CallRecords /\ NewCall.conn = FALSE /\ NewCall.overrun = FALSE /\ NewCall.pc = "idle"
        /\ NewCall.finished = 0 /\ NewCall.n = 0 /\ NewCall.afters = 0
    BY DEF NewCall, CallRecords, AllKinds
  <1>2. HookCount * 0 = 0 /\ PoolSize \in Nat
    BY RuntimeConstants
  <1>3. CallGood(NewCall, "none")
    BY <1>1, <1>2 DEF CallGood
  <1>4. OpenTxs = {} /\ Holding = {}
    BY <1>1 DEF RuntimeInit, OpenTxs, Holding
  <1>5. Accounted
    BY <1>2, <1>4, FS_EmptySet DEF RuntimeInit, Accounted
  <1> QED BY <1>2, <1>3, <1>5 DEF RuntimeInit, RuntimeInv

\* A step of one caller, which gives back or takes what connections it should.
Held(s, t) == (IF s.conn = TRUE THEN 1 ELSE 0) + (IF t = "open" THEN 1 ELSE 0)

LEMMA HeldValues ==
  ASSUME NEW s, NEW t, s.conn # TRUE
  PROVE  (t = "open" => Held(s, t) = 1) /\ (t # "open" => Held(s, t) = 0)
  <1>1. PICK x : x = IF s.conn = TRUE THEN 1 ELSE 0
    OBVIOUS
  <1>2. PICK y : y = IF t = "open" THEN 1 ELSE 0
    OBVIOUS
  <1>3. x = 0
    BY <1>1, Zenon
  <1>4. (t = "open" => y = 1) /\ (t # "open" => y = 0)
    BY <1>2
  <1>5. Held(s, t) = x + y
    BY <1>1, <1>2, Zenon DEF Held
  <1> QED BY <1>3, <1>4, <1>5

LEMMA CallTurns ==
  ASSUME RuntimeInv, NEW c \in DbCallers, NEW new, NEW t \in {"none", "open"}, CallGood(new, t),
         call' = [call EXCEPT ![c] = new], tx' = [tx EXCEPT ![c] = t],
         pool' = pool + Held(call[c], tx[c]) - Held(new, t)
  PROVE  RuntimeInv'
  <1>1. /\ DOMAIN call' = DbCallers /\ tx' \in [DbCallers -> {"none", "open"}]
        /\ call'[c] = new /\ tx'[c] = t
        /\ \A d \in DbCallers : d # c => call'[d] = call[d] /\ tx'[d] = tx[d]
    BY DEF RuntimeInv
  <1>2. \A d \in DbCallers : CallGood(call'[d], tx'[d])
    BY <1>1 DEF RuntimeInv
  <1>3. /\ Cardinality(OpenTxs) \in Nat /\ Cardinality(OpenTxs') \in Nat
        /\ Cardinality(OpenTxs') = Cardinality(OpenTxs) + (IF t = "open" THEN 1 ELSE 0) - (IF tx[c] = "open" THEN 1 ELSE 0)
    <2>1. OpenTxs \in SUBSET DbCallers /\ OpenTxs' \in SUBSET DbCallers
          /\ (c \in OpenTxs <=> tx[c] = "open") /\ (c \in OpenTxs' <=> t = "open")
          /\ \A d \in DbCallers : d # c => (d \in OpenTxs <=> d \in OpenTxs')
      BY <1>1 DEF OpenTxs
    <2> QED BY <2>1, OneChanges, RuntimeConstants
  <1>4. /\ Cardinality(Holding) \in Nat /\ Cardinality(Holding') \in Nat
        /\ Cardinality(Holding') = Cardinality(Holding) + (IF new.conn = TRUE THEN 1 ELSE 0) - (IF call[c].conn = TRUE THEN 1 ELSE 0)
    <2>1. Holding \in SUBSET DbCallers /\ Holding' \in SUBSET DbCallers
          /\ (c \in Holding <=> call[c].conn = TRUE) /\ (c \in Holding' <=> new.conn = TRUE)
          /\ \A d \in DbCallers : d # c => (d \in Holding <=> d \in Holding')
      BY <1>1 DEF Holding
    <2> QED BY <2>1, OneChanges, RuntimeConstants
  <1>5. pool \in Int /\ PoolSize \in Nat /\ pool = PoolSize - Cardinality(OpenTxs) - Cardinality(Holding)
    BY RuntimeConstants DEF RuntimeInv, Accounted
  <1>6. pool' \in Int /\ pool' = PoolSize - Cardinality(OpenTxs') - Cardinality(Holding')
    BY <1>3, <1>4, <1>5 DEF Held
  <1> QED BY <1>1, <1>2, <1>6 DEF RuntimeInv, Accounted

\* The same for a step that touches neither the transaction nor the pool.
LEMMA CallMoves ==
  ASSUME RuntimeInv, NEW c \in DbCallers, NEW new, CallGood(new, tx[c]), new.conn = call[c].conn,
         call' = [call EXCEPT ![c] = new], tx' = tx, pool' = pool
  PROVE  RuntimeInv'
  <1>1. PICK t \in {"none", "open"} : t = tx[c]
    BY DEF RuntimeInv
  <1>2. tx' = [tx EXCEPT ![c] = t]
    BY <1>1 DEF RuntimeInv
  <1>3. PICK h : h = Held(call[c], tx[c]) /\ h \in Int
    BY DEF Held
  <1>4. Held(new, t) = h
    BY <1>1, <1>3 DEF Held
  <1>5. pool' = pool + h - h
    BY <1>3 DEF RuntimeInv
  <1>6. pool' = pool + Held(call[c], tx[c]) - Held(new, t)
    BY <1>3, <1>4, <1>5
  <1>7. CallGood(new, t)
    BY <1>1
  <1>8. RuntimeInv /\ call' = [call EXCEPT ![c] = new]
    OBVIOUS
  <1>9. t \in {"none", "open"} /\ c \in DbCallers
    BY <1>1
  <1> QED BY ONLY <1>2, <1>6, <1>7, <1>8, <1>9, CallTurns, ZenonT(30)

LEMMA HookTimes == \A f \in Nat : HookCount * (f + 1) = HookCount * f + HookCount /\ HookCount * f \in Nat
  BY RuntimeConstants

\* The hooks see the end of an operation.
LEMMA AfterHooks ==
  ASSUME NEW s \in CallRecords, s.afters = HookCount * s.finished
  PROVE  /\ after(s) \in CallRecords /\ after(s).afters = HookCount * after(s).finished
         /\ after(s).finished = s.finished + 1 /\ after(s).n = s.n /\ after(s).conn = s.conn
         /\ after(s).kind = s.kind /\ after(s).pc = s.pc /\ after(s).overrun = s.overrun
         /\ after(s).closeFailed = s.closeFailed
  <1>1. s.finished \in Nat /\ s.afters \in Nat /\ HookCount \in Nat
    BY RuntimeConstants DEF CallRecords
  <1>2. s.afters + HookCount \in Nat /\ s.finished + 1 \in Nat /\ s.afters + HookCount = HookCount * (s.finished + 1)
    BY <1>1, HookTimes
  <1>3. PICK a, f : a = s.afters + HookCount /\ f = s.finished + 1 /\ a \in Nat /\ f \in Nat /\ a = HookCount * f
    BY <1>2
  <1>4. after(s) = [s EXCEPT !.afters = a, !.finished = f]
    BY <1>3 DEF after
  <1>5. after(s) \in CallRecords
    BY <1>3, <1>4 DEF CallRecords
  <1> QED BY <1>3, <1>4, <1>5 DEF CallRecords

\* The end of an operation that holds no connection, with or without an error.
LEMMA EndGood ==
  ASSUME NEW s, NEW t, NEW u, CallGood(s, t), s.pc \in {"before", "run"}, NEW e \in BOOLEAN
  PROVE  /\ CallGood([after(s) EXCEPT !.pc = "idle", !.err = e], u)
         /\ [after(s) EXCEPT !.pc = "idle", !.err = e].conn = s.conn
         /\ s.conn = FALSE
  <1>1. s \in CallRecords /\ s.afters = HookCount * s.finished /\ s.finished + 1 = s.n /\ s.conn # TRUE /\ s.overrun # TRUE
    BY DEF CallGood
  <1>2. PICK b : b = after(s)
    OBVIOUS
  <1>3. /\ b \in CallRecords /\ b.afters = HookCount * b.finished
        /\ b.finished = s.n /\ b.n = s.n /\ b.conn = s.conn /\ b.overrun # TRUE
    BY <1>1, <1>2, AfterHooks
  <1>4. PICK new : new = [b EXCEPT !.pc = "idle", !.err = e]
    OBVIOUS
  <1>5. new \in CallRecords
    BY <1>3, <1>4 DEF CallRecords
  <1>6. /\ new.afters = b.afters /\ new.finished = b.finished /\ new.n = b.n /\ new.conn = b.conn
        /\ new.overrun = b.overrun /\ new.pc = "idle"
    BY <1>3, <1>4 DEF CallRecords
  <1>7. CallGood(new, u)
    BY <1>1, <1>3, <1>5, <1>6 DEF CallGood
  <1>8. s.conn = FALSE
    BY <1>1 DEF CallRecords
  <1> QED BY <1>2, <1>3, <1>4, <1>6, <1>7, <1>8

LEMMA Starts ==
  ASSUME RuntimeInv, NEW c \in DbCallers, NEW kind \in Kinds \cup {"begin", "commit", "rollback"}, Start(c, kind)
  PROVE  RuntimeInv'
  <1>1. PICK s : s = call[c] /\ CallGood(s, tx[c])
    BY DEF RuntimeInv
  <1>2. s \in CallRecords /\ s.pc = "idle" /\ s.finished = s.n /\ s.afters = HookCount * s.finished /\ s.conn # TRUE
    BY <1>1 DEF Start, CallGood
  <1>3. PICK new : new = StartedAs(c, kind)
    OBVIOUS
  <1>4. s.n \in Nat /\ s.afters \in Nat /\ s.finished \in Nat /\ s.conn = FALSE
    BY <1>2 DEF CallRecords
  <1>5. PICK m \in Nat : m = s.n + 1
    BY <1>4
  <1>6. new = [NewCall EXCEPT !.kind = kind, !.pc = "before", !.n = m, !.afters = s.afters, !.finished = s.finished]
    BY <1>1, <1>3, <1>5 DEF StartedAs
  <1>7. kind \in AllKinds
    BY DEF AllKinds
  <1>8. new \in CallRecords
    BY <1>4, <1>5, <1>6, <1>7 DEF NewCall, CallRecords
  <1>9. new.kind = kind /\ new.pc = "before" /\ new.n = m /\ new.afters = s.afters /\ new.finished = s.finished
        /\ new.conn = FALSE /\ new.overrun = FALSE
    BY <1>6 DEF NewCall
  <1>10. (kind \in {"commit", "rollback"} => tx[c] = "open") /\ (kind = "begin" => tx[c] = "none")
    BY DEF Start
  <1>11. CallGood(new, tx[c])
    BY <1>2, <1>4, <1>5, <1>8, <1>9, <1>10 DEF CallGood
  <1>12. call' = [call EXCEPT ![c] = new] /\ tx' = tx /\ pool' = pool
    BY <1>3 DEF Start
  <1> QED BY <1>1, <1>4, <1>9, <1>11, <1>12, CallMoves

LEMMA Befores ==
  ASSUME RuntimeInv, NEW c \in DbCallers, before(c)
  PROVE  RuntimeInv'
  <1>1. PICK s : s = call[c] /\ CallGood(s, tx[c]) /\ s.pc = "before"
    BY DEF RuntimeInv, before
  <1>2. UNCHANGED <<pool, tx>>
    BY DEF before
  <1>3. \/ call' = [call EXCEPT ![c] = [after(s) EXCEPT !.pc = "idle", !.err = TRUE]]
        \/ call' = [call EXCEPT ![c] = [s EXCEPT !.pc = "run"]]
    BY <1>1 DEF before
  <1>4. CASE call' = [call EXCEPT ![c] = [after(s) EXCEPT !.pc = "idle", !.err = TRUE]]
    <2>1. PICK new : new = [after(s) EXCEPT !.pc = "idle", !.err = TRUE] /\ CallGood(new, tx[c]) /\ new.conn = s.conn
      BY <1>1, EndGood
    <2> QED BY <1>1, <1>2, <1>4, <2>1, CallMoves
  <1>5. CASE call' = [call EXCEPT ![c] = [s EXCEPT !.pc = "run"]]
    <2>1. PICK new : new = [s EXCEPT !.pc = "run"]
      OBVIOUS
    <2>2. s \in CallRecords
      BY <1>1 DEF CallGood
    <2>3. new \in CallRecords /\ new.pc = "run" /\ new.kind = s.kind /\ new.afters = s.afters /\ new.finished = s.finished
          /\ new.n = s.n /\ new.conn = s.conn /\ new.overrun = s.overrun
      BY <2>1, <2>2 DEF CallRecords
    <2>4. CallGood(new, tx[c])
      BY <1>1, <2>3 DEF CallGood
    <2> QED BY <1>1, <1>2, <1>5, <2>1, <2>3, <2>4, CallMoves
  <1> QED BY <1>3, <1>4, <1>5

LEMMA Execs ==
  ASSUME RuntimeInv, NEW c \in DbCallers, observedExecContext(c)
  PROVE  RuntimeInv'
  <1>1. PICK s : s = call[c] /\ CallGood(s, tx[c]) /\ s.pc = "run"
    BY DEF RuntimeInv, observedExecContext
  <1>2. PICK ok \in BOOLEAN : call' = [call EXCEPT ![c] = [after(s) EXCEPT !.pc = "idle", !.err = ~ok]]
    BY <1>1 DEF observedExecContext
  <1>3. (~ok) \in BOOLEAN
    OBVIOUS
  <1>4. PICK new : new = [after(s) EXCEPT !.pc = "idle", !.err = ~ok] /\ CallGood(new, tx[c]) /\ new.conn = s.conn
    BY ZenonT(60), <1>1, <1>3, EndGood
  <1> QED BY <1>1, <1>2, <1>4, CallMoves DEF observedExecContext

\* The second disjunct of both queries, and of BeginTx: the operation ends with an error.
LEMMA Refuses ==
  ASSUME RuntimeInv, NEW c \in DbCallers, call[c].pc = "run",
         call' = [call EXCEPT ![c] = [after(call[c]) EXCEPT !.pc = "idle", !.err = TRUE]], tx' = tx, pool' = pool
  PROVE  RuntimeInv'
  <1>1. PICK s : s = call[c] /\ CallGood(s, tx[c]) /\ s.pc = "run"
    BY DEF RuntimeInv
  <1>2. PICK new : new = [after(s) EXCEPT !.pc = "idle", !.err = TRUE] /\ CallGood(new, tx[c]) /\ new.conn = s.conn
    BY <1>1, EndGood
  <1> QED BY <1>1, <1>2, CallMoves

\* A query gets its connection, from the pool or the transaction.
LEMMA Acquires ==
  ASSUME RuntimeInv, NEW c \in DbCallers, Acquire(c), call[c].conn = FALSE, tx' = tx,
         NEW new, new.conn = NeedsConnection(c), CallGood(new, tx[c]), call' = [call EXCEPT ![c] = new]
  PROVE  RuntimeInv'
  <1>1. PICK t \in {"none", "open"} : t = tx[c] /\ tx' = [tx EXCEPT ![c] = t]
    BY DEF RuntimeInv
  <1>2. pool \in Int
    BY DEF RuntimeInv
  <1>3. CASE t = "none"
    <2>1. new.conn = TRUE /\ pool' = pool - 1
      BY <1>1, <1>3 DEF Acquire, NeedsConnection
    <2>2. Held(call[c], tx[c]) = 0 /\ Held(new, t) = 1
      BY <1>1, <1>3, <2>1 DEF Held
    <2>3. pool' = pool + Held(call[c], tx[c]) - Held(new, t)
      BY <1>2, <2>1, <2>2
    <2> QED BY ZenonT(60), <1>1, <2>3, CallTurns
  <1>4. CASE t = "open"
    <2>1. new.conn = FALSE /\ pool' = pool
      BY <1>1, <1>4 DEF Acquire, NeedsConnection
    <2> QED BY <2>1, CallMoves
  <1> QED BY <1>3, <1>4

LEMMA QueriesRun ==
  ASSUME RuntimeInv, NEW c \in DbCallers, observedQueryContext(c)
  PROVE  RuntimeInv'
  <1>1. PICK s : s = call[c] /\ CallGood(s, tx[c]) /\ s.pc = "run" /\ s.kind \in {"all", "each", "scalar"}
    BY DEF RuntimeInv, observedQueryContext
  <1>2. tx' = tx
    BY DEF observedQueryContext
  <1>3. CASE /\ call' = [call EXCEPT ![c] = [after(call[c]) EXCEPT !.pc = "idle", !.err = TRUE]]
             /\ UNCHANGED pool
    BY <1>1, <1>2, <1>3, Refuses
  <1>4. CASE /\ Acquire(c)
             /\ call' = [call EXCEPT ![c] = [after(call[c]) EXCEPT !.pc = "rows", !.conn = NeedsConnection(c)]]
    <2>1. s \in CallRecords /\ s.afters = HookCount * s.finished /\ s.finished + 1 = s.n /\ s.conn # TRUE /\ s.overrun # TRUE
      BY <1>1 DEF CallGood
    <2>2. PICK b : b = after(s)
      OBVIOUS
    <2>3. /\ b \in CallRecords /\ b.afters = HookCount * b.finished /\ b.kind = s.kind
          /\ b.finished = s.n /\ b.n = s.n /\ b.overrun # TRUE
      BY <2>1, <2>2, AfterHooks
    <2>4. PICK o : o = NeedsConnection(c) /\ o \in BOOLEAN
      BY DEF NeedsConnection
    <2>5. PICK new : new = [b EXCEPT !.pc = "rows", !.conn = o]
      OBVIOUS
    <2>6. new \in CallRecords
      BY <2>3, <2>4, <2>5 DEF CallRecords
    <2>7. new.afters = b.afters /\ new.finished = b.finished /\ new.n = b.n /\ new.conn = o /\ new.kind = b.kind
          /\ new.overrun = b.overrun /\ new.pc = "rows"
      BY <2>3, <2>5 DEF CallRecords
    <2>8. CallGood(new, tx[c])
      BY <1>1, <2>3, <2>6, <2>7 DEF CallGood
    <2>9. call[c].conn = FALSE
      BY <1>1, <2>1 DEF CallRecords
    <2>10. call' = [call EXCEPT ![c] = new]
      BY <1>1, <1>4, <2>2, <2>4, <2>5
    <2> QED BY <1>2, <1>4, <2>4, <2>7, <2>8, <2>9, <2>10, Acquires
  <1> QED BY <1>3, <1>4 DEF observedQueryContext

LEMMA QueriesRow ==
  ASSUME RuntimeInv, NEW c \in DbCallers, QueryRowContext(c)
  PROVE  RuntimeInv'
  <1>1. PICK s : s = call[c] /\ CallGood(s, tx[c]) /\ s.pc = "run" /\ s.kind = "row"
    BY DEF RuntimeInv, QueryRowContext
  <1>2. tx' = tx
    BY DEF QueryRowContext
  <1>3. CASE /\ call' = [call EXCEPT ![c] = [after(call[c]) EXCEPT !.pc = "idle", !.err = TRUE]]
             /\ UNCHANGED pool
    BY <1>1, <1>2, <1>3, Refuses
  <1>4. CASE /\ Acquire(c)
             /\ call' = [call EXCEPT ![c].pc = "rows", ![c].conn = NeedsConnection(c)]
    <2>1. s \in CallRecords /\ s.afters = HookCount * s.finished /\ s.finished + 1 = s.n /\ s.conn # TRUE /\ s.overrun # TRUE
      BY <1>1 DEF CallGood
    <2>4. PICK o : o = NeedsConnection(c) /\ o \in BOOLEAN
      BY DEF NeedsConnection
    <2>5. PICK new : new = [s EXCEPT !.pc = "rows", !.conn = o]
      OBVIOUS
    <2>6. new \in CallRecords
      BY <2>1, <2>4, <2>5 DEF CallRecords
    <2>7. new.afters = s.afters /\ new.finished = s.finished /\ new.n = s.n /\ new.conn = o /\ new.kind = s.kind
          /\ new.overrun = s.overrun /\ new.pc = "rows"
      BY <2>1, <2>5 DEF CallRecords
    <2>8. CallGood(new, tx[c])
      BY <1>1, <2>1, <2>6, <2>7 DEF CallGood
    <2>9. call[c].conn = FALSE
      BY <1>1, <2>1 DEF CallRecords
    <2>10. call' = [call EXCEPT ![c] = new]
      BY <1>1, <1>4, <2>4, <2>5
    <2> QED BY <1>2, <1>4, <2>4, <2>7, <2>8, <2>9, <2>10, Acquires
  <1> QED BY <1>3, <1>4 DEF QueryRowContext

\* Rows are closed: the connection, if it was the pool's, goes back.
LEMMA Gives ==
  ASSUME RuntimeInv, NEW c \in DbCallers, Give(c), tx' = tx,
         NEW new, new.conn = FALSE, CallGood(new, tx[c]), call' = [call EXCEPT ![c] = new]
  PROVE  RuntimeInv'
  <1>1. PICK t \in {"none", "open"} : t = tx[c] /\ tx' = [tx EXCEPT ![c] = t]
    BY DEF RuntimeInv
  <1>2. pool \in Int /\ call[c].conn \in BOOLEAN
    BY DEF RuntimeInv, CallGood, CallRecords
  <1>3. pool' = IF call[c].conn = TRUE THEN pool + 1 ELSE pool
    BY <1>2 DEF Give
  <1>4. pool' = pool + Held(call[c], tx[c]) - Held(new, t)
    BY <1>1, <1>2, <1>3 DEF Held
  <1> QED BY ZenonT(60), <1>1, <1>4, CallTurns

LEMMA ScansRows ==
  ASSUME RuntimeInv, NEW c \in DbCallers, scanRows(c)
  PROVE  RuntimeInv'
  <1>1. PICK s : s = call[c] /\ CallGood(s, tx[c]) /\ s.pc = "rows" /\ s.kind \in {"all", "scalar"}
    BY DEF RuntimeInv, scanRows
  <1>2. PICK ok \in BOOLEAN : call' = [call EXCEPT ![c].pc = "idle", ![c].conn = FALSE,
                                       ![c].err = ~ok \/ (call[c].kind = "scalar" /\ ResultRows # 1)]
    BY DEF scanRows
  <1>3. PICK e \in BOOLEAN : e = (~ok \/ (call[c].kind = "scalar" /\ ResultRows # 1))
    OBVIOUS
  <1>4. PICK new : new = [s EXCEPT !.pc = "idle", !.conn = FALSE, !.err = e]
    OBVIOUS
  <1>5. s \in CallRecords /\ s.overrun # TRUE /\ s.finished = s.n
    BY <1>1 DEF CallGood
  <1>6. new \in CallRecords
    BY <1>4, <1>5 DEF CallRecords
  <1>7. new.afters = s.afters /\ new.finished = s.finished /\ new.n = s.n /\ new.kind = s.kind
        /\ new.overrun = s.overrun /\ new.pc = "idle" /\ new.conn = FALSE
    BY <1>4, <1>5 DEF CallRecords
  <1>8. CallGood(new, tx[c])
    BY <1>1, <1>5, <1>6, <1>7 DEF CallGood
  <1>9. call' = [call EXCEPT ![c] = new]
    BY <1>1, <1>2, <1>3, <1>4
  <1> QED BY <1>7, <1>8, <1>9, Gives DEF scanRows

LEMMA RowScans ==
  ASSUME RuntimeInv, NEW c \in DbCallers, RowScan(c)
  PROVE  RuntimeInv'
  <1>1. PICK s : s = call[c] /\ CallGood(s, tx[c]) /\ s.pc = "rows" /\ s.kind = "row"
    BY DEF RuntimeInv, RowScan
  <1>4. PICK new : new = [s EXCEPT !.consumed = TRUE]
    OBVIOUS
  <1>5. s \in CallRecords
    BY <1>1 DEF CallGood
  <1>6. new \in CallRecords
    BY <1>4, <1>5 DEF CallRecords
  <1>7. new.afters = s.afters /\ new.finished = s.finished /\ new.n = s.n /\ new.kind = s.kind
        /\ new.overrun = s.overrun /\ new.pc = s.pc /\ new.conn = s.conn
    BY <1>4, <1>5 DEF CallRecords
  <1>8. CallGood(new, tx[c])
    BY <1>1, <1>6, <1>7 DEF CallGood
  <1>9. call' = [call EXCEPT ![c] = new] /\ tx' = tx /\ pool' = pool
    BY <1>1, <1>4 DEF RowScan
  <1> QED BY <1>1, <1>7, <1>8, <1>9, CallMoves

LEMMA ScansSingleRow ==
  ASSUME RuntimeInv, NEW c \in DbCallers, scanSingleRow(c)
  PROVE  RuntimeInv'
  <1>1. PICK s : s = call[c] /\ CallGood(s, tx[c]) /\ s.pc = "rows" /\ s.kind = "row"
    BY DEF RuntimeInv, scanSingleRow
  <1>2. PICK ok \in BOOLEAN :
          call' = [call EXCEPT ![c] = [after(@) EXCEPT !.pc = "scanned", !.conn = FALSE, !.err = ~ok \/ ResultRows = 0]]
    BY DEF scanSingleRow
  <1>3. PICK e \in BOOLEAN : e = (~ok \/ ResultRows = 0)
    OBVIOUS
  <1>4. PICK b : b = after(s)
    OBVIOUS
  <1>5. s \in CallRecords /\ s.afters = HookCount * s.finished /\ s.finished + 1 = s.n /\ s.overrun # TRUE
    BY <1>1 DEF CallGood
  <1>6. /\ b \in CallRecords /\ b.afters = HookCount * b.finished /\ b.kind = s.kind
        /\ b.finished = s.n /\ b.n = s.n /\ b.overrun # TRUE
    BY <1>4, <1>5, AfterHooks
  <1>7. PICK new : new = [b EXCEPT !.pc = "scanned", !.conn = FALSE, !.err = e]
    OBVIOUS
  <1>8. new \in CallRecords
    BY <1>6, <1>7 DEF CallRecords
  <1>9. new.afters = b.afters /\ new.finished = b.finished /\ new.n = b.n /\ new.kind = b.kind
        /\ new.overrun = b.overrun /\ new.pc = "scanned" /\ new.conn = FALSE
    BY <1>6, <1>7 DEF CallRecords
  <1>10. CallGood(new, tx[c])
    BY <1>1, <1>6, <1>8, <1>9 DEF CallGood
  <1>11. call' = [call EXCEPT ![c] = new]
    BY <1>1, <1>2, <1>3, <1>4, <1>7
  <1> QED BY <1>9, <1>10, <1>11, Gives DEF scanSingleRow

LEMMA ScansAgain ==
  ASSUME RuntimeInv, NEW c \in DbCallers, ScanAgain(c)
  PROVE  RuntimeInv'
  <1>1. PICK s : s = call[c] /\ CallGood(s, tx[c])
    BY DEF RuntimeInv
  <1>2. PICK p \in {"none", "nil", "error"} : p = IF s.pc = "scanned" /\ s.err THEN "error" ELSE "nil"
    OBVIOUS
  <1>4. PICK new : new = [s EXCEPT !.peeked = p]
    OBVIOUS
  <1>5. s \in CallRecords
    BY <1>1 DEF CallGood
  <1>6. new \in CallRecords
    BY <1>2, <1>4, <1>5 DEF CallRecords
  <1>7. new.afters = s.afters /\ new.finished = s.finished /\ new.n = s.n /\ new.kind = s.kind
        /\ new.overrun = s.overrun /\ new.pc = s.pc /\ new.conn = s.conn /\ new.closeFailed = s.closeFailed
    BY <1>4, <1>5 DEF CallRecords
  <1>8. CallGood(new, tx[c])
    BY <1>1, <1>6, <1>7 DEF CallGood
  <1>9. call' = [call EXCEPT ![c] = new] /\ tx' = tx /\ pool' = pool
    BY <1>1, <1>2, <1>4 DEF ScanAgain
  <1> QED BY <1>1, <1>7, <1>8, <1>9, CallMoves

LEMMA RowsDone ==
  ASSUME RuntimeInv, NEW c \in DbCallers, RowDone(c)
  PROVE  RuntimeInv'
  <1>1. PICK s : s = call[c] /\ CallGood(s, tx[c]) /\ s.pc = "scanned"
    BY DEF RuntimeInv, RowDone
  <1>4. PICK new : new = [s EXCEPT !.pc = "idle"]
    OBVIOUS
  <1>5. s \in CallRecords
    BY <1>1 DEF CallGood
  <1>6. new \in CallRecords
    BY <1>4, <1>5 DEF CallRecords
  <1>7. new.afters = s.afters /\ new.finished = s.finished /\ new.n = s.n /\ new.kind = s.kind
        /\ new.overrun = s.overrun /\ new.pc = "idle" /\ new.conn = s.conn /\ new.closeFailed = s.closeFailed
    BY <1>4, <1>5 DEF CallRecords
  <1>8. CallGood(new, tx[c])
    BY <1>1, <1>6, <1>7 DEF CallGood
  <1>9. call' = [call EXCEPT ![c] = new] /\ tx' = tx /\ pool' = pool
    BY <1>1, <1>4 DEF RowDone
  <1> QED BY <1>1, <1>7, <1>8, <1>9, CallMoves

\* A loop that has not stopped is not overrun by one more item.
LEMMA Yields ==
  ASSUME NEW s \in CallRecords, NEW stop \in BOOLEAN
  PROVE  /\ Yield(s, stop) \in CallRecords
         /\ Yield(s, stop).afters = s.afters /\ Yield(s, stop).finished = s.finished /\ Yield(s, stop).n = s.n
         /\ Yield(s, stop).kind = s.kind /\ Yield(s, stop).pc = s.pc /\ Yield(s, stop).conn = s.conn
         /\ Yield(s, stop).row = s.row
         /\ s.stopped # TRUE /\ s.overrun # TRUE => Yield(s, stop).overrun # TRUE
  <1>1. s.overrun \in BOOLEAN /\ s.stopped \in BOOLEAN
    BY DEF CallRecords
  <1>2. PICK o \in BOOLEAN : o = (s.overrun \/ s.stopped)
    OBVIOUS
  <1>3. PICK q \in BOOLEAN : q = (s.stopped \/ stop)
    OBVIOUS
  <1>4. Yield(s, stop) = [s EXCEPT !.overrun = o, !.stopped = q]
    BY <1>2, <1>3 DEF Yield
  <1>5. s.stopped # TRUE /\ s.overrun # TRUE => o # TRUE
    BY <1>1, <1>2
  <1>6. [s EXCEPT !.overrun = o, !.stopped = q] \in CallRecords
    BY ZenonT(60), <1>2, <1>3 DEF CallRecords
  <1> QED BY <1>4, <1>5, <1>6 DEF CallRecords

LEMMA YieldsItem ==
  ASSUME RuntimeInv, NEW c \in DbCallers, yieldCursorItem(c)
  PROVE  RuntimeInv'
  <1>1. PICK s : s = call[c] /\ CallGood(s, tx[c]) /\ s.pc = "rows" /\ s.kind = "each"
    BY DEF RuntimeInv, yieldCursorItem
  <1>2. PICK stop, bad \in BOOLEAN : call' = [call EXCEPT ![c] = [Yield(@, stop) EXCEPT !.row = call[c].row + 1, !.err = bad]]
    BY DEF yieldCursorItem
  <1>3. s \in CallRecords /\ s.overrun # TRUE
    BY <1>1 DEF CallGood
  <1>4. s.stopped # TRUE
    BY <1>1, <1>3 DEF yieldCursorItem, drainCursor, CallRecords
  <1>5. PICK b : b = Yield(s, stop)
    OBVIOUS
  <1>6. /\ b \in CallRecords /\ b.afters = s.afters /\ b.finished = s.finished /\ b.n = s.n
        /\ b.kind = s.kind /\ b.pc = s.pc /\ b.conn = s.conn /\ b.overrun # TRUE
    BY <1>2, <1>3, <1>4, <1>5, Yields
  <1>7. PICK r \in Nat : r = s.row + 1
    BY <1>3 DEF CallRecords
  <1>8. PICK new : new = [b EXCEPT !.row = r, !.err = bad]
    OBVIOUS
  <1>9. new \in CallRecords
    BY <1>2, <1>6, <1>7, <1>8 DEF CallRecords
  <1>10. new.afters = s.afters /\ new.finished = s.finished /\ new.n = s.n /\ new.kind = s.kind
        /\ new.overrun = b.overrun /\ new.pc = s.pc /\ new.conn = s.conn
    BY <1>6, <1>8 DEF CallRecords
  <1>11. CallGood(new, tx[c])
    BY <1>1, <1>6, <1>9, <1>10 DEF CallGood
  <1>12. tx' = tx /\ pool' = pool
    BY DEF yieldCursorItem
  <1>15. call' = [call EXCEPT ![c] = new]
    BY <1>1, <1>2, <1>5, <1>7, <1>8
  <1> QED BY <1>1, <1>10, <1>11, <1>12, <1>15, CallMoves

LEMMA YieldsErr ==
  ASSUME RuntimeInv, NEW c \in DbCallers, yieldCursorErr(c)
  PROVE  RuntimeInv'
  <1>1. PICK s : s = call[c] /\ CallGood(s, tx[c]) /\ s.pc = "rows" /\ s.kind = "each"
    BY DEF RuntimeInv, yieldCursorErr
  <1>2. PICK bad, stop \in BOOLEAN :
          call' = [call EXCEPT ![c] = [IF ~@.stopped /\ ~@.err /\ bad THEN Yield(@, stop) ELSE @ EXCEPT !.pc = "closing"]]
    BY DEF yieldCursorErr
  <1>3. s \in CallRecords /\ s.overrun # TRUE
    BY <1>1 DEF CallGood
  <1>4. PICK b : b = IF ~s.stopped /\ ~s.err /\ bad THEN Yield(s, stop) ELSE s
    OBVIOUS
  <1>5. /\ b \in CallRecords /\ b.afters = s.afters /\ b.finished = s.finished /\ b.n = s.n
        /\ b.kind = s.kind /\ b.conn = s.conn /\ b.overrun # TRUE
    <2>1. CASE b = s
      BY <1>3, <2>1
    <2>2. CASE ~s.stopped /\ b = Yield(s, stop)
      <3>1. s.stopped # TRUE
        BY <2>2
      <3> QED BY <1>2, <1>3, <2>2, <3>1, Yields
    <2> QED BY <1>4, <2>1, <2>2
  <1>8. PICK new : new = [b EXCEPT !.pc = "closing"]
    OBVIOUS
  <1>9. new \in CallRecords
    BY <1>5, <1>8 DEF CallRecords
  <1>10. new.afters = s.afters /\ new.finished = s.finished /\ new.n = s.n /\ new.kind = s.kind
        /\ new.overrun = b.overrun /\ new.pc = "closing" /\ new.conn = s.conn
    BY <1>5, <1>8 DEF CallRecords
  <1>11. CallGood(new, tx[c])
    BY <1>1, <1>5, <1>9, <1>10 DEF CallGood
  <1>12. call' = [call EXCEPT ![c] = new] /\ tx' = tx /\ pool' = pool
    BY <1>1, <1>2, <1>4, <1>8 DEF yieldCursorErr
  <1> QED BY <1>1, <1>10, <1>11, <1>12, CallMoves

LEMMA YieldsCloseError ==
  ASSUME RuntimeInv, NEW c \in DbCallers, yieldCursorCloseError(c)
  PROVE  RuntimeInv'
  <1>1. PICK s : s = call[c] /\ CallGood(s, tx[c]) /\ s.pc = "closing"
    BY DEF RuntimeInv, yieldCursorCloseError
  <1>2. PICK bad, stop \in BOOLEAN :
          call' = [call EXCEPT ![c] = [IF bad THEN Yield(@, stop) ELSE @ EXCEPT !.pc = "idle", !.conn = FALSE, !.closeFailed = bad]]
    BY DEF yieldCursorCloseError
  <1>3. s \in CallRecords /\ s.overrun # TRUE /\ s.finished = s.n
    BY <1>1 DEF CallGood
  <1>4. PICK b : b = IF bad THEN Yield(s, stop) ELSE s
    OBVIOUS
  <1>5. /\ b \in CallRecords /\ b.afters = s.afters /\ b.finished = s.finished /\ b.n = s.n
        /\ b.kind = s.kind /\ (bad # TRUE => b.overrun # TRUE)
    <2>1. CASE bad = TRUE
      BY <1>2, <1>3, <1>4, <2>1, Yields
    <2>2. CASE bad = FALSE
      BY <1>3, <1>4, <2>2
    <2> QED BY <1>2, <2>1, <2>2
  <1>8. PICK new : new = [b EXCEPT !.pc = "idle", !.conn = FALSE, !.closeFailed = bad]
    OBVIOUS
  <1>9. new \in CallRecords
    BY <1>2, <1>5, <1>8 DEF CallRecords
  <1>10. new.afters = s.afters /\ new.finished = s.finished /\ new.n = s.n /\ new.kind = s.kind
        /\ new.overrun = b.overrun /\ new.pc = "idle" /\ new.conn = FALSE /\ new.closeFailed = bad
    BY <1>5, <1>8 DEF CallRecords
  <1>11. CallGood(new, tx[c])
    BY <1>1, <1>3, <1>5, <1>9, <1>10 DEF CallGood
  <1>12. call' = [call EXCEPT ![c] = new]
    BY <1>1, <1>2, <1>4, <1>8
  <1> QED BY <1>10, <1>11, <1>12, Gives DEF yieldCursorCloseError

LEMMA Begins ==
  ASSUME RuntimeInv, NEW c \in DbCallers, BeginTx(c)
  PROVE  RuntimeInv'
  <1>1. PICK s : s = call[c] /\ CallGood(s, tx[c]) /\ s.pc = "run" /\ s.kind = "begin"
    BY DEF RuntimeInv, BeginTx
  <1>2. tx[c] = "none" /\ s \in CallRecords /\ s.afters = HookCount * s.finished /\ s.finished + 1 = s.n
        /\ s.conn # TRUE /\ s.overrun # TRUE
    BY <1>1 DEF CallGood
  <1>3. CASE /\ UNCHANGED <<pool, tx>>
             /\ call' = [call EXCEPT ![c] = [after(call[c]) EXCEPT !.pc = "idle", !.err = TRUE]]
    BY <1>1, <1>3, Refuses
  <1>4. CASE /\ pool > 0 /\ pool' = pool - 1 /\ tx' = [tx EXCEPT ![c] = "open"]
             /\ call' = [call EXCEPT ![c] = [after(call[c]) EXCEPT !.pc = "idle"]]
    <2>1. PICK b : b = after(s)
      OBVIOUS
    <2>2. /\ b \in CallRecords /\ b.afters = HookCount * b.finished /\ b.conn = s.conn
          /\ b.finished = s.n /\ b.n = s.n /\ b.overrun # TRUE
      BY <1>2, <2>1, AfterHooks
    <2>3. PICK new : new = [b EXCEPT !.pc = "idle"]
      OBVIOUS
    <2>4. new \in CallRecords
      BY <2>2, <2>3 DEF CallRecords
    <2>5. new.afters = b.afters /\ new.finished = b.finished /\ new.n = b.n /\ new.conn = b.conn
          /\ new.overrun = b.overrun /\ new.pc = "idle"
      BY <2>2, <2>3 DEF CallRecords
    <2>6. CallGood(new, "open")
      BY <1>2, <2>2, <2>4, <2>5 DEF CallGood
    <2>7. Held(call[c], tx[c]) = 0 /\ Held(new, "open") = 1 /\ pool \in Int
      <3>1. call[c].conn # TRUE /\ new.conn # TRUE /\ tx[c] # "open"
        BY <1>1, <1>2, <2>2, <2>5
      <3>2. pool \in Int
        BY DEF RuntimeInv
      <3> QED BY <3>1, <3>2, HeldValues
    <2>8. pool' = pool + Held(call[c], tx[c]) - Held(new, "open")
      BY <1>4, <2>7
    <2>9. call' = [call EXCEPT ![c] = new]
      BY <1>1, <1>4, <2>1, <2>3
    <2> QED BY <1>4, <2>6, <2>8, <2>9, CallTurns
  <1> QED BY <1>3, <1>4 DEF BeginTx

LEMMA Commits ==
  ASSUME RuntimeInv, NEW c \in DbCallers, CommitContext(c)
  PROVE  RuntimeInv'
  <1>1. PICK s : s = call[c] /\ CallGood(s, tx[c]) /\ s.pc = "run" /\ s.kind \in {"commit", "rollback"}
    BY DEF RuntimeInv, CommitContext
  <1>2. PICK ok \in BOOLEAN : call' = [call EXCEPT ![c] = [after(@) EXCEPT !.pc = "idle", !.err = ~ok]]
    BY DEF CommitContext
  <1>3. PICK e \in BOOLEAN : e = (~ok)
    OBVIOUS
  <1>4. tx[c] = "open" /\ s.conn # TRUE
    BY <1>1 DEF CallGood
  <1>5. PICK new : new = [after(s) EXCEPT !.pc = "idle", !.err = e] /\ CallGood(new, "none") /\ new.conn = s.conn
    BY ZenonT(60), <1>1, <1>3, EndGood
  <1>6. Held(call[c], tx[c]) = 1 /\ Held(new, "none") = 0 /\ pool \in Int
    <2>1. call[c].conn # TRUE /\ new.conn # TRUE
      BY <1>1, <1>4, <1>5
    <2>2. pool \in Int
      BY DEF RuntimeInv
    <2>3. Held(call[c], tx[c]) = 1
      BY <1>4, <2>1, HeldValues
    <2>4. Held(new, "none") = 0
      <3>1. "none" # "open"
        OBVIOUS
      <3>2. new.conn # TRUE
        BY <2>1
      <3> QED BY <3>1, <3>2, HeldValues, Zenon
    <2> QED BY <2>2, <2>3, <2>4
  <1>7. pool' = pool + Held(call[c], tx[c]) - Held(new, "none")
    BY <1>6 DEF CommitContext
  <1>8. call' = [call EXCEPT ![c] = new] /\ tx' = [tx EXCEPT ![c] = "none"]
    BY <1>1, <1>2, <1>3, <1>5 DEF CommitContext
  <1> QED BY <1>5, <1>7, <1>8, CallTurns

LEMMA RuntimeStep == RuntimeInv /\ [RuntimeNext]_runtimeVars => RuntimeInv'
  <1> SUFFICES ASSUME RuntimeInv, [RuntimeNext]_runtimeVars PROVE RuntimeInv'  OBVIOUS
  <1>1. CASE UNCHANGED runtimeVars
    BY <1>1 DEF runtimeVars, RuntimeInv, Accounted, OpenTxs, Holding
  <1>2. CASE RuntimeNext
    <2>1. PICK c \in DbCallers :
            \/ \E kind \in Kinds \cup {"begin", "commit", "rollback"} : Start(c, kind)
            \/ before(c) \/ observedExecContext(c) \/ observedQueryContext(c) \/ QueryRowContext(c) \/ scanRows(c)
            \/ RowScan(c) \/ scanSingleRow(c) \/ ScanAgain(c) \/ RowDone(c)
            \/ yieldCursorItem(c) \/ yieldCursorErr(c) \/ yieldCursorCloseError(c)
            \/ BeginTx(c) \/ CommitContext(c)
      BY <1>2 DEF RuntimeNext
    <2> QED BY <2>1, Starts, Befores, Execs, QueriesRun, QueriesRow, ScansRows, RowScans, ScansSingleRow, ScansAgain,
               RowsDone, YieldsItem, YieldsErr, YieldsCloseError, Begins, Commits
  <1> QED BY <1>1, <1>2

LEMMA RuntimeImplies == RuntimeInv => RuntimeExact
  <1> SUFFICES ASSUME RuntimeInv PROVE RuntimeExact  OBVIOUS
  <1>1. { c \in DbCallers : call[c].conn } = Holding
    <2>1. \A c \in DbCallers : call[c].conn \in BOOLEAN
      BY DEF RuntimeInv, CallGood, CallRecords
    <2> QED BY <2>1 DEF Holding
  <1>2. ConnectionsAccounted
    BY <1>1 DEF RuntimeInv, Accounted, OpenTxs, ConnectionsAccounted
  <1>3. HooksSeeEveryEnd
    BY DEF RuntimeInv, CallGood, HooksSeeEveryEnd
  <1>4. NoOverrunUnlessCloseFails
    <2> SUFFICES ASSUME NEW c \in DbCallers, call[c].overrun PROVE call[c].closeFailed
      BY DEF NoOverrunUnlessCloseFails
    <2>1. call[c].overrun \in BOOLEAN /\ call[c].closeFailed \in BOOLEAN /\ CallGood(call[c], tx[c])
      BY DEF RuntimeInv, CallGood, CallRecords
    <2>2. call[c].overrun = TRUE
      BY <2>1
    <2>3. call[c].closeFailed = TRUE
      BY <2>1, <2>2 DEF CallGood
    <2> QED BY <2>3
  <1> QED BY <1>2, <1>3, <1>4 DEF RuntimeExact

-----------------------------------------------------------------------------
(* dbx/idgen: the ids of a generator. *)

GenRecords == [last : Nat, seq : 0..(SequenceSize - 1), spinning : BOOLEAN]
IdRecords == [host : Hosts, id : Nat \X (1..MaxNodeID) \X Nat]

\* The generator is past this id: its millisecond is over, or its sequence is.
Passed(id, g) == id[1] < g.last \/ (id[1] = g.last /\ (g.spinning = TRUE \/ id[3] <= g.seq))

Growing ==
  /\ \A h \in Hosts : gen[h].last <= nowMs
  /\ \A i \in 1..Len(issued) : Passed(issued[i].id, gen[issued[i].host])
  /\ \A i, j \in 1..Len(issued) : i < j /\ issued[i].host = issued[j].host => Later(issued[i].id, issued[j].id)

IdsInv ==
  /\ nowMs \in Nat /\ setBack \in BOOLEAN /\ nodeOf \in [Hosts -> 1..MaxNodeID]
  /\ gen \in [Hosts -> GenRecords] /\ issued \in Seq(IdRecords)
  /\ \A i \in 1..Len(issued) : issued[i].id[2] = nodeOf[issued[i].host]
  /\ setBack # TRUE => Growing

LEMMA IdsStart == IdsInit => IdsInv
  <1> SUFFICES ASSUME IdsInit PROVE IdsInv  OBVIOUS
  <1>1. SequenceSize \in Nat \ {0} /\ MaxNodeID \in Nat \ {0}
    BY IdsConstants
  <1>2. nowMs = 1 /\ setBack = FALSE /\ issued = <<>> /\ gen = [h \in Hosts |-> [last |-> 0, seq |-> 0, spinning |-> FALSE]]
    BY DEF IdsInit
  <1>3. nodeOf \in [Hosts -> 1..MaxNodeID]
    <2>1. PICK N : nodeOf \in [Hosts -> N] /\ \A h \in Hosts : NewSnowflakeAccepts(nodeOf[h])
      BY DEF IdsInit
    <2> QED BY <2>1 DEF NewSnowflakeAccepts
  <1>4. gen \in [Hosts -> GenRecords]
    BY <1>1, <1>2 DEF GenRecords
  <1>5. issued \in Seq(IdRecords) /\ Len(issued) = 0 /\ 1..Len(issued) = {}
    BY <1>2
  <1>6. Growing
    BY <1>2, <1>5 DEF Growing
  <1> QED BY <1>2, <1>3, <1>4, <1>5, <1>6 DEF IdsInv

LEMMA NextSeq ==
  ASSUME NEW s \in 0..(SequenceSize - 1)
  PROVE  (s + 1) % SequenceSize = (IF s + 1 < SequenceSize THEN s + 1 ELSE 0)
  <1>1. SequenceSize \in Nat \ {0}
    BY IdsConstants
  <1>2. CASE s + 1 < SequenceSize
    BY <1>1, <1>2
  <1>3. CASE s + 1 = SequenceSize
    BY <1>1, <1>3
  <1> QED BY <1>1, <1>2, <1>3

\* An id after everything the generator has passed keeps the ids of its host growing.
LEMMA IssueGrows ==
  ASSUME IdsInv, NEW h \in Hosts, NEW seq \in 0..(SequenceSize - 1), Issue(h, seq), UNCHANGED <<nowMs, setBack, nodeOf>>,
         setBack # TRUE => \/ gen[h].last < nowMs
                           \/ gen[h].last = nowMs /\ gen[h].spinning # TRUE /\ gen[h].seq < seq
  PROVE  IdsInv'
  <1>0. SequenceSize \in Nat \ {0} /\ seq \in Nat /\ nowMs \in Nat /\ nodeOf[h] \in 1..MaxNodeID
    BY IdsConstants DEF IdsInv
  <1>1. PICK g : g = [last |-> nowMs, seq |-> seq, spinning |-> FALSE]
    OBVIOUS
  <1>2. g \in GenRecords /\ g.last = nowMs /\ g.seq = seq /\ g.spinning = FALSE
    BY <1>0, <1>1 DEF GenRecords
  <1>3. gen' = [gen EXCEPT ![h] = g]
    BY <1>1 DEF Issue
  <1>4. gen' \in [Hosts -> GenRecords] /\ gen'[h] = g /\ \A k \in Hosts : k # h => gen'[k] = gen[k]
    BY <1>2, <1>3 DEF IdsInv
  <1>5. PICK d : d = <<nowMs, nodeOf[h], seq>>
    OBVIOUS
  <1>6. d \in Nat \X (1..MaxNodeID) \X Nat /\ d[1] = nowMs /\ d[2] = nodeOf[h] /\ d[3] = seq
    BY <1>0, <1>5
  <1>7. PICK r : r = [host |-> h, id |-> d]
    OBVIOUS
  <1>8. r \in IdRecords /\ r.host = h /\ r.id = d
    BY <1>6, <1>7 DEF IdRecords
  <1>9. issued' = Append(issued, r)
    BY <1>5, <1>7 DEF Issue
  <1>10. PICK n \in Nat : n = Len(issued)
    BY DEF IdsInv
  <1>11. issued' \in Seq(IdRecords) /\ Len(issued') = n + 1 /\ issued'[n + 1] = r
         /\ \A i \in 1..n : issued'[i] = issued[i]
    BY <1>8, <1>9, <1>10 DEF IdsInv
  <1>12. \A i \in 1..n : issued[i] \in IdRecords
    BY <1>10 DEF IdsInv
  <1>13. \A i \in 1..(n + 1) : i \in 1..n \/ i = n + 1
    OBVIOUS
  <1>14. \A i \in 1..Len(issued') : issued'[i].id[2] = nodeOf'[issued'[i].host]
    BY <1>6, <1>8, <1>10, <1>11, <1>13 DEF IdsInv
  <1>15. ASSUME setBack # TRUE PROVE Growing'
    <2>1. Growing
      BY <1>15 DEF IdsInv
    <2>2. \A k \in Hosts : gen'[k].last <= nowMs'
      BY <1>0, <1>2, <1>4, <2>1 DEF Growing
    <2>3. \A i \in 1..n : issued[i].host = h => Later(issued[i].id, d)
      <3> SUFFICES ASSUME NEW i \in 1..n, issued[i].host = h PROVE Later(issued[i].id, d)
        OBVIOUS
      <3>1. Passed(issued[i].id, gen[h])
        BY <1>10, <2>1 DEF Growing
      <3>2. PICK a : a = issued[i].id
        OBVIOUS
      <3>3. a[1] \in Nat /\ a[3] \in Nat
        BY <1>12, <3>2 DEF IdRecords
      <3>4. gen[h].last \in Nat /\ gen[h].seq \in Nat
        BY <1>0 DEF IdsInv, GenRecords
      <3>5. a[1] < gen[h].last \/ (a[1] = gen[h].last /\ (gen[h].spinning = TRUE \/ a[3] <= gen[h].seq))
        BY <3>1, <3>2 DEF Passed
      <3>6. CASE gen[h].last < nowMs
        <4>1. a[1] <= gen[h].last
          BY <3>3, <3>4, <3>5
        <4>2. a[1] < nowMs
          BY <1>0, <3>3, <3>4, <3>6, <4>1
        <4> QED BY <1>6, <3>2, <4>2 DEF Later
      <3>7. CASE gen[h].last = nowMs /\ gen[h].spinning # TRUE /\ gen[h].seq < seq
        <4>1. a[1] < gen[h].last \/ (a[1] = gen[h].last /\ a[3] <= gen[h].seq)
          BY <3>5, <3>7, Zenon
        <4>2. a[1] < nowMs \/ (a[1] = nowMs /\ a[3] < seq)
          <5>1. gen[h].last = nowMs /\ gen[h].seq < seq
            BY <3>7
          <5> QED BY <1>0, <3>3, <3>4, <4>1, <5>1
        <4> QED BY <1>6, <3>2, <4>2 DEF Later
      <3> QED BY <1>15, <3>6, <3>7
    <2>4. \A i \in 1..Len(issued') : Passed(issued'[i].id, gen'[issued'[i].host])
      <3> SUFFICES ASSUME NEW i \in 1..(n + 1) PROVE Passed(issued'[i].id, gen'[issued'[i].host])
        BY <1>11
      <3>1. CASE i = n + 1
        BY <1>0, <1>2, <1>4, <1>6, <1>8, <1>11, <3>1 DEF Passed
      <3>2. CASE i \in 1..n /\ issued[i].host # h
        BY <1>4, <1>10, <1>11, <1>12, <2>1, <3>2 DEF Growing, IdRecords
      <3>3. CASE i \in 1..n /\ issued[i].host = h
        <4>1. issued'[i].host = h /\ issued'[i].id = issued[i].id /\ Later(issued[i].id, d)
          BY <1>11, <2>3, <3>3
        <4>2. PICK a : a = issued[i].id
          OBVIOUS
        <4>3. a[1] \in Nat /\ a[3] \in Nat
          BY <1>12, <3>3, <4>2 DEF IdRecords
        <4>4. Passed(a, g)
          BY <1>0, <1>2, <1>6, <4>1, <4>2, <4>3 DEF Passed, Later
        <4> QED BY <1>4, <4>1, <4>2, <4>4
      <3> QED BY <1>13, <3>1, <3>2, <3>3
    <2>5. \A i, j \in 1..Len(issued') : i < j /\ issued'[i].host = issued'[j].host => Later(issued'[i].id, issued'[j].id)
      <3> SUFFICES ASSUME NEW i \in 1..(n + 1), NEW j \in 1..(n + 1), i < j, issued'[i].host = issued'[j].host
                   PROVE  Later(issued'[i].id, issued'[j].id)
        BY <1>11
      <3>1. i \in 1..n /\ issued'[i] = issued[i]
        BY <1>11
      <3>2. CASE j = n + 1
        BY <1>8, <1>11, <2>3, <3>1, <3>2
      <3>3. CASE j \in 1..n
        BY <1>10, <1>11, <2>1, <3>1, <3>3 DEF Growing
      <3> QED BY <1>13, <3>2, <3>3
    <2> QED BY <2>2, <2>4, <2>5 DEF Growing
  <1> QED BY <1>4, <1>11, <1>14, <1>15 DEF IdsInv

LEMMA IdsTick == ASSUME IdsInv, Tick PROVE IdsInv'
  <1>1. nowMs \in Nat /\ nowMs' = nowMs + 1 /\ UNCHANGED <<setBack, nodeOf, gen, issued>>
    BY DEF IdsInv, Tick
  <1>2. \A h \in Hosts : gen[h].last \in Nat
    BY DEF IdsInv, GenRecords
  <1>3. setBack # TRUE => Growing'
    BY <1>1, <1>2 DEF IdsInv, Growing
  <1>4. nowMs' \in Nat /\ (setBack' # TRUE => Growing')
    <2>1. nowMs' \in Nat
      BY <1>1
    <2>2. setBack' = setBack
      BY <1>1
    <2> QED BY <1>3, <2>1, <2>2
  <1> QED BY <1>1, <1>4 DEF IdsInv

LEMMA IdsSetBack == ASSUME IdsInv, ClockSetBack PROVE IdsInv'
  <1>1. nowMs \in Nat /\ nowMs > 1 /\ nowMs' = nowMs - 1 /\ setBack' = TRUE /\ UNCHANGED <<nodeOf, gen, issued>>
    BY DEF IdsInv, ClockSetBack
  <1>2. nowMs' \in Nat
    BY <1>1
  <1> QED BY <1>1, <1>2 DEF IdsInv

LEMMA IdsNextID == ASSUME IdsInv, NEW h \in Hosts, nextID(h) PROVE IdsInv'
  <1>1. PICK g : g = gen[h] /\ g \in GenRecords
    BY DEF IdsInv
  <1>2. /\ SequenceSize \in Nat \ {0} /\ nowMs \in Nat /\ g.last \in Nat /\ g.seq \in 0..(SequenceSize - 1)
        /\ g.spinning \in BOOLEAN /\ g.spinning # TRUE
    BY <1>1, IdsConstants DEF IdsInv, GenRecords, nextID
  <1>3. PICK seq : seq = (g.seq + 1) % SequenceSize
    OBVIOUS
  <1>4. seq = (IF g.seq + 1 < SequenceSize THEN g.seq + 1 ELSE 0)
    BY <1>2, <1>3, NextSeq
  <1>5. seq \in 0..(SequenceSize - 1) /\ 0 \in 0..(SequenceSize - 1)
    BY <1>2, <1>4
  <1>6. setBack # TRUE => g.last <= nowMs
    BY <1>1 DEF IdsInv, Growing
  <1>7. UNCHANGED <<nowMs, setBack, nodeOf>>
    BY DEF nextID
  <1>8. CASE nowMs # g.last
    <2>1. Issue(h, 0)
      BY <1>1, <1>8 DEF nextID
    <2>2. setBack # TRUE => gen[h].last < nowMs
      BY <1>1, <1>2, <1>6, <1>8
    <2> QED BY <1>5, <1>7, <2>1, <2>2, IssueGrows
  <1>9. CASE nowMs = g.last /\ seq # 0
    <2>1. Issue(h, seq)
      BY <1>1, <1>3, <1>9 DEF nextID
    <2>2. gen[h].last = nowMs /\ gen[h].spinning # TRUE /\ gen[h].seq < seq
      <3>1. g.seq < seq
        BY <1>2, <1>4, <1>9
      <3> QED BY <1>1, <1>2, <1>9, <3>1
    <2> QED BY <1>5, <1>7, <2>1, <2>2, IssueGrows
  <1>10. CASE nowMs = g.last /\ seq = 0
    <2>1. gen' = [gen EXCEPT ![h].seq = 0, ![h].spinning = TRUE] /\ issued' = issued
      BY <1>1, <1>3, <1>10 DEF nextID
    <2>2. PICK new : new = [g EXCEPT !.seq = 0, !.spinning = TRUE]
      OBVIOUS
    <2>3. new \in GenRecords /\ new.last = g.last /\ new.spinning = TRUE
      BY <1>1, <1>5, <2>2 DEF GenRecords
    <2>4. gen' = [gen EXCEPT ![h] = new]
      BY <1>1, <2>1, <2>2 DEF IdsInv
    <2>5. gen' \in [Hosts -> GenRecords] /\ gen'[h] = new /\ \A k \in Hosts : k # h => gen'[k] = gen[k]
      BY <2>3, <2>4 DEF IdsInv
    <2>6. ASSUME setBack # TRUE PROVE Growing'
      <3>1. Growing
        BY <2>6 DEF IdsInv
      <3>2. \A k \in Hosts : gen'[k].last <= nowMs'
        BY <1>1, <1>7, <2>3, <2>5, <3>1 DEF Growing
      <3>3. \A i \in 1..Len(issued') : Passed(issued'[i].id, gen'[issued'[i].host])
        <4> SUFFICES ASSUME NEW i \in 1..Len(issued) PROVE Passed(issued[i].id, gen'[issued[i].host])
          BY <2>1
        <4>1. Passed(issued[i].id, gen[issued[i].host]) /\ issued[i].host \in Hosts
          <5>1. Passed(issued[i].id, gen[issued[i].host])
            BY <3>1 DEF Growing
          <5>2. issued[i] \in IdRecords
            BY DEF IdsInv
          <5> QED BY <5>1, <5>2 DEF IdRecords
        <4>2. CASE issued[i].host # h
          BY <2>5, <4>1, <4>2
        <4>3. CASE issued[i].host = h
          BY <1>1, <1>2, <2>3, <2>5, <4>1, <4>3 DEF Passed
        <4> QED BY <4>2, <4>3
      <3>4. \A i, j \in 1..Len(issued') : i < j /\ issued'[i].host = issued'[j].host => Later(issued'[i].id, issued'[j].id)
        BY <2>1, <3>1 DEF Growing
      <3> QED BY <3>2, <3>3, <3>4 DEF Growing
    <2> QED BY <1>7, <2>1, <2>5, <2>6 DEF IdsInv
  <1> QED BY <1>8, <1>9, <1>10

LEMMA IdsSpinEnds == ASSUME IdsInv, NEW h \in Hosts, SpinEnds(h) PROVE IdsInv'
  <1>1. Issue(h, 0) /\ nowMs > gen[h].last /\ UNCHANGED <<nowMs, setBack, nodeOf>>
    BY DEF SpinEnds
  <1>2. SequenceSize \in Nat \ {0} /\ nowMs \in Nat /\ gen[h].last \in Nat
    BY IdsConstants DEF IdsInv, GenRecords
  <1>3. 0 \in 0..(SequenceSize - 1) /\ gen[h].last < nowMs
    BY <1>1, <1>2
  <1> QED BY <1>1, <1>3, IssueGrows

LEMMA IdsStep == IdsInv /\ [IdsNext]_idsVars => IdsInv'
  <1> SUFFICES ASSUME IdsInv, [IdsNext]_idsVars PROVE IdsInv'  OBVIOUS
  <1>1. CASE UNCHANGED idsVars
    <2>1. nowMs' = nowMs /\ setBack' = setBack /\ nodeOf' = nodeOf /\ gen' = gen /\ issued' = issued
      BY <1>1 DEF idsVars
    <2>2. Growing => Growing'
      BY <2>1 DEF Growing
    <2> QED BY <2>1, <2>2 DEF IdsInv
  <1>2. CASE IdsNext
    BY <1>2, IdsTick, IdsSetBack, IdsNextID, IdsSpinEnds DEF IdsNext
  <1> QED BY <1>1, <1>2

LEMMA IdsImplies == IdsInv => IdsUnique
  <1> SUFFICES ASSUME IdsInv, ~setBack PROVE
        \A i, j \in DOMAIN issued : i < j =>
          /\ issued[i].host = issued[j].host => Later(issued[i].id, issued[j].id)
          /\ nodeOf[issued[i].host] # nodeOf[issued[j].host] => issued[i].id # issued[j].id
    BY DEF IdsUnique
  <1>1. setBack # TRUE
    OBVIOUS
  <1>2. Growing /\ DOMAIN issued = 1..Len(issued)
    BY <1>1 DEF IdsInv
  <1> SUFFICES ASSUME NEW i \in 1..Len(issued), NEW j \in 1..Len(issued), i < j
               PROVE  /\ issued[i].host = issued[j].host => Later(issued[i].id, issued[j].id)
                      /\ nodeOf[issued[i].host] # nodeOf[issued[j].host] => issued[i].id # issued[j].id
    BY <1>2
  <1>3. issued[i].host = issued[j].host => Later(issued[i].id, issued[j].id)
    BY <1>2 DEF Growing
  <1>4. issued[i].id[2] = nodeOf[issued[i].host] /\ issued[j].id[2] = nodeOf[issued[j].host]
    BY DEF IdsInv
  <1> QED BY <1>3, <1>4

\* Sessions and generators, side by side, keep their invariants; connections, hooks and
\* ids are accounted for with any number of callers, hooks, rows and hosts.
THEOREM DbRuntimeExactAlways == DbRuntimeSpec => []DbRuntimeExact
  <1>1. RuntimeInit /\ IdsInit => RuntimeInv /\ IdsInv
    BY RuntimeStarts, IdsStart
  <1>2. RuntimeInv /\ IdsInv /\ [[RuntimeNext]_runtimeVars /\ [IdsNext]_idsVars]_<<runtimeVars, idsVars>> => RuntimeInv' /\ IdsInv'
    <2> SUFFICES ASSUME RuntimeInv, IdsInv, [[RuntimeNext]_runtimeVars /\ [IdsNext]_idsVars]_<<runtimeVars, idsVars>>
                 PROVE  RuntimeInv' /\ IdsInv'
      OBVIOUS
    <2>1. [RuntimeNext]_runtimeVars /\ [IdsNext]_idsVars
      OBVIOUS
    <2> QED BY <2>1, RuntimeStep, IdsStep
  <1>3. RuntimeInv /\ IdsInv => DbRuntimeExact
    BY RuntimeImplies, IdsImplies DEF DbRuntimeExact
  <1> QED BY <1>1, <1>2, <1>3, PTL DEF DbRuntimeSpec

-----------------------------------------------------------------------------
(* dbx/migrate: overlapping, failing and dying runs. *)

FileContents == Contents \cup {NoFile}
AllMigrations ==
  [kind : {"sql", "repeatable", "go"}, version : Nat,
   desc : { n.desc : n \in FileNames } \cup { g.desc : g \in GoMigrations },
   sum : (FileContents \X FileContents) \cup {<<>>}]

MigItems(q) == { q[i] : i \in 1..Len(q) }
OneEach(S) == \A x, y \in S : SameMigration(x, y) => x = y

RunRecords ==
  [pc : {"resting", "loaded", "versioned", "repeatables"}, loaded : SUBSET AllMigrations, todo : Seq(AllMigrations),
   mode : {"sql", "go"}]

\* What a run has loaded and still has to do.
RunGood(s) ==
  /\ s \in RunRecords /\ IsFiniteSet(s.loaded) /\ OneEach(s.loaded)
  /\ s.mode = "go" => Repeatables(s.loaded) = {}
  /\ s.todo \in Seq(s.loaded)
  /\ \A i, j \in 1..Len(s.todo) : s.todo[i] = s.todo[j] => i = j
  /\ s.pc = "versioned" => MigItems(s.todo) \subseteq Versioned(s.loaded)
  /\ s.pc = "repeatables" => MigItems(s.todo) \subseteq Repeatables(s.loaded)

\* A run that is alone has left to do exactly what the history says is left.
RunAlone(s) ==
  /\ s.pc = "versioned" => \A x \in Versioned(s.loaded) : IndexedRecord(history, x) = {} <=> x \in MigItems(s.todo)
  /\ s.pc = "repeatables" => /\ \A x \in Versioned(s.loaded) : IndexedRecord(history, x) # {}
                             /\ \A x \in Repeatables(s.loaded) : x \in history <=> x \notin MigItems(s.todo)

\* Migration x was executed, last as the row x.
LastAs(x) ==
  \E i \in 1..Len(executed) : executed[i] = x /\ \A j \in 1..Len(executed) : SameMigration(executed[j], x) => j <= i

MigRows ==
  /\ history \in SUBSET AllMigrations /\ OneEach(history)
  /\ \A x \in history : \E i \in 1..Len(executed) : SameMigration(executed[i], x)
  /\ tornDDL # TRUE => \A x \in history : LastAs(x)
  /\ tornDDL # TRUE => \A i \in 1..Len(executed) : IndexedRecord(history, executed[i]) # {}

MigOrder ==
  /\ \A i, j \in 1..Len(executed) : SameMigration(executed[i], executed[j]) /\ executed[i].kind # "repeatable" => i = j
  /\ \A i, j \in 1..Len(executed) : i < j /\ executed[i] = executed[j] =>
       \E k \in i..j : SameMigration(executed[k], executed[i]) /\ executed[k] # executed[i]

Alone == \A r \in Runners : RunAlone(runs[r])
Undisturbed == overlapped # TRUE /\ tornDDL # TRUE

MigrateInv ==
  /\ files \in [FileNames -> FileContents] /\ executed \in Seq(AllMigrations)
  /\ {txDDL, overlapped, tornDDL} \subseteq BOOLEAN /\ (txDDL = TRUE => tornDDL # TRUE)
  /\ DOMAIN runs = Runners /\ \A r \in Runners : RunGood(runs[r])
  /\ MigRows
  /\ overlapped # TRUE => \A r, s \in Runners : runs[r].pc # "resting" /\ runs[s].pc # "resting" => r = s
  /\ Undisturbed => MigOrder /\ Alone

-----------------------------------------------------------------------------
(* Sorting. *)

\* The members of S in an order in which key does not decrease.
Sorting(q, S, key) ==
  /\ q \in [1..Cardinality(S) -> S]
  /\ \A i, j \in 1..Cardinality(S) : i < j => q[i] # q[j] /\ key[q[i]] <= key[q[j]]

LEMMA SortingExists ==
  ASSUME NEW D, IsFiniteSet(D), NEW key \in [D -> Nat]
  PROVE  \E q : Sorting(q, D, key)
  <1> DEFINE Bad == { n \in Nat : \E S \in SUBSET D : Cardinality(S) = n /\ ~\E q : Sorting(q, S, key) }
  <1>1. ASSUME Bad # {} PROVE FALSE
    <2>1. PICK n \in Bad : \A m \in Bad : n <= m
      <3>1. Bad \in SUBSET Nat
        OBVIOUS
      <3> HIDE DEF Bad
      <3> QED BY <1>1, <3>1, LeastNatural
    <2>2. PICK S \in SUBSET D : Cardinality(S) = n /\ ~\E q : Sorting(q, S, key)
      OBVIOUS
    <2>3. IsFiniteSet(S) /\ n \in Nat
      BY FS_Subset
    <2>4. S # {}
      <3> SUFFICES ASSUME S = {} PROVE FALSE
        OBVIOUS
      <3>1. Cardinality(S) = 0
        BY FS_EmptySet
      <3>2. 1..Cardinality(S) = {}
        BY <3>1
      <3>3. PICK q : q = [i \in 1..Cardinality(S) |-> i]
        OBVIOUS
      <3>4. q \in [1..Cardinality(S) -> S] /\ \A i \in 1..Cardinality(S) : FALSE
        BY <3>2, <3>3
      <3>5. Sorting(q, S, key)
        BY <3>4 DEF Sorting
      <3> QED BY <2>2, <3>5
    <2>5. PICK x \in S : \A y \in S : key[x] <= key[y]
      <3> DEFINE V == { key[y] : y \in S }
      <3>1. V \in SUBSET Nat /\ V # {}
        BY <2>4
      <3>2. PICK v \in V : \A w \in V : v <= w
        <4> HIDE DEF V
        <4> QED BY <3>1, LeastNatural
      <3>3. PICK x \in S : v = key[x]
        OBVIOUS
      <3> QED BY <3>2, <3>3
    <2>6. PICK R : R = S \ {x}
      OBVIOUS
    <2>7. IsFiniteSet(R) /\ Cardinality(R) = n - 1 /\ R \in SUBSET D
      BY <2>2, <2>3, <2>5, <2>6, FS_RemoveElement
    <2>8. n - 1 \in Nat
      <3>1. Cardinality(R) \in Nat
        BY <2>7, FS_CardinalityType
      <3> QED BY <2>7, <3>1
    <2>9. n - 1 \notin Bad
      <3>1. n \in Nat /\ \A m \in Bad : n <= m
        BY <2>1, <2>3
      <3> HIDE DEF Bad
      <3> QED BY <3>1, <2>8
    <2>10. PICK p : Sorting(p, R, key)
      BY <2>7, <2>8, <2>9
    <2>11. p \in [1..(n - 1) -> R] /\ \A i, j \in 1..(n - 1) : i < j => p[i] # p[j] /\ key[p[i]] <= key[p[j]]
      BY <2>7, <2>10 DEF Sorting
    <2>12. PICK q : q = [i \in 1..n |-> IF i = 1 THEN x ELSE p[i - 1]]
      OBVIOUS
    <2>13. \A i \in 1..n : i # 1 => i - 1 \in 1..(n - 1)
      BY <2>3
    <2>14. 1 \in 1..n => q[1] = x
      BY <2>12
    <2>15. \A i \in 1..n : i # 1 => q[i] = p[i - 1] /\ q[i] \in R
      BY <2>11, <2>12, <2>13
    <2>16. q \in [1..n -> S]
      BY <2>5, <2>6, <2>12, <2>14, <2>15
    <2>17. \A i, j \in 1..n : i < j => q[i] # q[j] /\ key[q[i]] <= key[q[j]]
      <3> SUFFICES ASSUME NEW i \in 1..n, NEW j \in 1..n, i < j PROVE q[i] # q[j] /\ key[q[i]] <= key[q[j]]
        OBVIOUS
      <3>1. j # 1 /\ q[j] = p[j - 1] /\ q[j] \in R
        BY <2>3, <2>15
      <3>2. CASE i = 1
        BY <2>5, <2>6, <2>14, <3>1, <3>2
      <3>3. CASE i # 1
        <4>1. i - 1 \in 1..(n - 1) /\ j - 1 \in 1..(n - 1) /\ i - 1 < j - 1
          BY <2>3, <2>13, <3>1, <3>3
        <4> QED BY <2>11, <2>15, <3>1, <3>3, <4>1
      <3> QED BY <3>2, <3>3
    <2>18. Sorting(q, S, key)
      BY <2>2, <2>16, <2>17 DEF Sorting
    <2> QED BY <2>2, <2>18
  <1>2. Cardinality(D) \in Nat
    BY FS_CardinalityType
  <1> QED BY <1>1, <1>2

LEMMA ByVersionSorts ==
  ASSUME NEW S, IsFiniteSet(S), \A x \in S : x.version \in Nat
  PROVE  /\ ByVersion(S) \in Seq(S) /\ MigItems(ByVersion(S)) = S
         /\ \A i, j \in 1..Len(ByVersion(S)) : ByVersion(S)[i] = ByVersion(S)[j] => i = j
  <1>1. PICK n \in Nat : n = Cardinality(S)
    BY FS_CardinalityType
  <1>2. PICK q : q = ByVersion(S) /\ q \in [1..Cardinality(S) -> S] /\ \A i, j \in 1..Cardinality(S) : i < j => q[i] # q[j]
    <2>1. PICK key : key = [x \in S |-> x.version]
      OBVIOUS
    <2>2. key \in [S -> Nat]
      BY <2>1
    <2>3. PICK p : Sorting(p, S, key)
      BY <2>2, SortingExists
    <2>4. \E q \in [1..Cardinality(S) -> S] : \A i, j \in 1..Cardinality(S) : i < j => q[i] # q[j] /\ q[i].version <= q[j].version
      BY <2>1, <2>3 DEF Sorting
    <2> QED BY <2>4 DEF ByVersion
  <1>3. q \in [1..n -> S] /\ \A i, j \in 1..n : i < j => q[i] # q[j]
    BY <1>1, <1>2
  <1>4. q \in Seq(S) /\ Len(q) = n
    BY <1>3
  <1>5. \A i, j \in 1..n : q[i] = q[j] => i = j
    <2> SUFFICES ASSUME NEW i \in 1..n, NEW j \in 1..n, q[i] = q[j], i # j PROVE FALSE
      OBVIOUS
    <2>1. i < j \/ j < i
      OBVIOUS
    <2> QED BY <1>3, <2>1
  <1>6. MigItems(q) = S
    <2>1. PICK T : T = MigItems(q)
      OBVIOUS
    <2>2. T \in SUBSET S
      BY <1>3, <1>4, <2>1 DEF MigItems
    <2>3. q \in Bijection(1..n, T)
      <3>1. q \in [1..n -> T] /\ \A t \in T : \E i \in 1..n : q[i] = t
        BY <1>3, <1>4, <2>1 DEF MigItems
      <3>2. q \in Injection(1..n, T)
        BY <1>5, <3>1 DEF Injection, IsInjective
      <3>3. q \in Surjection(1..n, T)
        BY <3>1 DEF Surjection
      <3> QED BY <3>2, <3>3 DEF Bijection
    <2>4. IsFiniteSet(1..n) /\ Cardinality(1..n) = n
      BY FS_Interval
    <2>5. Cardinality(T) = n
      BY <2>3, <2>4, FS_Bijection DEF ExistsBijection
    <2>6. T = S
      BY <1>1, <2>2, <2>5, FS_Subset
    <2> QED BY <2>1, <2>6
  <1> QED BY <1>2, <1>4, <1>5, <1>6

-----------------------------------------------------------------------------
(* Files and histories. *)

LEMMA FiniteImage ==
  ASSUME NEW S, IsFiniteSet(S), NEW f, f = [x \in S |-> f[x]]
  PROVE  IsFiniteSet({ f[x] : x \in S })
  <1>1. f \in Surjection(S, { f[x] : x \in S })
    BY DEF Surjection
  <1> QED BY <1>1, FS_Surjection

LEMMA ContentType ==
  ASSUME files \in [FileNames -> FileContents], NEW prefix, NEW key
  PROVE  Content(prefix, key) \in FileContents
  <1>1. PICK here : here = { n \in FileNames : n.prefix = prefix /\ n.version = key.version /\ n.desc = key.desc /\ files[n] # NoFile }
    OBVIOUS
  <1>2. Content(prefix, key) = IF here = {} THEN NoFile ELSE files[CHOOSE n \in here : TRUE]
    BY <1>1 DEF Content
  <1>3. CASE here = {}
    BY <1>2, <1>3 DEF FileContents
  <1>4. CASE here # {}
    <2>1. (CHOOSE n \in here : TRUE) \in here
      BY <1>4
    <2>2. (CHOOSE n \in here : TRUE) \in FileNames
      BY <1>1, <2>1
    <2> QED BY <1>2, <1>4, <2>2
  <1> QED BY <1>3, <1>4

\* The record loadSQLMigrations makes of the pair of files with this key.
ItemOf(k) ==
  [version |-> k.version, desc |-> k.desc, repeatable |-> Content("R", k) # NoFile,
   up |-> IF Content("V", k) # NoFile THEN Content("V", k) ELSE Content("R", k), down |-> Content("U", k)]
RecordOf(i) ==
  [kind |-> IF i.repeatable THEN "repeatable" ELSE "sql", version |-> i.version, desc |-> i.desc, sum |-> <<i.up, i.down>>]

LEMMA SQLLoaded ==
  ASSUME files \in [FileNames -> FileContents]
  PROVE  loadSQLMigrations \in SUBSET AllMigrations /\ IsFiniteSet(loadSQLMigrations) /\ OneEach(loadSQLMigrations)
  <1> DEFINE Present == { m \in FileNames : files[m] # NoFile }
             Keys == { [version |-> n.version, desc |-> n.desc] : n \in Present }
             Full == { j \in { ItemOf(k) : k \in Keys } : j.up # NoFile }
  <1>1. loadSQLMigrations = { RecordOf(i) : i \in Full }
    BY DEF loadSQLMigrations, List, fileListKeys, ItemOf, RecordOf
  <1>2. IsFiniteSet(FileNames) /\ \A n \in FileNames : n.version \in Nat
    BY MigrateConstants
  <1>3. IsFiniteSet(Keys)
    <2>1. IsFiniteSet(Present)
      BY <1>2, FS_Subset
    <2>2. PICK f : f = [n \in Present |-> [version |-> n.version, desc |-> n.desc]]
      OBVIOUS
    <2>3. IsFiniteSet({ f[n] : n \in Present })
      <3>1. f = [n \in Present |-> f[n]]
        BY <2>2
      <3> QED BY <2>1, <3>1, FiniteImage
    <2>4. Keys = { f[n] : n \in Present }
      BY <2>2
    <2> QED BY <2>3, <2>4
  <1>4. \A k \in Keys : k.version \in Nat /\ k.desc \in { n.desc : n \in FileNames } /\ k = [version |-> k.version, desc |-> k.desc]
    BY <1>2
  <1>5. IsFiniteSet(loadSQLMigrations)
    <2> HIDE DEF Keys
    <2>1. IsFiniteSet({ ItemOf(k) : k \in Keys })
      <3>1. PICK f : f = [k \in Keys |-> ItemOf(k)]
        OBVIOUS
      <3>2. f = [k \in Keys |-> f[k]] /\ { ItemOf(k) : k \in Keys } = { f[k] : k \in Keys }
        BY <3>1
      <3> QED BY <1>3, <3>2, FiniteImage
    <2>2. IsFiniteSet(Full)
      BY <2>1, FS_Subset
    <2> HIDE DEF Full
    <2>3. IsFiniteSet({ RecordOf(i) : i \in Full })
      <3>1. PICK f : f = [i \in Full |-> RecordOf(i)]
        OBVIOUS
      <3>2. f = [i \in Full |-> f[i]] /\ { RecordOf(i) : i \in Full } = { f[i] : i \in Full }
        BY <3>1
      <3> QED BY <2>2, <3>2, FiniteImage
    <2> QED BY <1>1, <2>3
  <1> HIDE DEF Keys
  <1>6. \A x \in loadSQLMigrations : \E k \in Keys : x = RecordOf(ItemOf(k))
    BY <1>1
  <1>7. \A k \in Keys : RecordOf(ItemOf(k)) \in AllMigrations
                        /\ RecordOf(ItemOf(k)).version = k.version /\ RecordOf(ItemOf(k)).desc = k.desc
    <2> SUFFICES ASSUME NEW k \in Keys
                 PROVE  RecordOf(ItemOf(k)) \in AllMigrations
                        /\ RecordOf(ItemOf(k)).version = k.version /\ RecordOf(ItemOf(k)).desc = k.desc
      OBVIOUS
    <2>1. PICK u \in FileContents : u = (IF Content("V", k) # NoFile THEN Content("V", k) ELSE Content("R", k))
      BY ContentType
    <2>2. PICK d \in FileContents : d = Content("U", k)
      BY ContentType
    <2>3. PICK b \in BOOLEAN : b = (Content("R", k) # NoFile)
      OBVIOUS
    <2>4. ItemOf(k) = [version |-> k.version, desc |-> k.desc, repeatable |-> b, up |-> u, down |-> d]
      BY <2>1, <2>2, <2>3 DEF ItemOf
    <2>5. PICK kind \in {"sql", "repeatable"} : kind = (IF b THEN "repeatable" ELSE "sql")
      BY <2>3
    <2>6. RecordOf(ItemOf(k)) = [kind |-> kind, version |-> k.version, desc |-> k.desc, sum |-> <<u, d>>]
      BY <2>4, <2>5 DEF RecordOf
    <2>7. <<u, d>> \in FileContents \X FileContents
      BY <2>1, <2>2
    <2> QED BY <1>4, <2>5, <2>6, <2>7 DEF AllMigrations
  <1>8. loadSQLMigrations \in SUBSET AllMigrations
    BY <1>6, <1>7
  <1>9. OneEach(loadSQLMigrations)
    <2> SUFFICES ASSUME NEW x \in loadSQLMigrations, NEW y \in loadSQLMigrations, SameMigration(x, y) PROVE x = y
      BY DEF OneEach
    <2>1. PICK k \in Keys : x = RecordOf(ItemOf(k))
      BY <1>6
    <2>2. PICK l \in Keys : y = RecordOf(ItemOf(l))
      BY <1>6
    <2>3. k.version = l.version /\ k.desc = l.desc
      BY <1>7, <2>1, <2>2 DEF SameMigration
    <2>4. k = l
      BY <1>4, <2>3
    <2> QED BY <2>1, <2>2, <2>4
  <1> QED BY <1>5, <1>8, <1>9

LEMMA GoLoaded ==
  goMigrations \in SUBSET AllMigrations /\ IsFiniteSet(goMigrations) /\ OneEach(goMigrations) /\ Repeatables(goMigrations) = {}
  <1>1. IsFiniteSet(GoMigrations) /\ \A g \in GoMigrations : g.version \in Nat
    BY MigrateConstants
  <1>2. IsFiniteSet(goMigrations)
    <2>1. PICK f : f = [g \in GoMigrations |-> [kind |-> "go", version |-> g.version, desc |-> g.desc, sum |-> <<>>]]
      OBVIOUS
    <2>2. f = [g \in GoMigrations |-> f[g]] /\ goMigrations = { f[g] : g \in GoMigrations }
      BY <2>1 DEF goMigrations
    <2> QED BY <1>1, <2>2, FiniteImage
  <1>3. goMigrations \in SUBSET AllMigrations
    BY <1>1 DEF goMigrations, AllMigrations
  <1>4. OneEach(goMigrations) /\ Repeatables(goMigrations) = {}
    BY DEF goMigrations, OneEach, SameMigration, Repeatables
  <1> QED BY <1>2, <1>3, <1>4

LEMMA RestingGood == RunGood(Resting) /\ Resting.pc = "resting"
  <1>1. Resting.pc = "resting" /\ Resting.loaded = {} /\ Resting.todo = <<>> /\ Resting.mode = "sql"
    BY DEF Resting
  <1>2. <<>> \in Seq({}) /\ Len(<<>>) = 0 /\ 1..0 = {}
    OBVIOUS
  <1>3. IsFiniteSet({}) /\ OneEach({})
    BY FS_EmptySet DEF OneEach
  <1>4. Resting \in RunRecords
    BY DEF Resting, RunRecords
  <1> QED BY <1>1, <1>2, <1>3, <1>4 DEF RunGood

LEMMA MigrateStarts == MigrateInit => MigrateInv
  <1> SUFFICES ASSUME MigrateInit PROVE MigrateInv  OBVIOUS
  <1>1. fileEdits = 0 /\ history = {} /\ executed = <<>> /\ txDDL \in BOOLEAN /\ overlapped = FALSE /\ tornDDL = FALSE
        /\ runs = [r \in Runners |-> Resting]
    BY DEF MigrateInit
  <1>2. files \in [FileNames -> FileContents]
    <2>1. PICK c \in Contents : c = CHOOSE d \in Contents : TRUE
      BY MigrateConstants
    <2>2. PICK S : files = [n \in FileNames |-> IF n \in S THEN CHOOSE d \in Contents : TRUE ELSE NoFile]
      BY DEF MigrateInit
    <2> QED BY <2>1, <2>2 DEF FileContents
  <1>3. Len(executed) = 0 /\ 1..Len(executed) = {} /\ executed \in Seq(AllMigrations)
    BY <1>1
  <1>4. RunGood(Resting) /\ Resting.pc = "resting"
    BY RestingGood
  <1>5. MigRows
    BY <1>1, <1>3 DEF MigRows, OneEach
  <1>6. MigOrder
    BY <1>3 DEF MigOrder
  <1>7. \A r \in Runners : runs[r] = Resting
    BY <1>1
  <1>8. \A r \in Runners : RunGood(runs[r]) /\ RunAlone(runs[r]) /\ runs[r].pc = "resting"
    BY <1>4, <1>7 DEF RunAlone
  <1> QED BY <1>1, <1>2, <1>3, <1>5, <1>6, <1>8 DEF MigrateInv, Alone

\* What changes when one run moves and nothing else does.
LEMMA RunMoves ==
  ASSUME MigrateInv, NEW r \in Runners, NEW new, RunGood(new), runs' = [runs EXCEPT ![r] = new],
         files' = files, executed' = executed, txDDL' = txDDL, history' = history, tornDDL' = tornDDL, overlapped' \in BOOLEAN,
         overlapped' # TRUE => overlapped # TRUE,
         overlapped' # TRUE /\ new.pc # "resting" => \A s \in Runners : s # r => runs[s].pc = "resting",
         Undisturbed' => RunAlone(new)
  PROVE  MigrateInv'
  <1>1. DOMAIN runs' = Runners /\ runs'[r] = new /\ \A s \in Runners : s # r => runs'[s] = runs[s]
    BY DEF MigrateInv
  <1>2. \A s \in Runners : RunGood(runs'[s])
    BY <1>1 DEF MigrateInv
  <1>3. MigRows'
    BY DEF MigrateInv, MigRows, LastAs
  <1>4. overlapped' # TRUE => \A q, s \in Runners : runs'[q].pc # "resting" /\ runs'[s].pc # "resting" => q = s
    BY <1>1 DEF MigrateInv
  <1>5. ASSUME Undisturbed' PROVE MigOrder' /\ Alone'
    <2>1. Undisturbed
      BY <1>5 DEF Undisturbed
    <2>2. MigOrder'
      BY <2>1 DEF MigrateInv, MigOrder
    <2>3. \A s \in Runners : RunAlone(runs'[s])
      BY <1>1, <1>5, <2>1 DEF MigrateInv, Alone
    <2>4. Alone'
      BY <2>3 DEF RunAlone, Alone
    <2> QED BY <2>2, <2>4
  <1>6. files' \in [FileNames -> FileContents] /\ executed' \in Seq(AllMigrations)
        /\ {txDDL', overlapped', tornDDL'} \subseteq BOOLEAN /\ (txDDL' = TRUE => tornDDL' # TRUE)
    BY DEF MigrateInv
  <1> QED BY <1>1, <1>2, <1>3, <1>4, <1>5, <1>6 DEF MigrateInv

LEMMA MigrateEdits ==
  ASSUME MigrateInv, NEW n \in FileNames, NEW c \in FileContents, EditFiles(n, c)
  PROVE  MigrateInv'
  <1>1. files' \in [FileNames -> FileContents]
    BY DEF MigrateInv, EditFiles
  <1>2. UNCHANGED <<history, executed, txDDL, runs, overlapped, tornDDL>>
    BY DEF EditFiles
  <1> QED BY ZenonT(60), <1>1, <1>2 DEF MigrateInv, MigRows, LastAs, MigOrder, Alone, RunAlone, Undisturbed

LEMMA MigrateLoads ==
  ASSUME MigrateInv, NEW r \in Runners, NEW mode \in {"sql", "go"}, newRunnerEngine(r, mode)
  PROVE  MigrateInv'
  <1>1. PICK loaded : loaded = IF mode = "go" THEN goMigrations ELSE loadSQLMigrations
    OBVIOUS
  <1>2. /\ loaded \in SUBSET AllMigrations /\ IsFiniteSet(loaded) /\ OneEach(loaded)
        /\ mode = "go" => Repeatables(loaded) = {}
    BY <1>1, SQLLoaded, GoLoaded DEF MigrateInv
  <1>3. PICK new : new = [pc |-> "loaded", loaded |-> loaded, todo |-> <<>>, mode |-> mode]
    OBVIOUS
  <1>4. new.pc = "loaded" /\ new.loaded = loaded /\ new.todo = <<>> /\ new.mode = mode
    BY <1>3
  <1>5. <<>> \in Seq(loaded) /\ Len(<<>>) = 0 /\ 1..0 = {}
    OBVIOUS
  <1>6. RunGood(new)
    <2>1. new \in RunRecords
      BY <1>2, <1>3 DEF RunRecords
    <2> QED BY <1>2, <1>4, <1>5, <2>1 DEF RunGood
  <1>7. runs' = [runs EXCEPT ![r] = new] /\ overlapped' = (overlapped \/ Active # {})
        /\ UNCHANGED <<files, history, executed, txDDL, tornDDL>>
    BY <1>1, <1>3 DEF newRunnerEngine
  <1>8. overlapped \in BOOLEAN
    BY DEF MigrateInv
  <1>9. PICK a \in BOOLEAN : a = (Active # {})
    OBVIOUS
  <1>10. overlapped' \in BOOLEAN /\ (overlapped' # TRUE => overlapped # TRUE /\ a # TRUE)
    BY <1>7, <1>8, <1>9
  <1>11. a # TRUE => \A s \in Runners : runs[s].pc = "resting"
    BY <1>9 DEF Active
  <1>12. RunAlone(new)
    BY <1>4 DEF RunAlone
  <1> QED BY <1>6, <1>7, <1>10, <1>11, <1>12, RunMoves

\* A run comes to rest, whatever it had still to do.
LEMMA MigrateRests ==
  ASSUME MigrateInv, NEW r \in Runners, runs' = [runs EXCEPT ![r] = Resting],
         UNCHANGED <<files, history, executed, txDDL, overlapped, tornDDL>>
  PROVE  MigrateInv'
  <1>1. RunGood(Resting) /\ Resting.pc = "resting"
    BY RestingGood
  <1>2. RunAlone(Resting)
    BY <1>1 DEF RunAlone
  <1>3. overlapped \in BOOLEAN
    BY DEF MigrateInv
  <1> QED BY <1>1, <1>2, <1>3, RunMoves

\* A run fixes what it will do next: this part of what it loaded.
LEMMA MigratePlans ==
  ASSUME MigrateInv, NEW r \in Runners, NEW pc \in {"versioned", "repeatables"}, NEW S \in SUBSET runs[r].loaded,
         NEW new, new = [runs[r] EXCEPT !.pc = pc, !.todo = ByVersion(S)],
         runs[r].pc # "resting", runs' = [runs EXCEPT ![r] = new],
         pc = "versioned" => S = Unapplied(runs[r].loaded),
         pc = "repeatables" => /\ S = { x \in Repeatables(runs[r].loaded) : shouldApplyRepeatableMigration(history, x) }
                               /\ Undisturbed => \A x \in Versioned(runs[r].loaded) : IndexedRecord(history, x) # {},
         UNCHANGED <<files, history, executed, txDDL, overlapped, tornDDL>>
  PROVE  MigrateInv'
  <1>1. RunGood(runs[r])
    BY DEF MigrateInv
  <1>2. PICK L : L = runs[r].loaded
    OBVIOUS
  <1>3. /\ L \in SUBSET AllMigrations /\ IsFiniteSet(L) /\ OneEach(L) /\ runs[r].mode \in {"sql", "go"}
        /\ runs[r].mode = "go" => Repeatables(L) = {}
    BY <1>1, <1>2 DEF RunGood, RunRecords
  <1>4. IsFiniteSet(S) /\ \A x \in S : x.version \in Nat
    BY <1>2, <1>3, FS_Subset DEF AllMigrations
  <1>5. PICK q : q = ByVersion(S)
    OBVIOUS
  <1>6. q \in Seq(S) /\ MigItems(q) = S /\ \A i, j \in 1..Len(q) : q[i] = q[j] => i = j
    BY <1>4, <1>5, ByVersionSorts
  <1>7. q \in Seq(L)
    BY <1>2, <1>6
  <1>8. new.pc = pc /\ new.loaded = L /\ new.todo = q /\ new.mode = runs[r].mode
    BY <1>1, <1>2, <1>5 DEF RunGood, RunRecords
  <1>9. (pc = "versioned" => S \subseteq Versioned(L)) /\ (pc = "repeatables" => S \subseteq Repeatables(L))
    BY <1>2 DEF Unapplied
  <1>10. RunGood(new)
    <2>1. q \in Seq(AllMigrations)
      BY <1>3, <1>7
    <2>2. new \in RunRecords
      BY <1>1, <1>5, <2>1 DEF RunGood, RunRecords
    <2> QED BY <1>3, <1>6, <1>7, <1>8, <1>9, <2>2 DEF RunGood
  <1>11. Undisturbed' = Undisturbed /\ overlapped \in BOOLEAN
    BY DEF Undisturbed, MigrateInv
  <1>12. Undisturbed => RunAlone(new)
    <2>1. CASE pc = "versioned"
      <3>1. \A x \in Versioned(L) : IndexedRecord(history, x) = {} <=> x \in S
        BY <1>2, <2>1 DEF Unapplied, ListMigrations
      <3> QED BY <1>6, <1>8, <2>1, <3>1 DEF RunAlone
    <2>2. CASE pc = "repeatables"
      <3>1. \A x \in Repeatables(L) : x \in history <=> x \notin S
        BY <1>2, <2>2 DEF shouldApplyRepeatableMigration, IndexedRecord, SameMigration
      <3> QED BY <1>2, <1>6, <1>8, <2>2, <3>1 DEF RunAlone
    <2> QED BY <2>1, <2>2
  <1>13. overlapped # TRUE => \A s \in Runners : s # r => runs[s].pc = "resting"
    BY DEF MigrateInv
  <1> QED BY <1>10, <1>11, <1>12, <1>13, RunMoves

LEMMA MigrateUps == ASSUME MigrateInv, NEW r \in Runners, engineUp(r) PROVE MigrateInv'
  <1>1. runs[r].pc = "loaded" /\ UNCHANGED <<files, history, executed, txDDL, overlapped, tornDDL>>
    BY DEF engineUp
  <1>2. CASE MissingVersions(runs[r].loaded) # {} /\ ~AllowOutOfOrder
    <2>1. runs' = [runs EXCEPT ![r] = Resting]
      BY <1>2 DEF engineUp
    <2> QED BY <1>1, <2>1, MigrateRests
  <1>3. CASE ~(MissingVersions(runs[r].loaded) # {} /\ ~AllowOutOfOrder)
    <2>1. PICK S \in SUBSET runs[r].loaded : S = Unapplied(runs[r].loaded)
      BY DEF Unapplied, Versioned
    <2>2. PICK new : new = [runs[r] EXCEPT !.pc = "versioned", !.todo = ByVersion(S)]
      OBVIOUS
    <2>3. runs' = [runs EXCEPT ![r] = new]
      BY <1>3, <2>1, <2>2 DEF engineUp
    <2> QED BY <1>1, <2>1, <2>2, <2>3, MigratePlans
  <1> QED BY <1>2, <1>3

LEMMA MigrateIndexes == ASSUME MigrateInv, NEW r \in Runners, appliedIndex(r) PROVE MigrateInv'
  <1>1. runs[r].pc = "versioned" /\ runs[r].todo = <<>> /\ UNCHANGED <<files, history, executed, txDDL, overlapped, tornDDL>>
    BY DEF appliedIndex
  <1>2. PICK S \in SUBSET runs[r].loaded : S = { x \in Repeatables(runs[r].loaded) : shouldApplyRepeatableMigration(history, x) }
    BY DEF Repeatables
  <1>3. PICK new : new = [runs[r] EXCEPT !.pc = "repeatables", !.todo = ByVersion(S)]
    OBVIOUS
  <1>4. runs' = [runs EXCEPT ![r] = new]
    BY <1>2, <1>3 DEF appliedIndex, MigrateInv
  <1>5. ASSUME Undisturbed PROVE \A x \in Versioned(runs[r].loaded) : IndexedRecord(history, x) # {}
    <2>1. MigItems(runs[r].todo) = {}
      BY <1>1 DEF MigItems
    <2> QED BY <1>1, <1>5, <2>1 DEF MigrateInv, Alone, RunAlone
  <1> QED BY <1>1, <1>2, <1>3, <1>4, <1>5, MigratePlans

LEMMA MigrateReturns == ASSUME MigrateInv, NEW r \in Runners, UpReturns(r) PROVE MigrateInv'
  BY MigrateRests DEF UpReturns

LEMMA MigrateFails == ASSUME MigrateInv, NEW r \in Runners, RunFails(r) PROVE MigrateInv'
  <1>1. runs' = [runs EXCEPT ![r] = Resting] /\ UNCHANGED <<files, history, txDDL, overlapped>>
    BY DEF RunFails
  <1>2. CASE UNCHANGED <<executed, tornDDL>>
    BY <1>1, <1>2, MigrateRests
  <1>3. CASE ~txDDL /\ executed' = Append(executed, Head(runs[r].todo)) /\ tornDDL' = TRUE
    <2>1. PICK x \in AllMigrations : x = Head(runs[r].todo)
      <3>1. runs[r].todo \in Seq(AllMigrations) /\ runs[r].todo # <<>>
        BY DEF RunFails, MigrateInv, RunGood, RunRecords
      <3> QED BY <3>1
    <2>2. executed \in Seq(AllMigrations)
      BY DEF MigrateInv
    <2>3. PICK n \in Nat : n = Len(executed)
      BY <2>2
    <2>4. executed' \in Seq(AllMigrations) /\ Len(executed') = n + 1 /\ \A i \in 1..n : executed'[i] = executed[i]
      BY <1>3, <2>1, <2>2, <2>3
    <2>5. MigRows'
      <3>1. \A i \in 1..n : i \in 1..(n + 1)
        OBVIOUS
      <3>2. \A y \in history' : \E i \in 1..Len(executed') : SameMigration(executed'[i], y)
        BY <1>1, <2>3, <2>4, <3>1 DEF MigrateInv, MigRows
      <3> QED BY <1>1, <1>3, <3>2 DEF MigrateInv, MigRows
    <2>6. RunGood(Resting) /\ Resting.pc = "resting"
      BY RestingGood
    <2>7. DOMAIN runs' = Runners /\ runs'[r] = Resting /\ \A s \in Runners : s # r => runs'[s] = runs[s]
      BY <1>1 DEF MigrateInv
    <2>8. \A s \in Runners : RunGood(runs'[s])
      BY <2>6, <2>7 DEF MigrateInv
    <2>9. overlapped' # TRUE => \A q, s \in Runners : runs'[q].pc # "resting" /\ runs'[s].pc # "resting" => q = s
      BY <1>1, <2>6, <2>7 DEF MigrateInv
    <2>10. {txDDL', overlapped', tornDDL'} \subseteq BOOLEAN /\ (txDDL' = TRUE => tornDDL' # TRUE)
      <3>1. {txDDL, overlapped} \subseteq BOOLEAN /\ txDDL # TRUE
        BY <1>3 DEF MigrateInv
      <3> QED BY <1>1, <1>3, <3>1
    <2>11. ~Undisturbed'
      BY <1>3 DEF Undisturbed
    <2>12. files' \in [FileNames -> FileContents]
      BY <1>1 DEF MigrateInv
    <2> QED BY <2>4, <2>5, <2>7, <2>8, <2>9, <2>10, <2>11, <2>12 DEF MigrateInv
  <1> QED BY <1>2, <1>3 DEF RunFails

\* A migration and its row, committed together.
LEMMA MigrateApplies ==
  ASSUME MigrateInv, NEW r \in Runners, runs[r].pc \in {"versioned", "repeatables"}, runs[r].todo # <<>>,
         NEW x, x = Head(runs[r].todo), Applied(r, x)
  PROVE  MigrateInv'
  <1>1. PICK s : s = runs[r] /\ RunGood(s)
    BY DEF MigrateInv
  <1>2. PICK L, q : L = s.loaded /\ q = s.todo
    OBVIOUS
  <1>3. /\ s \in RunRecords /\ L \in SUBSET AllMigrations /\ IsFiniteSet(L) /\ OneEach(L) /\ q \in Seq(L) /\ q # <<>>
        /\ s.mode = "go" => Repeatables(L) = {}
        /\ \A i, j \in 1..Len(q) : q[i] = q[j] => i = j
        /\ s.pc = "versioned" => MigItems(q) \subseteq Versioned(L)
        /\ s.pc = "repeatables" => MigItems(q) \subseteq Repeatables(L)
        /\ s.pc \in {"versioned", "repeatables"}
    BY <1>1, <1>2 DEF RunGood, RunRecords
  <1>4. PICK m \in Nat : m = Len(q) /\ m >= 1
    BY <1>3
  <1>5. x = q[1] /\ x \in L /\ x \in AllMigrations /\ x \in MigItems(q)
    BY <1>1, <1>2, <1>3, <1>4 DEF MigItems
  <1>6. PICK t : t = Tail(q)
    OBVIOUS
  <1>7. t \in Seq(L) /\ Len(t) = m - 1 /\ \A i \in 1..(m - 1) : t[i] = q[i + 1]
    BY <1>3, <1>4, <1>6
  <1>8. \A i, j \in 1..Len(t) : t[i] = t[j] => i = j
    BY <1>3, <1>4, <1>7
  <1>9. MigItems(t) = MigItems(q) \ {x}
    <2>1. \A i \in 1..(m - 1) : i + 1 \in 1..m /\ i + 1 # 1
      OBVIOUS
    <2>2. \A i \in 1..m : i # 1 => i - 1 \in 1..(m - 1) /\ i = (i - 1) + 1
      BY <1>4
    <2>3. 1 \in 1..m
      BY <1>4
    <2>4. ASSUME NEW y \in MigItems(t) PROVE y \in MigItems(q) \ {x}
      <3>1. PICK i \in 1..(m - 1) : y = t[i]
        BY <1>7 DEF MigItems
      <3>2. y = q[i + 1] /\ i + 1 \in 1..m /\ i + 1 # 1
        BY <1>7, <2>1, <3>1
      <3>3. y # x
        BY <1>3, <1>4, <1>5, <2>3, <3>2
      <3> QED BY <1>4, <3>2, <3>3 DEF MigItems
    <2>5. ASSUME NEW y \in MigItems(q) \ {x} PROVE y \in MigItems(t)
      <3>1. PICK i \in 1..m : y = q[i]
        BY <1>4 DEF MigItems
      <3>2. i # 1
        BY <1>5, <3>1
      <3>3. PICK j \in 1..(m - 1) : i = j + 1
        BY <2>2, <3>2
      <3>4. y = t[j]
        BY <1>7, <3>1, <3>3
      <3> QED BY <1>7, <3>4 DEF MigItems
    <2> QED BY <2>4, <2>5
  <1>10. PICK new : new = [s EXCEPT !.todo = t]
    OBVIOUS
  <1>11. new.pc = s.pc /\ new.loaded = L /\ new.todo = t /\ new.mode = s.mode
    BY <1>2, <1>3, <1>10 DEF RunRecords
  <1>12. RunGood(new)
    <2>1. t \in Seq(AllMigrations)
      BY <1>3, <1>7
    <2>2. new \in RunRecords
      BY <1>3, <1>10, <2>1 DEF RunRecords
    <2> QED BY <1>3, <1>7, <1>8, <1>9, <1>11, <2>2 DEF RunGood
  <1>13. /\ history' = replaceAppliedRecord(history, x) /\ executed' = Append(executed, x)
         /\ UNCHANGED <<files, txDDL, overlapped, tornDDL>>
    BY DEF Applied
  <1>14. runs' = [runs EXCEPT ![r] = new]
    BY <1>1, <1>2, <1>6, <1>10 DEF Applied, MigrateInv
  <1>15. DOMAIN runs' = Runners /\ runs'[r] = new /\ \A u \in Runners : u # r => runs'[u] = runs[u]
    BY <1>14 DEF MigrateInv
  <1>16. \A u \in Runners : RunGood(runs'[u])
    BY <1>12, <1>15 DEF MigrateInv
  <1>17. overlapped' # TRUE => \A u, v \in Runners : runs'[u].pc # "resting" /\ runs'[v].pc # "resting" => u = v
    BY <1>1, <1>11, <1>13, <1>15 DEF MigrateInv
  <1>18. PICK n \in Nat : n = Len(executed)
    BY DEF MigrateInv
  <1>19. /\ executed' \in Seq(AllMigrations) /\ Len(executed') = n + 1 /\ executed'[n + 1] = x
         /\ \A i \in 1..n : executed'[i] = executed[i]
    BY <1>5, <1>13, <1>18 DEF MigrateInv
  <1>20. \A y : y \in history' <=> y = x \/ (y \in history /\ ~SameMigration(x, y))
    BY <1>13 DEF replaceAppliedRecord
  <1>21. \A i \in 1..(n + 1) : i \in 1..n \/ i = n + 1
    OBVIOUS
  <1>22. \A i \in 1..n : i \in 1..(n + 1) /\ i <= n + 1 /\ i # n + 1
    OBVIOUS
  <1>23. n + 1 \in 1..(n + 1)
    OBVIOUS
  <1>24. MigRows'
    <2>1. history' \in SUBSET AllMigrations
      BY <1>5, <1>20 DEF MigrateInv, MigRows
    <2>2. OneEach(history')
      BY <1>20 DEF MigrateInv, MigRows, OneEach, SameMigration
    <2>3. ASSUME NEW y \in history' PROVE \E i \in 1..Len(executed') : SameMigration(executed'[i], y)
      <3>1. CASE y = x
        BY <1>19, <1>23, <3>1 DEF SameMigration
      <3>2. CASE y \in history
        <4>1. PICK i \in 1..n : SameMigration(executed[i], y)
          BY <1>18, <3>2 DEF MigrateInv, MigRows
        <4> QED BY <1>19, <1>22, <4>1
      <3> QED BY <1>20, <3>1, <3>2
    <2>4. ASSUME tornDDL' # TRUE, NEW y \in history' PROVE LastAs(y)'
      <3>1. CASE y = x
        <4>1. executed'[n + 1] = y /\ \A j \in 1..(n + 1) : j <= n + 1
          BY <1>19, <3>1
        <4> QED BY <1>19, <1>23, <4>1 DEF LastAs
      <3>2. CASE y \in history /\ ~SameMigration(x, y)
        <4>1. PICK i \in 1..n : executed[i] = y /\ \A j \in 1..n : SameMigration(executed[j], y) => j <= i
          BY <1>13, <1>18, <2>4, <3>2 DEF MigrateInv, MigRows, LastAs
        <4>2. \A j \in 1..(n + 1) : SameMigration(executed'[j], y) => j <= i
          BY <1>19, <1>21, <3>2, <4>1
        <4>3. i \in 1..Len(executed') /\ executed'[i] = y
          BY <1>19, <1>22, <4>1
        <4> QED BY <1>19, <4>2, <4>3 DEF LastAs
      <3> QED BY <1>20, <3>1, <3>2
    <2>5. ASSUME tornDDL' # TRUE, NEW i \in 1..Len(executed') PROVE IndexedRecord(history', executed'[i]) # {}
      <3>1. CASE i = n + 1
        BY <1>19, <1>20, <3>1 DEF IndexedRecord, SameMigration
      <3>2. CASE i \in 1..n
        <4>1. PICK y \in history : SameMigration(executed[i], y)
          BY <1>13, <1>18, <2>5, <3>2 DEF MigrateInv, MigRows, IndexedRecord
        <4>2. CASE SameMigration(x, y)
          <5>1. SameMigration(executed'[i], x) /\ x \in history'
            BY <1>19, <1>20, <3>2, <4>1, <4>2 DEF SameMigration
          <5> QED BY <5>1 DEF IndexedRecord
        <4>3. CASE ~SameMigration(x, y)
          BY <1>19, <1>20, <3>2, <4>1, <4>3 DEF IndexedRecord
        <4> QED BY <4>2, <4>3
      <3> QED BY <1>19, <1>21, <3>1, <3>2
    <2> QED BY <2>1, <2>2, <2>3, <2>4, <2>5 DEF MigRows
  <1>25. ASSUME Undisturbed' PROVE MigOrder' /\ Alone'
    <2>1. overlapped # TRUE /\ tornDDL # TRUE
      BY <1>13, <1>25 DEF Undisturbed
    <2>2. MigOrder /\ RunAlone(s)
      BY <1>1, <2>1 DEF Undisturbed, MigrateInv, Alone
    <2>3. \A i \in 1..n : \E y \in history : SameMigration(executed[i], y)
      BY <1>18, <2>1 DEF MigrateInv, MigRows, IndexedRecord
    <2>4. \A y \in history : \E i \in 1..n : executed[i] = y /\ \A j \in 1..n : SameMigration(executed[j], y) => j <= i
      BY <1>18, <2>1 DEF MigrateInv, MigRows, LastAs
    <2>5. s.pc = "versioned" => x.kind # "repeatable" /\ \A y \in history : ~SameMigration(x, y)
      <3> SUFFICES ASSUME s.pc = "versioned" PROVE x.kind # "repeatable" /\ \A y \in history : ~SameMigration(x, y)
        OBVIOUS
      <3>1. x \in Versioned(L)
        BY <1>3, <1>5
      <3>2. IndexedRecord(history, x) = {}
        BY <1>2, <1>5, <2>2, <3>1 DEF RunAlone
      <3> QED BY <3>1, <3>2 DEF Versioned, IndexedRecord
    <2>6. s.pc = "repeatables" => x.kind = "repeatable" /\ x \notin history
      BY <1>2, <1>3, <1>5, <2>2 DEF RunAlone, Repeatables
    <2>7. \A i \in 1..n : SameMigration(executed[i], x) => s.pc = "repeatables" /\ x.kind = "repeatable"
      BY <1>3, <2>3, <2>5, <2>6 DEF SameMigration
    <2>8. \A i, j \in 1..Len(executed') :
            SameMigration(executed'[i], executed'[j]) /\ executed'[i].kind # "repeatable" => i = j
      <3> SUFFICES ASSUME NEW i \in 1..(n + 1), NEW j \in 1..(n + 1), SameMigration(executed'[i], executed'[j]),
                          executed'[i].kind # "repeatable"
                   PROVE  i = j
        BY <1>19
      <3>1. CASE i \in 1..n /\ j \in 1..n
        BY <1>18, <1>19, <2>2, <3>1 DEF MigOrder
      <3>2. CASE i \in 1..n /\ j = n + 1
        BY <1>19, <2>7, <3>2 DEF SameMigration
      <3>3. CASE i = n + 1 /\ j \in 1..n
        BY <1>19, <2>7, <3>3 DEF SameMigration
      <3> QED BY <1>21, <3>1, <3>2, <3>3
    <2>9. \A i, j \in 1..Len(executed') : i < j /\ executed'[i] = executed'[j] =>
            \E k \in i..j : SameMigration(executed'[k], executed'[i]) /\ executed'[k] # executed'[i]
      <3> SUFFICES ASSUME NEW i \in 1..(n + 1), NEW j \in 1..(n + 1), i < j, executed'[i] = executed'[j]
                   PROVE  \E k \in i..j : SameMigration(executed'[k], executed'[i]) /\ executed'[k] # executed'[i]
        BY <1>19
      <3>0. i \in 1..n /\ executed'[i] = executed[i]
        BY <1>19
      <3>1. CASE j \in 1..n
        <4>1. PICK k \in i..j : SameMigration(executed[k], executed[i]) /\ executed[k] # executed[i]
          BY <1>18, <1>19, <2>2, <3>0, <3>1 DEF MigOrder
        <4>2. k \in 1..n
          BY <3>0, <3>1
        <4> QED BY <1>19, <3>0, <4>1, <4>2
      <3>2. CASE j = n + 1
        <4>1. executed[i] = x
          BY <1>19, <3>0, <3>2
        <4>2. SameMigration(executed[i], x)
          BY <4>1 DEF SameMigration
        <4>3. x \notin history
          BY <2>6, <2>7, <3>0, <4>2
        <4>4. PICK y \in history : SameMigration(executed[i], y)
          BY <2>3, <3>0
        <4>5. PICK k \in 1..n : executed[k] = y /\ \A l \in 1..n : SameMigration(executed[l], y) => l <= k
          BY <2>4
        <4>6. i <= k /\ k \in i..j
          BY <3>0, <3>2, <4>4, <4>5
        <4>7. SameMigration(executed'[k], executed'[i]) /\ executed'[k] # executed'[i]
          BY <1>19, <3>0, <4>1, <4>3, <4>4, <4>5 DEF SameMigration
        <4> QED BY <4>6, <4>7
      <3> QED BY <1>21, <3>1, <3>2
    <2>10. MigOrder'
      BY <2>8, <2>9 DEF MigOrder
    <2>11. \A z \in L : z # x => ~SameMigration(x, z) /\ ~SameMigration(z, x)
      BY <1>3, <1>5 DEF OneEach, SameMigration
    <2>12. \A z \in L : z # x => (IndexedRecord(history', z) = {} <=> IndexedRecord(history, z) = {})
      BY <1>20, <2>11 DEF IndexedRecord, SameMigration
    <2>13. IndexedRecord(history', x) # {}
      BY <1>20 DEF IndexedRecord, SameMigration
    <2>14. \A z \in L : z # x => (z \in history' <=> z \in history)
      BY <1>20, <2>11
    <2>15. RunAlone(runs[r])'
      <3>1. CASE s.pc = "versioned"
        <4>1. \A z \in Versioned(L) : IndexedRecord(history', z) = {} <=> z \in MigItems(t)
          <5> SUFFICES ASSUME NEW z \in Versioned(L) PROVE IndexedRecord(history', z) = {} <=> z \in MigItems(t)
            OBVIOUS
          <5>1. z \in L /\ (IndexedRecord(history, z) = {} <=> z \in MigItems(q))
            BY <1>2, <2>2, <3>1 DEF RunAlone, Versioned
          <5>2. CASE z = x
            BY <1>9, <2>13, <5>2
          <5>3. CASE z # x
            BY <1>9, <2>12, <5>1, <5>3
          <5> QED BY <5>2, <5>3
        <4> QED BY <1>11, <1>15, <3>1, <4>1 DEF RunAlone
      <3>2. CASE s.pc = "repeatables"
        <4>1. \A z \in Versioned(L) : IndexedRecord(history', z) # {}
          <5> SUFFICES ASSUME NEW z \in Versioned(L) PROVE IndexedRecord(history', z) # {}
            OBVIOUS
          <5>1. z \in L /\ z # x /\ IndexedRecord(history, z) # {}
            BY <1>2, <2>2, <2>6, <3>2 DEF RunAlone, Versioned
          <5> QED BY <2>12, <5>1
        <4>2. \A z \in Repeatables(L) : z \in history' <=> z \notin MigItems(t)
          <5> SUFFICES ASSUME NEW z \in Repeatables(L) PROVE z \in history' <=> z \notin MigItems(t)
            OBVIOUS
          <5>1. z \in L /\ (z \in history <=> z \notin MigItems(q))
            BY <1>2, <2>2, <3>2 DEF RunAlone, Repeatables
          <5>2. CASE z = x
            BY <1>9, <1>20, <5>2
          <5>3. CASE z # x
            BY <1>9, <2>14, <5>1, <5>3
          <5> QED BY <5>2, <5>3
        <4> QED BY <1>11, <1>15, <3>2, <4>1, <4>2 DEF RunAlone
      <3> QED BY <1>3, <3>1, <3>2
    <2>16. \A u \in Runners : u # r => runs'[u].pc = "resting"
      BY <1>1, <1>3, <1>15, <2>1 DEF MigrateInv
    <2>17. Alone'
      BY <2>15, <2>16 DEF Alone, RunAlone
    <2> QED BY <2>10, <2>17
  <1>26. files' \in [FileNames -> FileContents]
        /\ {txDDL', overlapped', tornDDL'} \subseteq BOOLEAN /\ (txDDL' = TRUE => tornDDL' # TRUE)
    BY <1>13 DEF MigrateInv
  <1> QED BY <1>15, <1>16, <1>17, <1>19, <1>24, <1>25, <1>26 DEF MigrateInv

LEMMA MigrateStep == MigrateInv /\ [MigrateNext]_migrateVars => MigrateInv'
  <1> SUFFICES ASSUME MigrateInv, [MigrateNext]_migrateVars PROVE MigrateInv'  OBVIOUS
  <1>1. CASE UNCHANGED migrateVars
    BY ZenonT(60), <1>1 DEF migrateVars, MigrateInv, MigRows, LastAs, MigOrder, Alone, RunAlone, Undisturbed
  <1>2. CASE \E n \in FileNames, c \in Contents \cup {NoFile} : EditFiles(n, c)
    BY <1>2, MigrateEdits DEF FileContents
  <1>3. CASE \E r \in Runners, mode \in {"sql", "go"} : newRunnerEngine(r, mode)
    BY <1>3, MigrateLoads
  <1>4. CASE \E r \in Runners : runTxSQL(r) \/ applySQLMigration(r)
    BY <1>4, MigrateApplies DEF runTxSQL, applySQLMigration
  <1>5. CASE \E r \in Runners : engineUp(r) \/ appliedIndex(r) \/ RunFails(r) \/ UpReturns(r)
    BY <1>5, MigrateUps, MigrateIndexes, MigrateFails, MigrateReturns
  <1> QED BY <1>1, <1>2, <1>3, <1>4, <1>5 DEF MigrateNext

LEMMA LastIs == ASSUME NEW x, LastAs(x), executed \in Seq(AllMigrations) PROVE Times(x) > 0 /\ LastOf(x) = x
  <1>1. PICK i \in 1..Len(executed) : executed[i] = x /\ \A j \in 1..Len(executed) : SameMigration(executed[j], x) => j <= i
    BY DEF LastAs
  <1>2. DOMAIN executed = 1..Len(executed) /\ Len(executed) \in Nat /\ SameMigration(x, x)
    BY DEF SameMigration
  <1>3. LastOf(x) = executed[CHOOSE k \in DOMAIN executed :
          SameMigration(executed[k], x) /\ \A j \in DOMAIN executed : SameMigration(executed[j], x) => j <= k]
    BY DEF LastOf
  <1>4. \A k \in DOMAIN executed :
          (SameMigration(executed[k], x) /\ \A j \in DOMAIN executed : SameMigration(executed[j], x) => j <= k) <=> k = i
    BY <1>1, <1>2
  <1>5. (CHOOSE k \in DOMAIN executed :
          SameMigration(executed[k], x) /\ \A j \in DOMAIN executed : SameMigration(executed[j], x) => j <= k) = i
    BY <1>1, <1>2, <1>4
  <1>6. LastOf(x) = x
    BY <1>1, <1>3, <1>5
  <1>7. PICK W : W = { k \in DOMAIN executed : SameMigration(executed[k], x) }
    OBVIOUS
  <1>8. i \in W /\ IsFiniteSet(W)
    <2>1. IsFiniteSet(1..Len(executed))
      BY <1>2, FS_Interval
    <2>2. W \in SUBSET (1..Len(executed))
      BY <1>2, <1>7
    <2>3. IsFiniteSet(W)
      BY <2>1, <2>2, FS_Subset
    <2> QED BY <1>1, <1>2, <1>7, <2>3
  <1>9. Cardinality(W) \in Nat /\ Cardinality(W) # 0
    BY <1>8, FS_EmptySet, FS_CardinalityType
  <1>10. Times(x) = Cardinality(W)
    BY <1>7 DEF Times
  <1> QED BY <1>6, <1>9, <1>10

LEMMA MigrateImplies == MigrateInv => MigrationsExact
  <1> SUFFICES ASSUME MigrateInv PROVE MigrationsExact  OBVIOUS
  <1>1. executed \in Seq(AllMigrations) /\ DOMAIN executed = 1..Len(executed) /\ Len(executed) \in Nat
        /\ txDDL \in BOOLEAN /\ overlapped \in BOOLEAN /\ tornDDL \in BOOLEAN
    BY DEF MigrateInv
  <1>2. HistoryTrue
    <2>1. \A x, y \in history : SameMigration(x, y) => x = y
      BY DEF MigrateInv, MigRows, OneEach
    <2>2. ASSUME NEW x \in history PROVE Times(x) > 0 /\ (tornDDL \/ LastOf(x) = x)
      <3>1. PICK i \in 1..Len(executed) : SameMigration(executed[i], x)
        BY DEF MigrateInv, MigRows
      <3>2. PICK W : W = { k \in DOMAIN executed : SameMigration(executed[k], x) }
        OBVIOUS
      <3>3. i \in W /\ W \in SUBSET (1..Len(executed))
        BY <1>1, <3>1, <3>2
      <3>4. IsFiniteSet(W)
        <4>1. IsFiniteSet(1..Len(executed))
          BY <1>1, FS_Interval
        <4> QED BY <3>3, <4>1, FS_Subset
      <3>5. Cardinality(W) \in Nat /\ Cardinality(W) # 0
        BY <3>3, <3>4, FS_EmptySet, FS_CardinalityType
      <3>6. Times(x) > 0
        BY <3>2, <3>5 DEF Times
      <3>7. tornDDL \/ LastOf(x) = x
        <4>1. tornDDL # TRUE => LastAs(x)
          BY DEF MigrateInv, MigRows
        <4>2. CASE tornDDL = TRUE
          BY <4>2
        <4>3. CASE tornDDL = FALSE
          BY <1>1, <4>1, <4>3, LastIs
        <4> QED BY <1>1, <4>2, <4>3
      <3> QED BY <3>6, <3>7
    <2>3. ASSUME txDDL, NEW i \in DOMAIN executed PROVE IndexedRecord(history, executed[i]) # {}
      <3>1. txDDL = TRUE
        BY <1>1, <2>3
      <3> QED BY <1>1, <3>1 DEF MigrateInv, MigRows
    <2> QED BY <2>1, <2>2, <2>3 DEF HistoryTrue
  <1>3. ~overlapped /\ ~tornDDL => Undisturbed
    BY <1>1 DEF Undisturbed
  <1>4. OnceUnlessOverlapped
    <2> SUFFICES ASSUME ~overlapped, ~tornDDL, NEW i \in 1..Len(executed), executed[i].kind # "repeatable"
                 PROVE  Times(executed[i]) = 1
      BY <1>1 DEF OnceUnlessOverlapped
    <2>1. \A j \in 1..Len(executed) : SameMigration(executed[i], executed[j]) => i = j
      BY <1>3 DEF MigrateInv, MigOrder
    <2>2. { k \in DOMAIN executed : SameMigration(executed[k], executed[i]) } = {i}
      BY <1>1, <2>1 DEF SameMigration
    <2> QED BY <2>2, FS_Singleton DEF Times
  <1>5. RepeatedOnlyIfChanged
    BY <1>1, <1>3 DEF RepeatedOnlyIfChanged, MigrateInv, MigOrder
  <1>6. UpToDate
    <2> SUFFICES ASSUME NEW r \in Runners, AtEnd(r), ~overlapped, ~tornDDL
                 PROVE  /\ Unapplied(runs[r].loaded) = {}
                        /\ pendingRepeatableMigrations(runs[r].loaded) = {}
                        /\ \A x \in Repeatables(runs[r].loaded) : Times(x) > 0 /\ LastOf(x) = x
      BY DEF UpToDate
    <2>1. PICK s : s = runs[r] /\ RunGood(s) /\ RunAlone(s) /\ s.todo = <<>>
      BY <1>3 DEF MigrateInv, Alone, AtEnd
    <2>2. MigItems(s.todo) = {} /\ s \in RunRecords
      BY <2>1 DEF MigItems, RunGood
    <2>3. s.pc = "repeatables" \/ (s.pc = "versioned" /\ s.mode = "go")
      BY <2>1 DEF AtEnd
    <2>4. \A x \in Versioned(s.loaded) : IndexedRecord(history, x) # {}
      BY <2>1, <2>2, <2>3 DEF RunAlone
    <2>5. \A x \in Repeatables(s.loaded) : x \in history
      BY <2>1, <2>2, <2>3 DEF RunAlone, RunGood
    <2>6. Unapplied(s.loaded) = {}
      BY <2>4 DEF Unapplied, ListMigrations
    <2>7. pendingRepeatableMigrations(s.loaded) = {}
      BY <2>5 DEF pendingRepeatableMigrations, shouldApplyRepeatableMigration, IndexedRecord, SameMigration
    <2>8. \A x \in history : LastAs(x)
      BY <1>1 DEF MigrateInv, MigRows
    <2> QED BY <1>1, <2>1, <2>5, <2>6, <2>7, <2>8, LastIs
  <1> QED BY <1>2, <1>4, <1>5, <1>6 DEF MigrationsExact

\* The history of migrations is what was executed, and undisturbed runs execute every
\* versioned migration once and a repeatable one only when it changed, and leave nothing
\* pending: for any directory, any number of runs, failures and deaths of runs.
THEOREM MigrationsExactAlways == MigrateSpec => []MigrationsExact
  <1>1. MigrateInit => MigrateInv
    BY MigrateStarts
  <1>2. MigrateInv /\ [MigrateNext]_migrateVars => MigrateInv'
    BY MigrateStep
  <1>3. MigrateInv => MigrationsExact
    BY MigrateImplies
  <1> QED BY <1>1, <1>2, <1>3, PTL DEF MigrateSpec

-----------------------------------------------------------------------------
(* dbx/repository: optimistic locking. *)

\* Every win that nothing else disturbed is behind the version its row now has.
WinsPassed ==
  \A k \in 1..Len(wins) : wins[k][1] \notin overwritten => wins[k][1] \in DOMAIN row /\ wins[k][2] < row[wins[k][1]].ver

VersionsInv ==
  /\ wins \in Seq(Int \X Int) /\ DOMAIN row \subseteq Int
  /\ \A x \in DOMAIN row : row[x].ver \in Int
  /\ WinsPassed
  /\ \A k, l \in 1..Len(wins) : k # l /\ wins[k] = wins[l] => wins[k][1] \in overwritten

LEMMA VersionsStart == RepositoryInit => VersionsInv
  BY DEF RepositoryInit, VersionsInv, WinsPassed

\* A table in which the versions of undisturbed rows stay or grow keeps the wins.
LEMMA VersionsKept ==
  ASSUME VersionsInv, wins' = wins, overwritten \subseteq overwritten', DOMAIN row' \subseteq Int,
         \A x \in DOMAIN row' : row'[x].ver \in Int,
         \A x \in DOMAIN row : x \notin overwritten' => x \in DOMAIN row' /\ row'[x].ver = row[x].ver
  PROVE  VersionsInv'
  <1>1. WinsPassed'
    BY DEF VersionsInv, WinsPassed
  <1> QED BY <1>1 DEF VersionsInv

LEMMA VersionsPut ==
  ASSUME VersionsInv, wins' = wins, NEW x \in RowIds, NEW v, row' = Put(row, x, v, 1), overwritten' = overwritten \cup {x}
  PROVE  VersionsInv'
  <1>1. x \in Int
    BY RepositoryConstants
  <1>2. DOMAIN row' \subseteq Int
    BY <1>1 DEF VersionsInv, Put
  <1>3. \A y \in DOMAIN row' : row'[y].ver \in Int
    BY <1>1 DEF VersionsInv, Put
  <1>4. \A y \in DOMAIN row : y \notin overwritten' => y \in DOMAIN row' /\ row'[y].ver = row[y].ver
    BY DEF Put
  <1> QED BY <1>2, <1>3, <1>4, VersionsKept

LEMMA VersionsDrop ==
  ASSUME VersionsInv, wins' = wins, NEW x, row' = Drop(row, x), overwritten' = overwritten \cup {x}
  PROVE  VersionsInv'
  <1>1. DOMAIN row' = DOMAIN row \ {x} /\ \A y \in DOMAIN row \ {x} : row'[y] = row[y]
    BY DEF Drop
  <1> QED BY <1>1, VersionsKept DEF VersionsInv

LEMMA VersionsSame ==
  ASSUME VersionsInv, UNCHANGED <<row, wins, overwritten>>
  PROVE  VersionsInv'
  BY DEF VersionsInv, WinsPassed

LEMMA VersionsUpsert ==
  ASSUME VersionsInv, NEW c, NEW id \in RowIds, NEW val, Upsert(c, id, val)
  PROVE  VersionsInv'
  BY VersionsPut DEF Upsert

LEMMA VersionsCreateMany ==
  ASSUME VersionsInv, NEW c, NEW ids, NEW val, CreateMany(c, ids, val)
  PROVE  VersionsInv'
  <1> DEFINE new == { ids[j] : j \in DOMAIN ids }
  <1>1. row' = [i \in DOMAIN row \cup new |-> IF i \in DOMAIN row THEN row[i] ELSE [val |-> val, ver |-> 1]]
    BY DEF CreateMany
  <1>2. wins' = wins /\ overwritten' = overwritten \cup new /\ new \subseteq RowIds
    BY DEF CreateMany, FreeIds
  <1> HIDE DEF new
  <1>3. DOMAIN row' = DOMAIN row \cup new /\ new \subseteq Int
    BY <1>1, <1>2, RepositoryConstants
  <1>4. \A y \in DOMAIN row : row'[y] = row[y]
    BY <1>1
  <1>5. \A y \in DOMAIN row' : row'[y].ver \in Int
    BY <1>1, <1>3 DEF VersionsInv
  <1> QED BY <1>2, <1>3, <1>4, <1>5, VersionsKept DEF VersionsInv

LEMMA VersionsInTx ==
  ASSUME VersionsInv, NEW c, NEW id \in RowIds, NEW other \in RowIds, NEW val, NEW fails, InTx(c, id, other, val, fails)
  PROVE  VersionsInv'
  <1>1. CASE fails
    BY <1>1, VersionsSame DEF InTx
  <1>2. CASE ~fails
    <2>1. row' = Put(Put(row, id, val, 1), other, val, 1) /\ overwritten' = overwritten \cup {id, other} /\ wins' = wins
      BY <1>2 DEF InTx
    <2>2. PICK half : half = Put(row, id, val, 1)
      OBVIOUS
    <2>3. row' = Put(half, other, val, 1)
      BY <2>1, <2>2
    <2>4. id \in Int /\ other \in Int
      BY RepositoryConstants
    <2>5. DOMAIN half = DOMAIN row \cup {id} /\ half[id].ver = 1 /\ \A y \in DOMAIN row : y # id => half[y] = row[y]
      BY <2>2 DEF Put
    <2>6. DOMAIN row' = DOMAIN half \cup {other} /\ row'[other].ver = 1 /\ \A y \in DOMAIN half : y # other => row'[y] = half[y]
      BY <2>3 DEF Put
    <2>7. DOMAIN row' \subseteq Int /\ \A y \in DOMAIN row' : row'[y].ver \in Int
      BY <2>4, <2>5, <2>6 DEF VersionsInv
    <2> QED BY <2>1, <2>5, <2>6, <2>7, VersionsKept
  <1> QED BY <1>1, <1>2

\* Who still finds the version it read is ahead of every earlier win of that row.
LEMMA VersionsUpdate ==
  ASSUME VersionsInv, NEW c, NEW val, UpdateByVersion(c, val)
  PROVE  VersionsInv'
  <1>1. PICK id : id = client[c].readId
    OBVIOUS
  <1>2. PICK ver : ver = client[c].read
    OBVIOUS
  <1>3. CASE id \in DOMAIN row /\ row[id].ver = ver
    <2>1. row' = Put(row, id, val, ver + 1) /\ wins' = Append(wins, <<id, ver>>) /\ overwritten' = overwritten
      BY <1>1, <1>2, <1>3 DEF UpdateByVersion
    <2>2. id \in Int /\ ver \in Int
      BY <1>3 DEF VersionsInv
    <2>3. DOMAIN row' = DOMAIN row /\ row'[id].ver = ver + 1 /\ \A y \in DOMAIN row : y # id => row'[y] = row[y]
      BY <1>3, <2>1 DEF Put
    <2>4. /\ wins' \in Seq(Int \X Int) /\ Len(wins') = Len(wins) + 1 /\ wins'[Len(wins) + 1] = <<id, ver>>
          /\ \A k \in 1..Len(wins) : wins'[k] = wins[k]
      BY <2>1, <2>2 DEF VersionsInv
    <2>5. \A k \in 1..Len(wins) : wins[k] \in Int \X Int
      BY DEF VersionsInv
    <2>6. WinsPassed'
      BY SMTT(40), <1>3, <2>1, <2>2, <2>3, <2>4, <2>5 DEF VersionsInv, WinsPassed
    <2>7. \A k \in 1..Len(wins) : wins[k] = <<id, ver>> => id \in overwritten
      BY <1>3, <2>2 DEF VersionsInv, WinsPassed
    <2>8. \A k, l \in 1..Len(wins') : k # l /\ wins'[k] = wins'[l] => wins'[k][1] \in overwritten'
      <3> SUFFICES ASSUME NEW k \in 1..Len(wins'), NEW l \in 1..Len(wins'), k # l, wins'[k] = wins'[l]
                   PROVE  wins'[k][1] \in overwritten'
        OBVIOUS
      <3>1. Len(wins) \in Nat
        BY DEF VersionsInv
      <3>2. CASE k \in 1..Len(wins) /\ l \in 1..Len(wins)
        BY <2>1, <2>4, <3>2 DEF VersionsInv
      <3>3. CASE k = Len(wins) + 1 \/ l = Len(wins) + 1
        <4>1. wins'[k] = <<id, ver>>
          BY <2>4, <3>3
        <4>2. id \in overwritten
          <5>1. k \in 1..(Len(wins) + 1) /\ l \in 1..(Len(wins) + 1)
            BY <2>4
          <5>2. PICK o \in 1..Len(wins) : (o = k \/ o = l)
            BY <3>1, <3>3, <5>1
          <5>3. wins[o] = <<id, ver>>
            BY <2>4, <4>1, <5>2
          <5> QED BY <2>7, <5>3
        <4> QED BY <2>1, <4>1, <4>2
      <3> QED BY <2>4, <3>1, <3>2, <3>3
    <2>9. DOMAIN row' \subseteq Int /\ \A y \in DOMAIN row' : row'[y].ver \in Int
      BY <2>2, <2>3 DEF VersionsInv
    <2> QED BY <2>4, <2>6, <2>8, <2>9 DEF VersionsInv
  <1>4. CASE ~(id \in DOMAIN row /\ row[id].ver = ver)
    BY <1>1, <1>2, <1>4, VersionsSame DEF UpdateByVersion
  <1> QED BY <1>3, <1>4

LEMMA VersionsSaveCreates ==
  ASSUME VersionsInv, NEW c, NEW id \in RowIds, NEW fails, SaveCreates(c, id, fails)
  PROVE  VersionsInv'
  <1>1. CASE fails
    BY <1>1, VersionsSame DEF SaveCreates
  <1>2. CASE ~fails
    BY <1>2, VersionsPut DEF SaveCreates
  <1> QED BY <1>1, <1>2

LEMMA VersionsSaveUpdates ==
  ASSUME VersionsInv, NEW c, SaveUpdates(c)
  PROVE  VersionsInv'
  <1>1. PICK key : key = ModelKey(client[c].model)
    OBVIOUS
  <1>2. CASE key \in DOMAIN row
    <2>1. row' = Put(row, key, client[c].model.val, row[key].ver) /\ UNCHANGED <<wins, overwritten>>
      BY <1>1, <1>2 DEF SaveUpdates
    <2>2. DOMAIN row' = DOMAIN row /\ \A y \in DOMAIN row : row'[y].ver = row[y].ver
      BY <1>2, <2>1 DEF Put
    <2> QED BY <2>1, <2>2, VersionsKept DEF VersionsInv
  <1>3. CASE key \notin DOMAIN row
    BY <1>1, <1>3, VersionsSame DEF SaveUpdates
  <1> QED BY <1>2, <1>3

LEMMA VersionsStep == VersionsInv /\ [RepositoryNext]_repositoryVars => VersionsInv'
  <1> SUFFICES ASSUME VersionsInv, [RepositoryNext]_repositoryVars PROVE VersionsInv'
    OBVIOUS
  <1>1. CASE UNCHANGED repositoryVars
    BY <1>1, VersionsSame DEF repositoryVars
  <1>2. CASE RepositoryNext
    <2>1. PICK c \in RepoClients :
            \/ \E id \in RowIds, val \in RowValues : Upsert(c, id, val) \/ CreateMany(c, <<id>>, val)
            \/ \E id, other \in RowIds : CreateMany(c, <<id, other>>, 1) \/ InTx(c, id, other, 1, TRUE) \/ InTx(c, id, other, 1, FALSE)
            \/ \E id \in RowIds : DeleteByID(c, id) \/ GetByID(c, id) \/ FindByID(c, id)
                                  \/ SaveCreates(c, id, TRUE) \/ SaveCreates(c, id, FALSE)
            \/ Wrap(c, 2) \/ EditEntity(c, 1) \/ UpdateByVersion(c, 1)
            \/ \E page \in {0, 2}, size \in {0, 1} : PageCount(c, page, size)
            \/ PageList(c) \/ SaveUpdates(c) \/ Reload(c) \/ ModelDelete(c)
      BY <1>2 DEF RepositoryNext
    <2>2. ASSUME NEW id \in RowIds, DeleteByID(c, id) PROVE VersionsInv'
      BY <2>2, VersionsDrop DEF DeleteByID
    <2>3. ASSUME ModelDelete(c) PROVE VersionsInv'
      BY <2>3, VersionsDrop DEF ModelDelete
    <2>4. ASSUME NEW id \in RowIds, GetByID(c, id) \/ FindByID(c, id) PROVE VersionsInv'
      BY <2>4, VersionsSame DEF GetByID, FindByID
    <2>5. ASSUME Wrap(c, 2) \/ EditEntity(c, 1) \/ PageList(c) \/ Reload(c) PROVE VersionsInv'
      BY <2>5, VersionsSame DEF Wrap, EditEntity, PageList, Reload
    <2>6. ASSUME NEW page, NEW size, PageCount(c, page, size) PROVE VersionsInv'
      BY <2>6, VersionsSame DEF PageCount
    <2> QED
      BY <2>1, <2>2, <2>3, <2>4, <2>5, <2>6, VersionsUpsert, VersionsCreateMany, VersionsInTx, VersionsUpdate,
         VersionsSaveCreates, VersionsSaveUpdates
  <1> QED BY <1>1, <1>2

LEMMA VersionsImplies == VersionsInv => VersionsExclusive
  BY SMTT(40) DEF VersionsInv, VersionsExclusive

\* No lost update, for any number of clients, rows and calls: of those who read one version
\* of a row one succeeds, unless something else wrote the row's version in between.
THEOREM VersionsExclusiveAlways == RepositorySpec => []VersionsExclusive
  BY VersionsStart, VersionsStep, VersionsImplies, PTL DEF RepositorySpec

-----------------------------------------------------------------------------
(* dbx/activerecord: models and their rows. *)

\* A model that has not been asked for its key has saved nothing; one with a key has
\* saved its row and, if ids are generated, no other.
ModelGood(m, strategy) ==
  /\ {"entity", "key", "known", "saved", "lost"} \subseteq DOMAIN m /\ m.entity \in Nat /\ m.key \in Nat
  /\ m.known # TRUE => m.entity = 0 /\ m.key = 0 /\ m.saved = {}
  /\ m.key # 0 => m.saved # {}
  /\ strategy = "snowflake" => m.saved = {} \/ (m.saved = {m.key} /\ m.key = m.entity /\ m.key # 0)
  /\ strategy # "snowflake" => m.entity = m.key
ClientGood(s, strategy) == {"model", "page", "read", "readId"} \subseteq DOMAIN s /\ ModelGood(s.model, strategy)

ModelsInv ==
  /\ DOMAIN row \subseteq Nat \ {0} /\ DOMAIN client = RepoClients
  /\ \A c \in RepoClients : ClientGood(client[c], idStrategy)

LEMMA NewModelGood ==
  ASSUME NEW strategy, NEW v
  PROVE  ModelGood(NoModel, strategy) /\ ModelGood([NoModel EXCEPT !.val = v], strategy)
  BY DEF ModelGood, NoModel

LEMMA ModelsStart == RepositoryInit => ModelsInv
  <1> SUFFICES ASSUME RepositoryInit PROVE ModelsInv
    OBVIOUS
  <1>1. ModelGood(NoModel, idStrategy)
    BY NewModelGood
  <1>2. DOMAIN row = {1, 2} /\ DOMAIN client = RepoClients
    BY DEF RepositoryInit
  <1>3. \A c \in RepoClients : ClientGood(client[c], idStrategy)
    BY <1>1 DEF RepositoryInit, ClientGood
  <1> QED BY <1>2, <1>3 DEF ModelsInv

\* One client goes on with another state.
LEMMA ModelsTurn ==
  ASSUME ModelsInv, NEW c \in RepoClients, idStrategy' = idStrategy, DOMAIN row' \subseteq Nat \ {0},
         DOMAIN client' = RepoClients, \A d \in RepoClients \ {c} : client'[d] = client[d], ClientGood(client'[c], idStrategy)
  PROVE  ModelsInv'
  <1>1. \A d \in RepoClients : ClientGood(client'[d], idStrategy)
    BY DEF ModelsInv
  <1>2. (\A d \in RepoClients : ClientGood(client[d], idStrategy))'
    BY <1>1
  <1> QED BY <1>2 DEF ModelsInv

\* A write may cost other models their row; it changes nothing else of them.
LEMMA ModelsWrote ==
  ASSUME ModelsInv, NEW c \in RepoClients, NEW state, ClientGood(state, idStrategy), NEW gone, Wrote(c, state, gone),
         idStrategy' = idStrategy, DOMAIN row' \subseteq Nat \ {0}
  PROVE  ModelsInv'
  <1>1. \A d \in RepoClients : ClientGood(client'[d], idStrategy)
    <2> TAKE d \in RepoClients
    <2>1. PICK own : own = (IF d = c THEN state ELSE client[d]) /\ ClientGood(own, idStrategy)
      BY DEF ModelsInv
    <2>2. client'[d] = [own EXCEPT !.page.moved = own.page.moved \/ (row' # row), !.model.lost = own.model.lost \/ own.model.key \in gone]
      BY <2>1 DEF Wrote, ClientGood
    <2>3. PICK l : client'[d].model = [own.model EXCEPT !.lost = l] /\ {"model", "page", "read", "readId"} \subseteq DOMAIN client'[d]
      BY ZenonT(60), <2>1, <2>2 DEF ClientGood
    <2>4. ModelGood(client'[d].model, idStrategy)
      BY <2>1, <2>3 DEF ClientGood, ModelGood
    <2> QED BY <2>3, <2>4 DEF ClientGood
  <1>2. DOMAIN client' = RepoClients
    BY DEF Wrote
  <1>3. (\A d \in RepoClients : ClientGood(client[d], idStrategy))'
    BY <1>1
  <1> QED BY <1>2, <1>3 DEF ModelsInv

\* Writes that leave the writer's own model alone.
LEMMA ModelsStatement ==
  ASSUME ModelsInv, NEW c \in RepoClients, NEW gone, Wrote(c, client[c], gone),
         idStrategy' = idStrategy, DOMAIN row' \subseteq Nat \ {0}
  PROVE  ModelsInv'
  <1>1. ClientGood(client[c], idStrategy)
    BY DEF ModelsInv
  <1> QED BY <1>1, ModelsWrote

LEMMA ModelsStatements ==
  ASSUME ModelsInv, NEW c \in RepoClients
  PROVE  /\ \A id \in RowIds : \A val : Upsert(c, id, val) => ModelsInv'
         /\ \A ids, val : CreateMany(c, ids, val) => ModelsInv'
         /\ \A id, other \in RowIds : \A val, fails : InTx(c, id, other, val, fails) => ModelsInv'
         /\ \A id \in RowIds : DeleteByID(c, id) => ModelsInv'
         /\ \A val : UpdateByVersion(c, val) => ModelsInv'
  <1>0. DOMAIN row \subseteq Nat \ {0} /\ RowIds \subseteq Nat \ {0} /\ ClientGood(client[c], idStrategy)
    BY RepositoryConstants DEF ModelsInv
  <1>1. ASSUME NEW id \in RowIds, NEW val, Upsert(c, id, val) PROVE ModelsInv'
    <2>1. DOMAIN row' \subseteq Nat \ {0} /\ idStrategy' = idStrategy /\ Wrote(c, client[c], {})
      BY <1>0, <1>1 DEF Upsert, Put
    <2> QED BY <2>1, ModelsStatement
  <1>2. ASSUME NEW ids, NEW val, CreateMany(c, ids, val) PROVE ModelsInv'
    <2>1. \A i \in DOMAIN ids : ids[i] \in RowIds
      BY <1>2 DEF CreateMany, FreeIds
    <2>2. DOMAIN row' = DOMAIN row \cup { ids[j] : j \in DOMAIN ids } /\ idStrategy' = idStrategy /\ Wrote(c, client[c], {})
      BY <1>2 DEF CreateMany
    <2>3. DOMAIN row' \subseteq Nat \ {0}
      BY <1>0, <2>1, <2>2
    <2> QED BY <2>2, <2>3, ModelsStatement
  <1>3. ASSUME NEW id \in RowIds, NEW other \in RowIds, NEW val, NEW fails, InTx(c, id, other, val, fails) PROVE ModelsInv'
    <2>1. DOMAIN row' \subseteq Nat \ {0} /\ idStrategy' = idStrategy /\ Wrote(c, client[c], {})
      BY <1>0, <1>3 DEF InTx, Put
    <2> QED BY <2>1, ModelsStatement
  <1>4. ASSUME NEW id \in RowIds, DeleteByID(c, id) PROVE ModelsInv'
    <2>1. DOMAIN row' \subseteq Nat \ {0} /\ idStrategy' = idStrategy /\ Wrote(c, client[c], {id} \cap DOMAIN row)
      BY <1>0, <1>4 DEF DeleteByID, Drop
    <2> QED BY <2>1, ModelsStatement
  <1>5. ASSUME NEW val, UpdateByVersion(c, val) PROVE ModelsInv'
    <2>1. DOMAIN row' \subseteq Nat \ {0} /\ idStrategy' = idStrategy /\ Wrote(c, [client[c] EXCEPT !.readId = 0], {})
      BY <1>0, <1>5 DEF UpdateByVersion, Put
    <2>2. ClientGood([client[c] EXCEPT !.readId = 0], idStrategy)
      BY <1>0 DEF ClientGood
    <2> QED BY <2>1, <2>2, ModelsWrote
  <1> QED BY <1>1, <1>2, <1>3, <1>4, <1>5

\* A first save, or the save after a failed one, with the id that was generated then.
LEMMA ModelsSaveCreates ==
  ASSUME ModelsInv, NEW c \in RepoClients, NEW id \in RowIds, NEW fails \in BOOLEAN, SaveCreates(c, id, fails)
  PROVE  ModelsInv'
  <1>1. PICK m : m = client[c].model /\ ModelGood(m, idStrategy) /\ ClientGood(client[c], idStrategy)
    BY DEF ModelsInv, ClientGood
  <1>2. m.key = 0 /\ (m.known # TRUE => m.entity = 0) /\ (idStrategy = "snowflake" => m.saved = {})
    BY <1>1 DEF SaveCreates, ModelKey, ModelGood
  <1>3. id \in Nat /\ id # 0 /\ DOMAIN row \subseteq Nat \ {0}
    BY RepositoryConstants DEF ModelsInv
  <1>4. PICK filled : filled = (IF idStrategy = "snowflake" /\ m.entity = 0 THEN [m EXCEPT !.entity = id] ELSE m)
    OBVIOUS
  <1>5. idStrategy = "snowflake" /\ m.entity # 0 => id = m.entity
    BY <1>1 DEF SaveCreates
  <1>6. /\ {"entity", "key", "known", "saved", "lost"} \subseteq DOMAIN filled
        /\ filled.saved = m.saved /\ filled.entity \in Nat
        /\ idStrategy = "snowflake" => filled.entity = id
        /\ idStrategy # "snowflake" => filled.entity = 0
    BY <1>1, <1>2, <1>3, <1>4, <1>5 DEF ModelGood
  <1>7. PICK k : k = (IF fails THEN 0 ELSE filled.entity)
    OBVIOUS
  <1>8. createdKey(filled, id, fails) = [filled EXCEPT !.key = k, !.known = TRUE]
    BY <1>7 DEF createdKey
  <1>9. PICK saved : saved = (IF fails THEN m.saved ELSE m.saved \cup {id})
    OBVIOUS
  <1>10. PICK new : new = [[filled EXCEPT !.key = k, !.known = TRUE] EXCEPT !.saved = saved]
    OBVIOUS
  <1>11. {"entity", "key", "known", "saved", "lost"} \subseteq DOMAIN new /\ new.entity = filled.entity /\ new.key = k /\ new.known = TRUE /\ new.saved = saved
    BY <1>6, <1>10
  <1>12. ModelGood(new, idStrategy)
    <2>1. CASE fails = TRUE
      <3>1. new.key = 0 /\ new.saved = m.saved
        BY <1>7, <1>9, <1>11, <2>1
      <3>2. new.entity \in Nat /\ new.key \in Nat /\ (idStrategy # "snowflake" => new.entity = new.key)
        BY <1>6, <1>11, <3>1
      <3>3. idStrategy = "snowflake" => new.saved = {}
        BY <1>2, <3>1
      <3> QED BY <1>11, <3>1, <3>2, <3>3 DEF ModelGood
    <2>2. CASE fails = FALSE
      <3>1. new.key = new.entity /\ new.entity \in Nat /\ new.saved = m.saved \cup {id}
        BY <1>6, <1>7, <1>9, <1>11, <2>2
      <3>2. idStrategy = "snowflake" => new.saved = {id} /\ new.entity = id
        BY <1>2, <1>6, <1>11, <3>1
      <3> QED BY <1>3, <1>11, <3>1, <3>2 DEF ModelGood
    <2> QED BY <2>1, <2>2
  <1>13. Wrote(c, [client[c] EXCEPT !.model = new], {}) /\ idStrategy' = idStrategy
    BY <1>1, <1>4, <1>6, <1>8, <1>9, <1>10 DEF SaveCreates
  <1>14. ClientGood([client[c] EXCEPT !.model = new], idStrategy)
    BY <1>1, <1>12 DEF ClientGood
  <1>15. DOMAIN row' \subseteq Nat \ {0}
    BY <1>3 DEF SaveCreates, Put
  <1> QED BY <1>13, <1>14, <1>15, ModelsWrote

\* Saves and deletes by a key remember it.
LEMMA ModelKeyed ==
  ASSUME ModelsInv, NEW c \in RepoClients, NEW key, key = ModelKey(client[c].model), key # 0
  PROVE  ClientGood([client[c] EXCEPT !.model.known = TRUE, !.model.key = key], idStrategy)
  <1>1. PICK m : m = client[c].model /\ ModelGood(m, idStrategy) /\ ClientGood(client[c], idStrategy)
    BY DEF ModelsInv, ClientGood
  <1>2. m.known = TRUE /\ key = m.key
    BY <1>1 DEF ModelKey, ModelGood
  <1>3. PICK s : s = [client[c] EXCEPT !.model.known = TRUE, !.model.key = key]
    OBVIOUS
  <1>4. s.model = [m EXCEPT !.known = TRUE, !.key = m.key] /\ {"model", "page", "read", "readId"} \subseteq DOMAIN s
    BY <1>1, <1>2, <1>3 DEF ClientGood
  <1>5. ModelGood(s.model, idStrategy)
    BY <1>1, <1>2, <1>4 DEF ModelGood
  <1> QED BY <1>3, <1>4, <1>5 DEF ClientGood

LEMMA ModelsStep == ModelsInv /\ [RepositoryNext]_repositoryVars => ModelsInv'
  <1> SUFFICES ASSUME ModelsInv, [RepositoryNext]_repositoryVars PROVE ModelsInv'
    OBVIOUS
  <1>0. DOMAIN row \subseteq Nat \ {0} /\ DOMAIN client = RepoClients /\ \A c \in RepoClients : ClientGood(client[c], idStrategy)
    BY DEF ModelsInv
  <1>1. CASE UNCHANGED repositoryVars
    BY <1>1 DEF repositoryVars, ModelsInv, ClientGood, ModelGood
  <1>2. ASSUME NEW c \in RepoClients, NEW id \in RowIds, GetByID(c, id) PROVE ModelsInv'
    <2>1. ClientGood(client'[c], idStrategy)
      BY <1>0, <1>2 DEF GetByID, ClientGood
    <2> QED BY <1>0, <1>2, <2>1, ModelsTurn DEF GetByID
  <1>3. ASSUME NEW c \in RepoClients, NEW id \in RowIds, FindByID(c, id) PROVE ModelsInv'
    <2>1. PICK new : new = [NoModel EXCEPT !.entity = id, !.val = row[id].val, !.key = id, !.known = TRUE, !.saved = {id}]
      OBVIOUS
    <2>2. id \in Nat /\ id # 0
      BY RepositoryConstants
    <2>3. ModelGood(new, idStrategy)
      BY <2>1, <2>2 DEF ModelGood, NoModel
    <2>4. client' = [client EXCEPT ![c].model = new]
      BY <1>3, <2>1 DEF FindByID
    <2>5. ClientGood(client'[c], idStrategy)
      BY <1>0, <2>3, <2>4 DEF ClientGood
    <2> QED BY <1>0, <1>3, <2>4, <2>5, ModelsTurn DEF FindByID
  <1>4. ASSUME NEW c \in RepoClients, Wrap(c, 2) PROVE ModelsInv'
    <2>1. client' = [client EXCEPT ![c].model = [NoModel EXCEPT !.val = 2]]
      BY <1>4 DEF Wrap
    <2>2. ClientGood(client'[c], idStrategy)
      BY <1>0, <2>1, NewModelGood DEF ClientGood
    <2> QED BY <1>0, <1>4, <2>1, <2>2, ModelsTurn DEF Wrap
  <1>5. ASSUME NEW c \in RepoClients, EditEntity(c, 1) PROVE ModelsInv'
    <2>1. client' = [client EXCEPT ![c].model.val = 1]
      BY <1>5 DEF EditEntity
    <2>2. client'[c].model = [client[c].model EXCEPT !.val = 1] /\ {"model", "page", "read", "readId"} \subseteq DOMAIN client'[c]
      BY <1>0, <2>1 DEF ClientGood
    <2>3. ModelGood(client'[c].model, idStrategy)
      BY <1>0, <2>2 DEF ClientGood, ModelGood
    <2>4. ClientGood(client'[c], idStrategy)
      BY <2>2, <2>3 DEF ClientGood
    <2> QED BY <1>0, <1>5, <2>1, <2>4, ModelsTurn DEF EditEntity
  <1>6. ASSUME NEW c \in RepoClients, NEW page, NEW size, PageCount(c, page, size) PROVE ModelsInv'
    <2>1. PICK p : client' = [client EXCEPT ![c].page = p]
      BY <1>6 DEF PageCount
    <2>2. ClientGood(client'[c], idStrategy)
      BY <1>0, <2>1 DEF ClientGood
    <2> QED BY <1>0, <1>6, <2>1, <2>2, ModelsTurn DEF PageCount
  <1>7. ASSUME NEW c \in RepoClients, PageList(c) PROVE ModelsInv'
    <2>1. PICK items : client' = [client EXCEPT ![c].page.pc = "none", ![c].page.items = items]
      BY <1>7 DEF PageList
    <2>2. ClientGood(client'[c], idStrategy)
      BY <1>0, <2>1 DEF ClientGood
    <2> QED BY <1>0, <1>7, <2>1, <2>2, ModelsTurn DEF PageList
  <1>8. ASSUME NEW c \in RepoClients, SaveUpdates(c) PROVE ModelsInv'
    <2>1. PICK key : key = ModelKey(client[c].model) /\ key # 0
      BY <1>8 DEF SaveUpdates
    <2>2. Wrote(c, [client[c] EXCEPT !.model.known = TRUE, !.model.key = key], {}) /\ idStrategy' = idStrategy
      BY <1>8, <2>1 DEF SaveUpdates
    <2>3. DOMAIN row' \subseteq Nat \ {0}
      BY <1>0, <1>8 DEF SaveUpdates, Put
    <2> QED BY <2>1, <2>2, <2>3, ModelKeyed, ModelsWrote
  <1>9. ASSUME NEW c \in RepoClients, ModelDelete(c) PROVE ModelsInv'
    <2>1. PICK key : key = ModelKey(client[c].model) /\ key # 0
      BY <1>9 DEF ModelDelete
    <2>2. Wrote(c, [client[c] EXCEPT !.model.known = TRUE, !.model.key = key], {key} \cap DOMAIN row) /\ idStrategy' = idStrategy
      BY <1>9, <2>1 DEF ModelDelete
    <2>3. DOMAIN row' \subseteq Nat \ {0}
      BY <1>0, <1>9 DEF ModelDelete, Drop
    <2> QED BY <2>1, <2>2, <2>3, ModelKeyed, ModelsWrote
  <1>10. ASSUME NEW c \in RepoClients, Reload(c) PROVE ModelsInv'
    <2>1. PICK m : m = client[c].model /\ ModelGood(m, idStrategy)
      BY <1>0 DEF ClientGood
    <2>2. m.known = TRUE /\ ModelKey(m) = m.key /\ m.key # 0
      BY <1>0, <1>10, <2>1 DEF Reload, ModelKey, ModelGood
    <2>3. PICK v : client' = [client EXCEPT ![c].model.entity = m.key, ![c].model.val = v, ![c].model.key = m.key, ![c].model.known = TRUE]
      BY <1>10, <2>1, <2>2 DEF Reload
    <2>4. client'[c].model = [m EXCEPT !.entity = m.key, !.val = v, !.key = m.key, !.known = TRUE] /\ {"model", "page", "read", "readId"} \subseteq DOMAIN client'[c]
      BY <1>0, <2>1, <2>3 DEF ClientGood
    <2>5. ModelGood(client'[c].model, idStrategy)
      BY <2>1, <2>2, <2>4 DEF ModelGood
    <2>6. ClientGood(client'[c], idStrategy)
      BY <2>4, <2>5 DEF ClientGood
    <2> QED BY <1>0, <1>10, <2>3, <2>6, ModelsTurn DEF Reload
  <1>11. ASSUME NEW c \in RepoClients, NEW id \in RowIds, SaveCreates(c, id, TRUE) \/ SaveCreates(c, id, FALSE) PROVE ModelsInv'
    BY <1>11, ModelsSaveCreates
  <1> QED BY <1>1, <1>2, <1>3, <1>4, <1>5, <1>6, <1>7, <1>8, <1>9, <1>10, <1>11, ModelsStatements DEF RepositoryNext

LEMMA ModelsImplies == ModelsInv => OneRowPerModel
  <1> SUFFICES ASSUME ModelsInv, NEW c \in RepoClients, NEW m, m = client[c].model
               PROVE  /\ idStrategy = "snowflake" => Cardinality(m.saved) <= 1
                      /\ m.saved # {} /\ idStrategy = "snowflake" /\ ~m.lost => m.saved = {m.key} /\ m.key = m.entity
                      /\ m.key # 0 /\ m.known /\ m.saved = {} => FALSE
    BY DEF OneRowPerModel
  <1>1. ModelGood(m, idStrategy)
    BY DEF ModelsInv, ClientGood
  <1>2. ASSUME idStrategy = "snowflake" PROVE Cardinality(m.saved) <= 1
    <2>1. CASE m.saved = {}
      BY <2>1, FS_EmptySet
    <2>2. CASE m.saved = {m.key}
      <3>1. Cardinality({m.key}) = 1
        BY FS_Singleton
      <3> QED BY <2>2, <3>1
    <2> QED BY <1>1, <1>2, <2>1, <2>2 DEF ModelGood
  <1> QED BY <1>1, <1>2 DEF ModelGood

\* Whatever saves fail and whatever others write, a model whose ids are generated has one
\* row, and a model with a key has saved it: for any number of clients and calls.
THEOREM OneRowPerModelAlways == RepositorySpec => []OneRowPerModel
  BY ModelsStart, ModelsStep, ModelsImplies, PTL DEF RepositorySpec

-----------------------------------------------------------------------------
(* dbx/dialect: catalog queries through a pool. *)

InspectionGood(s) ==
  /\ {"pc", "rows"} \subseteq DOMAIN s
  /\ s.pc \in {"idle", "query", "rows", "nested", "done", "failed"}
  /\ engine # "sqlite" => s.rows = <<>>

\* Callers with rows open, and those with rows of an index open besides.
WithRows == { i \in Inspectors : inspection[i].pc \in {"rows", "nested"} }
WithNested == { i \in Inspectors : inspection[i].pc = "nested" }

HeldIn(s) == IF s.pc = "rows" THEN 1 ELSE IF s.pc = "nested" THEN 2 ELSE 0

InspectInv ==
  /\ DOMAIN inspection = Inspectors /\ \A i \in Inspectors : InspectionGood(inspection[i])
  /\ connections \in Nat /\ connections > 0 /\ freeConnections \in Int
  /\ freeConnections = connections - Cardinality(WithRows) - Cardinality(WithNested)

LEMMA InspectStarts == InspectInit => InspectInv
  <1> SUFFICES ASSUME InspectInit PROVE InspectInv  OBVIOUS
  <1>1. InspectionGood(NotInspecting) /\ NotInspecting.pc = "idle"
    BY DEF InspectionGood, NotInspecting
  <1>2. DOMAIN inspection = Inspectors /\ \A i \in Inspectors : inspection[i] = NotInspecting
    BY DEF InspectInit
  <1>3. WithRows = {} /\ WithNested = {}
    BY <1>1, <1>2 DEF WithRows, WithNested
  <1>4. connections \in Nat /\ connections > 0 /\ freeConnections = connections
    BY InspectConstants DEF InspectInit
  <1> QED BY <1>1, <1>2, <1>3, <1>4, FS_EmptySet DEF InspectInv

\* A step of one caller, with the connections it takes or gives back.
LEMMA InspectTurns ==
  ASSUME InspectInv, NEW i \in Inspectors, NEW new, InspectionGood(new), engine' = engine, connections' = connections,
         inspection' = [inspection EXCEPT ![i] = new], freeConnections' = freeConnections + HeldIn(inspection[i]) - HeldIn(new)
  PROVE  InspectInv'
  <1>0. PICK a, b \in {0, 1} : (a = 1 <=> inspection[i].pc \in {"rows", "nested"}) /\ (b = 1 <=> inspection[i].pc = "nested")
    <2>1. PICK a : a = IF inspection[i].pc \in {"rows", "nested"} THEN 1 ELSE 0
      OBVIOUS
    <2>2. PICK b : b = IF inspection[i].pc = "nested" THEN 1 ELSE 0
      OBVIOUS
    <2> QED BY <2>1, <2>2
  <1>00. PICK c, d \in {0, 1} : (c = 1 <=> new.pc \in {"rows", "nested"}) /\ (d = 1 <=> new.pc = "nested")
    <2>1. PICK c : c = IF new.pc \in {"rows", "nested"} THEN 1 ELSE 0
      OBVIOUS
    <2>2. PICK d : d = IF new.pc = "nested" THEN 1 ELSE 0
      OBVIOUS
    <2> QED BY <2>1, <2>2
  <1>01. HeldIn(inspection[i]) = a + b /\ HeldIn(new) = c + d
    BY <1>0, <1>00 DEF HeldIn
  <1>1. DOMAIN inspection' = Inspectors /\ inspection'[i] = new /\ \A j \in Inspectors : j # i => inspection'[j] = inspection[j]
    BY DEF InspectInv
  <1>2. \A j \in Inspectors : InspectionGood(inspection'[j])
    BY <1>1 DEF InspectInv
  <1>3. (\A j \in Inspectors : InspectionGood(inspection[j]))'
    BY <1>2 DEF InspectionGood
  <1>4. /\ Cardinality(WithRows) \in Nat /\ Cardinality(WithRows') \in Nat
        /\ Cardinality(WithRows') = Cardinality(WithRows) + c - a
    <2>1. WithRows \in SUBSET Inspectors /\ WithRows' \in SUBSET Inspectors
          /\ (i \in WithRows <=> a = 1) /\ (i \in WithRows' <=> c = 1)
          /\ \A j \in Inspectors : j # i => (j \in WithRows <=> j \in WithRows')
      BY <1>0, <1>00, <1>1 DEF WithRows
    <2> QED BY <2>1, OneChanges, InspectConstants
  <1>5. /\ Cardinality(WithNested) \in Nat /\ Cardinality(WithNested') \in Nat
        /\ Cardinality(WithNested') = Cardinality(WithNested) + d - b
    <2>1. WithNested \in SUBSET Inspectors /\ WithNested' \in SUBSET Inspectors
          /\ (i \in WithNested <=> b = 1) /\ (i \in WithNested' <=> d = 1)
          /\ \A j \in Inspectors : j # i => (j \in WithNested <=> j \in WithNested')
      BY <1>0, <1>00, <1>1 DEF WithNested
    <2> QED BY <2>1, OneChanges, InspectConstants
  <1>6. connections \in Nat /\ connections > 0 /\ freeConnections = connections - Cardinality(WithRows) - Cardinality(WithNested)
    BY DEF InspectInv
  <1>7. /\ connections' \in Nat /\ connections' > 0 /\ freeConnections' \in Int
        /\ freeConnections' = connections' - Cardinality(WithRows') - Cardinality(WithNested')
    BY <1>0, <1>00, <1>01, <1>4, <1>5, <1>6
  <1> QED BY <1>1, <1>3, <1>7 DEF InspectInv

LEMMA InspectTableKeeps ==
  ASSUME InspectInv, NEW i \in Inspectors, InspectTable(i)
  PROVE  InspectInv'
  <1>1. PICK new : new = [NotInspecting EXCEPT !.pc = "query", !.step = 1]
    OBVIOUS
  <1>2. InspectionGood(new) /\ new.pc = "query"
    BY <1>1 DEF NotInspecting, InspectionGood
  <1>3. inspection[i].pc = "idle" /\ inspection' = [inspection EXCEPT ![i] = new] /\ engine' = engine
        /\ connections' = connections /\ freeConnections' = freeConnections /\ freeConnections \in Int
    BY <1>1 DEF InspectTable, InspectInv
  <1>4. freeConnections' = freeConnections + HeldIn(inspection[i]) - HeldIn(new)
    BY <1>2, <1>3 DEF HeldIn
  <1>5. InspectInv /\ i \in Inspectors
    OBVIOUS
  <1> QED BY ONLY <1>2, <1>3, <1>4, <1>5, InspectTurns, ZenonT(30)

\* What a query reads changes neither the place of the inspection nor, outside SQLite,
\* what is left to read.
LEMMA ReadsGood ==
  ASSUME InspectInv, NEW i \in Inspectors, NEW step
  PROVE  InspectionGood([Reads(i, step) EXCEPT !.pc = "rows"]) /\ [Reads(i, step) EXCEPT !.pc = "rows"].pc = "rows"
  <1>1. PICK s : s = inspection[i] /\ InspectionGood(s)
    BY DEF InspectInv
  <1>4. \A x : /\ InspectionGood([[s EXCEPT !.pk = x] EXCEPT !.pc = "rows"]) /\ [[s EXCEPT !.pk = x] EXCEPT !.pc = "rows"].pc = "rows"
               /\ InspectionGood([[s EXCEPT !.indexes = x] EXCEPT !.pc = "rows"]) /\ [[s EXCEPT !.indexes = x] EXCEPT !.pc = "rows"].pc = "rows"
    BY <1>1 DEF InspectionGood
  <1>5. \A x : /\ InspectionGood([[s EXCEPT !.foreignKeys = x] EXCEPT !.pc = "rows"]) /\ [[s EXCEPT !.foreignKeys = x] EXCEPT !.pc = "rows"].pc = "rows"
               /\ InspectionGood([[s EXCEPT !.checks = x] EXCEPT !.pc = "rows"]) /\ [[s EXCEPT !.checks = x] EXCEPT !.pc = "rows"].pc = "rows"
    BY <1>1 DEF InspectionGood
  <1>6. engine = "sqlite" => \A x : InspectionGood([[s EXCEPT !.rows = x] EXCEPT !.pc = "rows"])
                                    /\ [[s EXCEPT !.rows = x] EXCEPT !.pc = "rows"].pc = "rows"
    BY <1>1 DEF InspectionGood
  <1>7. InspectionGood([s EXCEPT !.pc = "rows"]) /\ [s EXCEPT !.pc = "rows"].pc = "rows"
    BY <1>1 DEF InspectionGood
  <1>8. CASE step = "columns"
    <2>1. PICK x, y : Reads(i, step) = [s EXCEPT !.columns = x, !.pk = y]
      BY <1>1, <1>8 DEF Reads
    <2> QED BY <1>1, <2>1 DEF InspectionGood
  <1>9. CASE step = "primaryKey"
    <2>1. PICK x : Reads(i, step) = [s EXCEPT !.pk = x]
      BY <1>1, <1>9 DEF Reads
    <2> QED BY <1>4, <2>1
  <1>10. CASE step = "indexes" /\ engine # "sqlite"
    <2>1. PICK x : Reads(i, step) = [s EXCEPT !.indexes = x]
      BY <1>1, <1>10 DEF Reads
    <2> QED BY <1>4, <2>1
  <1>11. CASE step = "indexes" /\ engine = "sqlite"
    <2>1. PICK x : Reads(i, step) = [s EXCEPT !.rows = x]
      BY <1>1, <1>11 DEF Reads
    <2> QED BY <1>6, <1>11, <2>1
  <1>12. CASE step = "foreignKeys"
    <2>1. PICK x : Reads(i, step) = [s EXCEPT !.foreignKeys = x]
      BY <1>1, <1>12 DEF Reads
    <2> QED BY <1>5, <2>1
  <1>13. CASE step \in {"checks", "create"}
    <2>1. PICK x : Reads(i, step) = [s EXCEPT !.checks = x]
      BY <1>1, <1>13 DEF Reads
    <2> QED BY <1>5, <2>1
  <1>14. CASE step \notin {"columns", "primaryKey", "indexes", "foreignKeys", "checks", "create"}
    <2>1. Reads(i, step) = s
      BY <1>1, <1>14 DEF Reads
    <2> QED BY <1>7, <2>1
  <1> QED BY <1>8, <1>9, <1>10, <1>11, <1>12, <1>13, <1>14

LEMMA QueryRowsKeeps ==
  ASSUME InspectInv, NEW i \in Inspectors, queryRows(i)
  PROVE  InspectInv'
  <1>1. inspection[i].pc = "query" /\ engine' = engine /\ connections' = connections /\ freeConnections \in Int
    BY DEF queryRows, InspectInv
  <1>2. CASE /\ inspection' = [inspection EXCEPT ![i] = [Reads(i, Steps[inspection[i].step]) EXCEPT !.pc = "rows"]]
             /\ freeConnections' = freeConnections - 1
    <2>1. PICK new : new = [Reads(i, Steps[inspection[i].step]) EXCEPT !.pc = "rows"]
      OBVIOUS
    <2>2. InspectionGood(new) /\ new.pc = "rows" /\ inspection' = [inspection EXCEPT ![i] = new]
      BY <1>2, <2>1, ReadsGood
    <2>3. freeConnections' = freeConnections + HeldIn(inspection[i]) - HeldIn(new)
      BY <1>1, <1>2, <2>2 DEF HeldIn
    <2>4. InspectInv /\ i \in Inspectors
      OBVIOUS
    <2> QED BY ONLY <1>1, <1>2, <2>2, <2>3, <2>4, InspectTurns, ZenonT(30)
  <1>3. CASE inspection' = [inspection EXCEPT ![i].pc = "failed"] /\ freeConnections' = freeConnections
    <2>1. PICK new : new = [inspection[i] EXCEPT !.pc = "failed"]
      OBVIOUS
    <2>2. InspectionGood(new) /\ new.pc = "failed" /\ inspection' = [inspection EXCEPT ![i] = new]
      BY <1>3, <2>1 DEF InspectInv, InspectionGood
    <2>3. freeConnections' = freeConnections + HeldIn(inspection[i]) - HeldIn(new)
      BY <1>1, <2>2, <1>3 DEF HeldIn
    <2>4. InspectInv /\ i \in Inspectors
      OBVIOUS
    <2> QED BY ONLY <1>1, <2>2, <1>3, <2>3, <2>4, InspectTurns, ZenonT(30)
  <1> QED BY <1>2, <1>3 DEF queryRows

LEMMA CloseRowsKeeps ==
  ASSUME InspectInv, NEW i \in Inspectors, closeRows(i) \/ RowsFail(i)
  PROVE  InspectInv'
  <1>1. inspection[i].pc = "rows" /\ engine' = engine /\ connections' = connections /\ freeConnections \in Int
        /\ freeConnections' = freeConnections + 1
    BY DEF closeRows, RowsFail, InspectInv
  <1>2. PICK s : s = inspection[i] /\ InspectionGood(s)
    BY DEF InspectInv
  <1>3. \E new : InspectionGood(new) /\ new.pc \in {"query", "done", "failed"} /\ inspection' = [inspection EXCEPT ![i] = new]
    <2>1. CASE closeRows(i)
      <3>1. PICK new : new = IF s.step = Len(Steps) THEN [s EXCEPT !.pc = "done"] ELSE [s EXCEPT !.step = s.step + 1, !.pc = "query"]
        OBVIOUS
      <3>2. InspectionGood(new) /\ new.pc \in {"query", "done", "failed"}
        BY <1>2, <3>1 DEF InspectionGood
      <3>3. inspection' = [inspection EXCEPT ![i] = new]
        BY <1>2, <2>1, <3>1 DEF closeRows
      <3> QED BY <3>2, <3>3
    <2>2. CASE RowsFail(i)
      <3>1. PICK new : new = [s EXCEPT !.pc = "failed", !.rows = <<>>]
        OBVIOUS
      <3>2. InspectionGood(new) /\ new.pc \in {"query", "done", "failed"}
        BY <1>2, <3>1 DEF InspectionGood
      <3>3. inspection' = [inspection EXCEPT ![i] = new]
        BY <1>2, <2>2, <3>1 DEF RowsFail, InspectInv
      <3> QED BY <3>2, <3>3
    <2> QED BY <2>1, <2>2
  <1>4. PICK new : InspectionGood(new) /\ new.pc \in {"query", "done", "failed"} /\ inspection' = [inspection EXCEPT ![i] = new]
    BY <1>3
  <1>5. freeConnections' = freeConnections + HeldIn(inspection[i]) - HeldIn(new)
    BY <1>1, <1>4 DEF HeldIn
  <1>6. InspectInv /\ i \in Inspectors
    OBVIOUS
  <1> QED BY ONLY <1>1, <1>4, <1>5, <1>6, InspectTurns, ZenonT(30)

LEMMA LoadIndexKeeps ==
  ASSUME InspectInv, NEW i \in Inspectors, loadSQLiteIndex(i)
  PROVE  InspectInv'
  <1>1. inspection[i].pc = "rows" /\ engine' = engine /\ connections' = connections /\ freeConnections \in Int
        /\ engine = "sqlite"
    BY DEF loadSQLiteIndex, InspectInv, InspectionGood
  <1>2. PICK s : s = inspection[i] /\ InspectionGood(s)
    BY DEF InspectInv
  <1>3. CASE inspection' = [inspection EXCEPT ![i].pc = "nested"] /\ freeConnections' = freeConnections - 1
    <2>1. PICK new : new = [s EXCEPT !.pc = "nested"]
      OBVIOUS
    <2>2. InspectionGood(new) /\ new.pc = "nested" /\ inspection' = [inspection EXCEPT ![i] = new]
      BY <1>2, <1>3, <2>1 DEF InspectInv, InspectionGood
    <2>3. freeConnections' = freeConnections + HeldIn(inspection[i]) - HeldIn(new)
      BY <1>1, <1>3, <2>2 DEF HeldIn
    <2>4. InspectInv /\ i \in Inspectors
      OBVIOUS
    <2> QED BY ONLY <1>1, <1>3, <2>2, <2>3, <2>4, InspectTurns, ZenonT(30)
  <1>4. CASE inspection' = [inspection EXCEPT ![i].pc = "failed", ![i].rows = <<>>] /\ freeConnections' = freeConnections + 1
    <2>1. PICK new : new = [s EXCEPT !.pc = "failed", !.rows = <<>>]
      OBVIOUS
    <2>2. InspectionGood(new) /\ new.pc = "failed" /\ inspection' = [inspection EXCEPT ![i] = new]
      BY <1>2, <1>4, <2>1 DEF InspectInv, InspectionGood
    <2>3. freeConnections' = freeConnections + HeldIn(inspection[i]) - HeldIn(new)
      BY <1>1, <2>2, <1>4 DEF HeldIn
    <2>4. InspectInv /\ i \in Inspectors
      OBVIOUS
    <2> QED BY ONLY <1>1, <2>2, <1>4, <2>3, <2>4, InspectTurns, ZenonT(30)
  <1> QED BY <1>3, <1>4 DEF loadSQLiteIndex, NestedFail

LEMMA IndexColumnsKeeps ==
  ASSUME InspectInv, NEW i \in Inspectors, inspectIndexColumns(i)
  PROVE  InspectInv'
  <1>1. inspection[i].pc = "nested" /\ engine' = engine /\ connections' = connections /\ freeConnections \in Int
        /\ freeConnections' = freeConnections + 1
    BY DEF inspectIndexColumns, InspectInv
  <1>2. PICK s : s = inspection[i] /\ InspectionGood(s)
    BY DEF InspectInv
  <1>3. PICK more, rest : more = s.indexes \cup {Head(s.rows)} /\ rest = Tail(s.rows)
    OBVIOUS
  <1>4. PICK new : new = [s EXCEPT !.pc = "rows", !.indexes = more, !.rows = rest]
    OBVIOUS
  <1>5. inspection' = [inspection EXCEPT ![i] = new]
    BY <1>2, <1>3, <1>4 DEF inspectIndexColumns, InspectInv, InspectionGood
  <1>6. InspectionGood(new) /\ new.pc = "rows"
    BY <1>2, <1>3, <1>4 DEF InspectionGood
  <1>7. freeConnections' = freeConnections + HeldIn(inspection[i]) - HeldIn(new)
    BY <1>1, <1>5, <1>6 DEF HeldIn
  <1>8. InspectInv /\ i \in Inspectors
    OBVIOUS
  <1> QED BY ONLY <1>1, <1>5, <1>6, <1>7, <1>8, InspectTurns, ZenonT(30)

LEMMA InspectStep == InspectInv /\ [InspectNext]_inspectVars => InspectInv'
  <1> SUFFICES ASSUME InspectInv, [InspectNext]_inspectVars PROVE InspectInv'
    OBVIOUS
  <1>1. CASE UNCHANGED inspectVars \/ AlterTable
    <2>1. UNCHANGED <<engine, connections, freeConnections, inspection>>
      BY <1>1 DEF inspectVars, AlterTable
    <2> QED BY <2>1 DEF InspectInv, InspectionGood, WithRows, WithNested
  <1> QED BY <1>1, InspectTableKeeps, QueryRowsKeeps, CloseRowsKeeps, LoadIndexKeeps, IndexColumnsKeeps DEF InspectNext

LEMMA InspectImplies == InspectInv => ConnectionsReturned
  <1> SUFFICES ASSUME InspectInv PROVE ConnectionsReturned  OBVIOUS
  <1>1. \A i \in Inspectors : inspection[i].pc \in {"done", "failed"} => HeldBy(i) = 0
    BY DEF HeldBy
  <1>2. ASSUME \A i \in Inspectors : inspection[i].pc \notin {"rows", "nested"}
        PROVE  freeConnections = connections
    <2>1. WithRows = {} /\ WithNested = {}
      BY <1>2 DEF WithRows, WithNested
    <2> QED BY <2>1, FS_EmptySet DEF InspectInv
  <1>3. AllWait => engine = "sqlite"
    <2> SUFFICES ASSUME AllWait, engine # "sqlite" PROVE FALSE
      OBVIOUS
    <2>1. \A i \in Inspectors : inspection[i].pc = "query"
      BY DEF AllWait, InspectInv, InspectionGood
    <2>2. freeConnections = connections
      BY <1>2, <2>1
    <2> QED BY <2>2 DEF AllWait, InspectInv
  <1> QED BY <1>1, <1>2, <1>3 DEF ConnectionsReturned

\* Connections are never lost by an inspection, and callers block each other for good only
\* in SQLite's nested queries: for any number of callers, any tables and any pool.
THEOREM ConnectionsReturnedAlways == InspectSpec => []ConnectionsReturned
  BY InspectStarts, InspectStep, InspectImplies, PTL DEF InspectSpec

-----------------------------------------------------------------------------
(* dbx/schemamigrate: instances of several versions of a program. *)

AllItems == SchemaItems \cup {TableItem}
OneName(S) == \A x, y \in S : Same(x, y) => x = y
\* The item is one the declaration asks for, under this name or another.
Declared(x, wanted) == x = TableItem \/ \E y \in wanted : y.kind = x.kind /\ y.def = x.def
SatisfiedBy(wanted, found) ==
  \A x \in wanted : x.kind # "attr" =>
    \E y \in found : y.kind = x.kind /\ y.def = x.def /\ (x.kind = "column" => y.name = x.name)

PlanActions == [adds : SUBSET AllItems, replaces : {FALSE}, executable : BOOLEAN]
\* A plan adds, item by item, what is declared; it replaces nothing.
PlanGood(plan, wanted) ==
  /\ plan \in Seq(PlanActions)
  /\ \A k \in 1..Len(plan) : OneName(plan[k].adds) /\ \A x \in plan[k].adds : Declared(x, wanted)

MigratorRecords ==
  [pc : {"idle", "exec", "validated", "drift", "failed", "done"}, spec : Declarable, plan : Seq(PlanActions),
   own : SUBSET AllItems, gone : {{}}]
MigratorGood(s, d) ==
  /\ s \in MigratorRecords /\ PlanGood(s.plan, s.spec)
  /\ OneName(s.own) /\ \A x \in s.own : Declared(x, s.spec)
  /\ s.pc = "validated" => SatisfiedBy(s.spec, d \cup s.own)
  /\ s.pc = "done" => SatisfiedBy(s.spec, d)

SchemaInv ==
  /\ backend \in {"atlas", "legacy"} /\ transactional \in BOOLEAN
  /\ db \in SUBSET AllItems /\ initially \subseteq db /\ OneName(db)
  /\ DOMAIN migrator = Migrators /\ \A m \in Migrators : MigratorGood(migrator[m], db)
  /\ compiledCache \subseteq Declarable
  /\ transactional = TRUE => \A x \in db \ initially : \E m \in Migrators : migrator[m].pc = "done" /\ Declared(x, migrator[m].spec)

-----------------------------------------------------------------------------
(* Plans. *)

LEMMA ItemFields == \A x \in AllItems : x \in [kind : ItemKinds, name : STRING, def : Nat]
  BY SchemaConstants DEF AllItems

LEMMA DeclarableItems ==
  ASSUME NEW wanted \in Declarable
  PROVE  wanted \subseteq SchemaItems /\ wanted \subseteq AllItems /\ OneName(wanted) /\ IsFiniteSet(wanted)
         /\ \A x \in wanted : x.kind \in ItemKinds \ {"table"}
  <1>1. wanted \subseteq SchemaItems /\ OneName(wanted)
    BY DEF Declarable, OneName
  <1>2. IsFiniteSet(wanted)
    BY <1>1, SchemaConstants, FS_Subset
  <1> QED BY <1>1, <1>2, SchemaConstants, ItemFields DEF AllItems

\* A table compiled for another declaration differs in the names of foreign keys only.
LEMMA CompiledAlike ==
  ASSUME NEW wanted \in Declarable, compiledCache \subseteq Declarable
  PROVE  /\ Compiled(wanted) \in Declarable
         /\ \A x \in Compiled(wanted) : \E y \in wanted : y.kind = x.kind /\ y.def = x.def
         /\ \A x \in wanted : \E y \in Compiled(wanted) : y.kind = x.kind /\ y.def = x.def /\ (x.kind # "foreign_key" => y = x)
  <1> DEFINE hits == { c \in compiledCache : schemaFingerprint(c) = schemaFingerprint(wanted) }
  <1>1. CASE hits = {}
    <2>1. Compiled(wanted) = wanted
      BY <1>1 DEF Compiled
    <2> QED BY <2>1
  <1>2. CASE hits # {}
    <2>1. Compiled(wanted) = CHOOSE c \in hits : TRUE
      BY <1>2 DEF Compiled
    <2>2. PICK c \in hits : Compiled(wanted) = c
      BY <1>2, <2>1
    <2>3. c \in Declarable /\ schemaFingerprint(c) = schemaFingerprint(wanted)
      BY <2>2
    <2> DEFINE Blank(x) == IF x.kind = "foreign_key" THEN [x EXCEPT !.name = ""] ELSE x
    <2>4. { Blank(x) : x \in c } = { Blank(x) : x \in wanted }
      BY <2>3 DEF schemaFingerprint
    <2>5. \A x \in AllItems : /\ Blank(x).kind = x.kind /\ Blank(x).def = x.def
                              /\ x.kind # "foreign_key" => Blank(x) = x
      BY ItemFields
    <2>6. c \subseteq AllItems /\ wanted \subseteq AllItems
      BY <2>3, DeclarableItems
    <2>7. \A x \in c : \E y \in wanted : Blank(y) = Blank(x)
      <3> HIDE DEF Blank
      <3> TAKE x \in c
      <3>1. Blank(x) \in { Blank(y) : y \in wanted }
        BY <2>4
      <3> QED BY <3>1
    <2>8. \A x \in wanted : \E y \in c : Blank(y) = Blank(x)
      <3> HIDE DEF Blank
      <3> TAKE x \in wanted
      <3>1. Blank(x) \in { Blank(y) : y \in c }
        BY <2>4
      <3> QED BY <3>1
    <2> HIDE DEF Blank
    <2>9. \A x \in c : \E y \in wanted : y.kind = x.kind /\ y.def = x.def
      BY <2>5, <2>6, <2>7
    <2>10. \A x \in wanted : \E y \in c : y.kind = x.kind /\ y.def = x.def /\ (x.kind # "foreign_key" => y = x)
      BY <2>5, <2>6, <2>8
    <2> QED BY <2>2, <2>3, <2>9, <2>10
  <1> QED BY <1>1, <1>2

LEMMA KindOrders == \A k : KindOrder(k) \in Nat
  BY DEF KindOrder

LEMMA InOrderLists ==
  ASSUME NEW S, IsFiniteSet(S)
  PROVE  Cardinality(S) \in Nat /\ \A i \in 1..Cardinality(S) : InOrder(S)[i] \in S
  <1>1. PICK key : key = [x \in S |-> KindOrder(x.item.kind)]
    OBVIOUS
  <1>2. key \in [S -> Nat]
    BY <1>1, KindOrders
  <1>3. PICK q : Sorting(q, S, key)
    BY <1>2, SortingExists
  <1>4. \E p \in [1..Cardinality(S) -> S] :
          \A i, j \in 1..Cardinality(S) : i < j => p[i] # p[j] /\ KindOrder(p[i].item.kind) <= KindOrder(p[j].item.kind)
    BY <1>1, <1>3 DEF Sorting
  <1>5. InOrder(S) \in [1..Cardinality(S) -> S]
    BY <1>4 DEF InOrder
  <1> QED BY <1>5, FS_CardinalityType

LEMMA SetToSeqLists ==
  ASSUME NEW S, IsFiniteSet(S)
  PROVE  Cardinality(S) \in Nat /\ \A i \in 1..Cardinality(S) : SetToSeq(S)[i] \in S
  <1>1. PICK key : key = [x \in S |-> 0]
    OBVIOUS
  <1>2. key \in [S -> Nat]
    BY <1>1
  <1>3. PICK q : Sorting(q, S, key)
    BY <1>2, SortingExists
  <1>4. Cardinality(S) \in Nat
    BY FS_CardinalityType
  <1>5. q \in [1..Cardinality(S) -> S] /\ \A i, j \in 1..Cardinality(S) : i < j => q[i] # q[j]
    BY <1>3 DEF Sorting
  <1>6. IsInjective(q)
    <2> SUFFICES ASSUME NEW i \in 1..Cardinality(S), NEW j \in 1..Cardinality(S), q[i] = q[j], i # j PROVE FALSE
      BY <1>5 DEF IsInjective
    <2>1. i < j \/ j < i
      BY <1>4
    <2> QED BY <1>5, <2>1
  <1>7. SetToSeq(S) \in [1..Cardinality(S) -> S]
    BY <1>5, <1>6 DEF SetToSeq
  <1> QED BY <1>4, <1>7

\* A sequence made number by number of actions that are good is a good plan.
LEMMA PlanOf ==
  ASSUME NEW wanted, NEW n \in Nat, NEW p, p = [i \in 1..n |-> p[i]], \A i \in 1..n : p[i] \in PlanActions,
         \A i \in 1..n : OneName(p[i].adds) /\ \A x \in p[i].adds : Declared(x, wanted)
  PROVE  PlanGood(p, wanted) /\ Len(p) = n
  <1>1. p \in Seq(PlanActions) /\ Len(p) = n
    OBVIOUS
  <1> QED BY <1>1 DEF PlanGood

LEMMA PlanJoin ==
  ASSUME NEW wanted, NEW p, NEW q, PlanGood(p, wanted), PlanGood(q, wanted)
  PROVE  PlanGood(p \o q, wanted)
  <1>1. p \in Seq(PlanActions) /\ q \in Seq(PlanActions)
    BY DEF PlanGood
  <1>2. p \o q \in Seq(PlanActions) /\ Len(p \o q) = Len(p) + Len(q) /\ Len(p) \in Nat /\ Len(q) \in Nat
    BY <1>1
  <1>3. \A k \in 1..(Len(p) + Len(q)) : (p \o q)[k] = IF k <= Len(p) THEN p[k] ELSE q[k - Len(p)]
    BY <1>1
  <1>4. \A k \in 1..(Len(p) + Len(q)) : (\E l \in 1..Len(p) : (p \o q)[k] = p[l]) \/ (\E l \in 1..Len(q) : (p \o q)[k] = q[l])
    <2> SUFFICES ASSUME NEW k \in 1..(Len(p) + Len(q))
                 PROVE  (\E l \in 1..Len(p) : (p \o q)[k] = p[l]) \/ (\E l \in 1..Len(q) : (p \o q)[k] = q[l])
      OBVIOUS
    <2>1. CASE k <= Len(p)
      <3>1. k \in 1..Len(p) /\ (p \o q)[k] = p[k]
        BY <1>2, <1>3, <2>1
      <3> QED BY <3>1
    <2>2. CASE ~(k <= Len(p))
      <3>1. k - Len(p) \in 1..Len(q) /\ (p \o q)[k] = q[k - Len(p)]
        BY <1>2, <1>3, <2>2
      <3> QED BY <3>1
    <2> QED BY <2>1, <2>2
  <1> QED BY <1>2, <1>4 DEF PlanGood

\* Actions by hand add nothing.
LEMMA PlanByHand ==
  ASSUME NEW wanted, NEW n \in Nat
  PROVE  PlanGood([i \in 1..n |-> [adds |-> {}, replaces |-> FALSE, executable |-> FALSE]], wanted)
  <1>1. PICK p : p = [i \in 1..n |-> [adds |-> {}, replaces |-> FALSE, executable |-> FALSE]]
    OBVIOUS
  <1>2. \A i \in 1..n : p[i] \in PlanActions /\ p[i].adds = {}
    BY <1>1 DEF PlanActions
  <1>3. p = [i \in 1..n |-> p[i]]
    BY <1>1
  <1>4. \A i \in 1..n : OneName(p[i].adds) /\ \A x \in p[i].adds : Declared(x, wanted)
    BY <1>2 DEF OneName
  <1>5. PlanGood(p, wanted)
    BY <1>2, <1>3, <1>4, PlanOf
  <1> QED BY <1>1, <1>5

\* Actions that add one declared item each.
LEMMA PlanOfItems ==
  ASSUME NEW wanted \in Declarable, NEW n \in Nat, NEW p, p = [i \in 1..n |-> p[i]],
         \A i \in 1..n : \E x \in wanted : \E e \in BOOLEAN : p[i] = [adds |-> {x}, replaces |-> FALSE, executable |-> e]
  PROVE  PlanGood(p, wanted) /\ Len(p) = n
  <1>1. wanted \subseteq AllItems
    BY DeclarableItems
  <1>2. \A i \in 1..n : p[i] \in PlanActions /\ \E x \in wanted : p[i].adds = {x}
    <2> TAKE i \in 1..n
    <2>1. PICK x \in wanted, e \in BOOLEAN : p[i] = [adds |-> {x}, replaces |-> FALSE, executable |-> e]
      OBVIOUS
    <2>2. {x} \in SUBSET AllItems
      BY <1>1
    <2>3. [adds |-> {x}, replaces |-> FALSE, executable |-> e] \in PlanActions
      BY <2>2 DEF PlanActions
    <2>4. p[i].adds = {x}
      BY <2>1
    <2> QED BY <2>1, <2>3, <2>4
  <1>3. \A i \in 1..n : OneName(p[i].adds) /\ \A x \in p[i].adds : Declared(x, wanted)
    BY <1>2 DEF OneName, Declared
  <1> QED BY <1>2, <1>3, PlanOf

\* The statements for a new table.
LEMMA CreateGood ==
  ASSUME NEW wanted \in Declarable
  PROVE  PlanGood(CreateActions(wanted), wanted) /\ Len(CreateActions(wanted)) > 0
  <1> DEFINE rest == { x \in wanted : x.kind # "index" }
             first == [adds |-> {TableItem} \cup rest, replaces |-> FALSE, executable |-> TRUE]
             more == [i \in 1..Cardinality(wanted \ rest) |-> [adds |-> {SetToSeq(wanted \ rest)[i]}, replaces |-> FALSE, executable |-> TRUE]]
  <1>1. CreateActions(wanted) = <<first>> \o more
    BY DEF CreateActions
  <1>2. wanted \subseteq AllItems /\ OneName(wanted) /\ IsFiniteSet(wanted) /\ \A x \in wanted : x.kind # "table"
    BY DeclarableItems
  <1>3. PlanGood(<<first>>, wanted)
    <2>1. PICK S : S = {TableItem} \cup rest
      OBVIOUS
    <2>2. OneName(S)
      BY <1>2, <2>1, SchemaConstants DEF OneName, Same
    <2>3. S \in SUBSET AllItems /\ \A x \in S : Declared(x, wanted)
      BY <1>2, <2>1 DEF AllItems, Declared
    <2>4. first \in PlanActions /\ first.adds = S
      BY <2>1, <2>3 DEF PlanActions
    <2> HIDE DEF first
    <2>5. <<first>> \in Seq(PlanActions) /\ Len(<<first>>) = 1 /\ \A k \in 1..1 : <<first>>[k] = first
      BY <2>4
    <2> QED BY <2>2, <2>3, <2>4, <2>5 DEF PlanGood
  <1>4. PlanGood(more, wanted)
    <2>1. PICK S : S = wanted \ rest
      OBVIOUS
    <2>2. IsFiniteSet(S) /\ S \subseteq wanted
      BY <1>2, <2>1, FS_Subset
    <2>3. Cardinality(S) \in Nat /\ \A i \in 1..Cardinality(S) : SetToSeq(S)[i] \in S
      BY <2>2, SetToSeqLists
    <2>4. PICK p : p = [i \in 1..Cardinality(S) |-> [adds |-> {SetToSeq(S)[i]}, replaces |-> FALSE, executable |-> TRUE]]
      OBVIOUS
    <2>5. p = [i \in 1..Cardinality(S) |-> p[i]]
      BY <2>4
    <2>6. \A i \in 1..Cardinality(S) : \E x \in wanted : \E e \in BOOLEAN : p[i] = [adds |-> {x}, replaces |-> FALSE, executable |-> e]
      BY <2>2, <2>3, <2>4
    <2>7. PlanGood(p, wanted)
      BY <2>3, <2>5, <2>6, PlanOfItems
    <2> QED BY <2>1, <2>4, <2>7
  <1>5. PlanGood(<<first>> \o more, wanted)
    <2> HIDE DEF first, more
    <2> QED BY <1>3, <1>4, PlanJoin
  <1>6. Len(<<first>> \o more) > 0
    <2>1. <<first>> \in Seq(PlanActions) /\ more \in Seq(PlanActions)
      BY <1>3, <1>4 DEF PlanGood
    <2> HIDE DEF first, more
    <2> QED BY <2>1
  <1> QED BY <1>1, <1>5, <1>6

\* The statements for changes, in their order, and the changes left to be made by hand.
LEMMA AdditionsGood ==
  ASSUME NEW wanted \in Declarable, NEW S, IsFiniteSet(S), \A c \in S : c.item \in wanted, NEW p,
         p = [i \in 1..Cardinality(S) |-> p[i]],
         \A i \in 1..Cardinality(S) : \E e \in BOOLEAN : p[i] = [adds |-> {InOrder(S)[i].item}, replaces |-> FALSE, executable |-> e]
  PROVE  PlanGood(p, wanted) /\ Len(p) = Cardinality(S)
  <1>1. Cardinality(S) \in Nat /\ \A i \in 1..Cardinality(S) : InOrder(S)[i] \in S
    BY InOrderLists
  <1>2. \A i \in 1..Cardinality(S) : \E x \in wanted : \E e \in BOOLEAN : p[i] = [adds |-> {x}, replaces |-> FALSE, executable |-> e]
    BY <1>1
  <1> QED BY <1>1, <1>2, PlanOfItems

LEMMA FiniteChanges ==
  ASSUME NEW wanted \in Declarable, NEW found \in SUBSET AllItems
  PROVE  IsFiniteSet(SchemaDiff(wanted, found))
  <1>1. IsFiniteSet(AllItems)
    BY SchemaConstants, FS_AddElement DEF AllItems
  <1>2. \A o : IsFiniteSet({ [op |-> o, item |-> x] : x \in AllItems })
    <2> TAKE o
    <2>1. PICK f : f = [x \in AllItems |-> [op |-> o, item |-> x]]
      OBVIOUS
    <2>2. { [op |-> o, item |-> x] : x \in AllItems } = { f[x] : x \in AllItems }
      BY <2>1
    <2>3. f = [x \in AllItems |-> f[x]]
      BY <2>1
    <2> QED BY <1>1, <2>2, <2>3, FiniteImage
  <1> DEFINE of(o) == { [op |-> o, item |-> x] : x \in AllItems }
  <1>3. IsFiniteSet(of("add_table") \cup (of("add") \cup (of("modify") \cup of("drop"))))
    BY ZenonT(60), <1>2, FS_Union
  <1>4. SchemaDiff(wanted, found) \subseteq of("add_table") \cup (of("add") \cup (of("modify") \cup of("drop")))
    <2>1. wanted \subseteq AllItems /\ TableItem \in AllItems
      BY DeclarableItems DEF AllItems
    <2> QED BY <2>1 DEF SchemaDiff
  <1> QED BY <1>3, <1>4, FS_Subset

LEMMA AtlasGood ==
  ASSUME NEW wanted \in Declarable, NEW found \in SUBSET AllItems
  PROVE  /\ PlanGood(atlasPlanActions(wanted, SchemaDiff(wanted, found)), wanted)
         /\ (\A c \in SchemaDiff(wanted, found) : c.op = "add_table" \/ c.item.kind \notin unbuildable) =>
              (atlasPlanActions(wanted, SchemaDiff(wanted, found)) = <<>> <=> SchemaDiff(wanted, found) = {})
  <1>1. PICK changes : changes = SchemaDiff(wanted, found) /\ IsFiniteSet(changes)
    BY FiniteChanges
  <1>2. PICK safe : safe = { c \in changes : atlasIsExecutableTableChange(c) /\ c.item.kind \notin unbuildable }
    OBVIOUS
  <1>3. PICK manual : manual = { c \in changes : c.op # "add_table" /\ ~atlasIsExecutableTableChange(c) }
    OBVIOUS
  <1>4. IsFiniteSet(safe) /\ IsFiniteSet(manual) /\ Cardinality(safe) \in Nat /\ Cardinality(manual) \in Nat
    BY <1>1, <1>2, <1>3, FS_Subset, FS_CardinalityType
  <1>5. \A c \in safe : c.item \in wanted /\ c.op = "add"
    BY <1>1, <1>2 DEF SchemaDiff, atlasIsExecutableTableChange
  <1>6. PICK p : p = [i \in 1..Cardinality(safe) |-> [adds |-> {InOrder(safe)[i].item}, replaces |-> InOrder(safe)[i].op # "add", executable |-> TRUE]]
    OBVIOUS
  <1>7. \A i \in 1..Cardinality(safe) : p[i] = [adds |-> {InOrder(safe)[i].item}, replaces |-> FALSE, executable |-> TRUE]
    <2> TAKE i \in 1..Cardinality(safe)
    <2>1. InOrder(safe)[i] \in safe
      BY <1>4, InOrderLists
    <2>2. (InOrder(safe)[i].op # "add") = FALSE
      BY <1>5, <2>1
    <2> QED BY <1>6, <2>2
  <1>8. p = [i \in 1..Cardinality(safe) |-> p[i]]
    BY <1>6
  <1>9. PlanGood(p, wanted) /\ Len(p) = Cardinality(safe)
    BY <1>4, <1>5, <1>7, <1>8, AdditionsGood
  <1>10. PICK q : q = [i \in 1..Cardinality(manual) |-> [adds |-> {}, replaces |-> FALSE, executable |-> FALSE]]
    OBVIOUS
  <1>11. PlanGood(q, wanted) /\ Len(q) = Cardinality(manual)
    <2>1. PlanGood(q, wanted)
      BY <1>4, <1>10, PlanByHand
    <2>2. Len(q) = Cardinality(manual)
      BY <1>4, <1>10
    <2> QED BY <2>1, <2>2
  <1>12. PlanGood(p \o q, wanted)
    BY <1>9, <1>11, PlanJoin
  <1>13. atlasPlanActions(wanted, changes) = IF \E c \in changes : c.op = "add_table" THEN CreateActions(wanted) ELSE p \o q
    BY <1>2, <1>3, <1>6, <1>10 DEF atlasPlanActions
  <1>14. p \o q = <<>> <=> safe = {} /\ manual = {}
    <2>1. p \in Seq(PlanActions) /\ q \in Seq(PlanActions)
      BY <1>9, <1>11 DEF PlanGood
    <2>2. Len(p \o q) = Cardinality(safe) + Cardinality(manual)
      BY <1>9, <1>11, <2>1
    <2>3. p \o q = <<>> <=> Len(p \o q) = 0
      BY <2>1
    <2>4. (Cardinality(safe) = 0 <=> safe = {}) /\ (Cardinality(manual) = 0 <=> manual = {})
      BY <1>4, FS_EmptySet
    <2>5. PICK j \in Nat, k \in Nat : j = Cardinality(safe) /\ k = Cardinality(manual)
      BY <1>4
    <2>6. j + k = 0 <=> j = 0 /\ k = 0
      OBVIOUS
    <2> QED BY <2>2, <2>3, <2>4, <2>5, <2>6
  <1>15. ASSUME \A c \in changes : c.op = "add_table" \/ c.item.kind \notin unbuildable
         PROVE  atlasPlanActions(wanted, changes) = <<>> <=> changes = {}
    <2>1. CASE \E c \in changes : c.op = "add_table"
      <3>1. Len(CreateActions(wanted)) > 0
        BY CreateGood
      <3>2. CreateActions(wanted) # <<>>
        BY <3>1
      <3> QED BY <1>13, <2>1, <3>2
    <2>2. CASE ~\E c \in changes : c.op = "add_table"
      <3>1. changes = safe \cup manual
        BY <1>2, <1>3, <1>15, <2>2
      <3> QED BY <1>13, <1>14, <2>2, <3>1
    <2> QED BY <2>1, <2>2
  <1> QED BY <1>1, <1>12, <1>13, <1>15, CreateGood

LEMMA LegacyGood ==
  ASSUME NEW wanted \in Declarable, NEW found \in SUBSET AllItems
  PROVE  /\ PlanGood(buildLegacyMigrationActions(wanted, found), wanted)
         /\ TableItem \in found =>
              (buildLegacyMigrationActions(wanted, found) = <<>> <=>
                 legacyMissing(wanted, found) = {} /\ columnDiffIssues(wanted, found) = {} /\ ~primaryKeyIssues(wanted, found))
  <1>1. PICK lacks : lacks = legacyMissing(wanted, found) /\ lacks \subseteq wanted /\ IsFiniteSet(lacks)
    <2>1. legacyMissing(wanted, found) \subseteq wanted
      BY DEF legacyMissing
    <2> QED BY <2>1, DeclarableItems, FS_Subset
  <1>2. PICK missing : missing = { [op |-> "add", item |-> x] : x \in lacks }
    OBVIOUS
  <1>3. IsFiniteSet(missing)
    <2>1. PICK f : f = [x \in lacks |-> [op |-> "add", item |-> x]]
      OBVIOUS
    <2>2. missing = { f[x] : x \in lacks } /\ f = [x \in lacks |-> f[x]]
      BY <1>2, <2>1
    <2> QED BY <1>1, <2>2, FiniteImage
  <1>4. \A c \in missing : c.item \in wanted
    BY <1>1, <1>2
  <1>5. Cardinality(missing) \in Nat /\ (Cardinality(missing) = 0 <=> lacks = {})
    <2>1. missing = {} <=> lacks = {}
      BY <1>2
    <2> QED BY <1>3, <2>1, FS_CardinalityType, FS_EmptySet
  <1>6. PICK b : b = Cardinality(columnDiffIssues(wanted, found)) + (IF primaryKeyIssues(wanted, found) THEN 1 ELSE 0)
    OBVIOUS
  <1>7. b \in Nat /\ (b = 0 <=> columnDiffIssues(wanted, found) = {} /\ ~primaryKeyIssues(wanted, found))
    <2>1. PICK cd : cd = columnDiffIssues(wanted, found) /\ IsFiniteSet(cd)
      <3>1. columnDiffIssues(wanted, found) \subseteq wanted
        BY DEF columnDiffIssues
      <3> QED BY <3>1, DeclarableItems, FS_Subset
    <2>2. Cardinality(cd) \in Nat /\ (Cardinality(cd) = 0 <=> cd = {})
      BY <2>1, FS_CardinalityType, FS_EmptySet
    <2>3. PICK k \in {0, 1} : k = (IF primaryKeyIssues(wanted, found) THEN 1 ELSE 0) /\ (k = 0 <=> ~primaryKeyIssues(wanted, found))
      OBVIOUS
    <2> QED BY <1>6, <2>1, <2>2, <2>3
  <1>8. PICK p : p = [i \in 1..Cardinality(missing) |->
                        [adds |-> {InOrder(missing)[i].item}, replaces |-> FALSE, executable |-> InOrder(missing)[i].item.kind \notin unbuildable]]
    OBVIOUS
  <1>9. p = [i \in 1..Cardinality(missing) |-> p[i]]
    BY <1>8
  <1>10. \A i \in 1..Cardinality(missing) : \E e \in BOOLEAN : p[i] = [adds |-> {InOrder(missing)[i].item}, replaces |-> FALSE, executable |-> e]
    <2> TAKE i \in 1..Cardinality(missing)
    <2>1. PICK e \in BOOLEAN : e = (InOrder(missing)[i].item.kind \notin unbuildable)
      OBVIOUS
    <2> QED BY <1>8, <2>1
  <1>11. PlanGood(p, wanted) /\ Len(p) = Cardinality(missing)
    BY <1>3, <1>4, <1>9, <1>10, AdditionsGood
  <1>12. PICK q : q = [i \in 1..b |-> [adds |-> {}, replaces |-> FALSE, executable |-> FALSE]]
    OBVIOUS
  <1>13. PlanGood(q, wanted) /\ Len(q) = b
    <2>1. PlanGood(q, wanted)
      BY <1>7, <1>12, PlanByHand
    <2>2. Len(q) = b
      BY <1>7, <1>12
    <2> QED BY <2>1, <2>2
  <1>14. buildLegacyMigrationActions(wanted, found) = IF TableItem \notin found THEN CreateActions(wanted) ELSE p \o q
    BY <1>1, <1>2, <1>6, <1>8, <1>12 DEF buildLegacyMigrationActions
  <1>15. PlanGood(p \o q, wanted)
    BY <1>11, <1>13, PlanJoin
  <1>16. p \o q = <<>> <=> Cardinality(missing) = 0 /\ b = 0
    <2>1. p \in Seq(PlanActions) /\ q \in Seq(PlanActions)
      BY <1>11, <1>13 DEF PlanGood
    <2>2. Len(p \o q) = Cardinality(missing) + b
      BY <1>11, <1>13, <2>1
    <2>3. p \o q = <<>> <=> Len(p \o q) = 0
      BY <2>1
    <2> QED BY <1>5, <1>7, <2>2, <2>3
  <1> QED BY <1>1, <1>5, <1>7, <1>14, <1>15, <1>16, CreateGood

LEMMA PlanIsGood ==
  ASSUME NEW wanted \in Declarable, NEW found \in SUBSET AllItems, compiledCache \subseteq Declarable
  PROVE  PlanGood(PlanSchemaChanges(wanted, found), wanted)
  <1>1. CASE backend = "atlas"
    <2>1. PICK C \in Declarable : C = Compiled(wanted) /\ \A x \in C : \E y \in wanted : y.kind = x.kind /\ y.def = x.def
      BY CompiledAlike
    <2>2. PICK p : p = atlasPlanActions(C, SchemaDiff(C, found)) /\ PlanGood(p, C)
      BY AtlasGood
    <2>3. \A x : Declared(x, C) => Declared(x, wanted)
      BY <2>1 DEF Declared
    <2>4. PlanGood(p, wanted)
      BY <2>2, <2>3 DEF PlanGood
    <2> QED BY <1>1, <2>1, <2>2, <2>4 DEF PlanSchemaChanges
  <1>2. CASE backend # "atlas"
    BY <1>2, LegacyGood DEF PlanSchemaChanges
  <1> QED BY <1>1, <1>2

-----------------------------------------------------------------------------
(* Reports. *)

LEMMA AtlasReported ==
  ASSUME NEW wanted \in Declarable, NEW found \in SUBSET AllItems, atlasApplyChangeToReport(SchemaDiff(wanted, found)) = {}
  PROVE  \A x \in wanted : x.kind # "attr" => x \in found
  <1>1. PICK changes : changes = SchemaDiff(wanted, found)
    OBVIOUS
  <1>2. \A d \in changes : d.op # "add_table" /\ d.item.kind = "attr"
    <2>1. atlasApplyChangeToReport(changes) = {}
      BY <1>1
    <2> QED BY <2>1 DEF atlasApplyChangeToReport, atlasApplyTableChangeToDiff
  <1>3. TableItem \in found
    <2> SUFFICES ASSUME TableItem \notin found PROVE FALSE
      OBVIOUS
    <2>1. [op |-> "add_table", item |-> TableItem] \in changes
      BY <1>1 DEF SchemaDiff
    <2> QED BY <1>2, <2>1
  <1> SUFFICES ASSUME NEW x \in wanted, x.kind # "attr" PROVE x \in found
    OBVIOUS
  <1>4. PICK z \in found : Same(x, z)
    <2> SUFFICES ASSUME ~\E z \in found : Same(x, z) PROVE FALSE
      OBVIOUS
    <2>1. [op |-> "add", item |-> x] \in changes
      BY <1>1, <1>3 DEF SchemaDiff
    <2> QED BY <1>2, <2>1
  <1>5. x = z
    <2> SUFFICES ASSUME x # z PROVE FALSE
      OBVIOUS
    <2>1. [op |-> "modify", item |-> x] \in changes
      BY <1>1, <1>3, <1>4 DEF SchemaDiff
    <2> QED BY <1>2, <2>1
  <1> QED BY <1>5

LEMMA LegacyReported ==
  ASSUME NEW wanted \in Declarable, NEW found \in SUBSET AllItems, legacyReport(wanted, found) = {}
  PROVE  SatisfiedBy(wanted, found)
  <1>1. TableItem \in found
    BY DEF legacyReport
  <1>2. legacyMissing(wanted, found) = {} /\ columnDiffIssues(wanted, found) = {} /\ ~primaryKeyIssues(wanted, found)
    BY <1>1 DEF legacyReport
  <1> SUFFICES ASSUME NEW x \in wanted, x.kind # "attr"
               PROVE  \E y \in found : y.kind = x.kind /\ y.def = x.def /\ (x.kind = "column" => y.name = x.name)
    BY DEF SatisfiedBy
  <1>3. x.kind \in ItemKinds \ {"table"}
    BY DeclarableItems
  <1>4. CASE x.kind = "column"
    <2>1. PICK y \in found : Same(x, y)
      BY <1>2, <1>4 DEF legacyMissing
    <2>2. x.def = y.def
      BY <1>2, <1>4, <2>1 DEF columnDiffIssues
    <2> QED BY <2>1, <2>2 DEF Same
  <1>5. CASE x.kind \in {"index", "foreign_key", "check"}
    BY <1>2, <1>5 DEF legacyMissing
  <1>6. CASE x.kind = "primary_key"
    <2>1. x.def \in { u.def : u \in { v \in wanted : v.kind = "primary_key" } }
      BY <1>6
    <2>2. x.def \in { u.def : u \in { v \in found : v.kind = "primary_key" } }
      BY <1>2, <2>1 DEF primaryKeyIssues
    <2> QED BY <1>6, <2>2
  <1> QED BY <1>3, <1>4, <1>5, <1>6 DEF ItemKinds

LEMMA NoReportSatisfied ==
  ASSUME NEW wanted \in Declarable, NEW found \in SUBSET AllItems, compiledCache \subseteq Declarable,
         ValidateSchemas(wanted, found) = {}
  PROVE  SatisfiedBy(wanted, found)
  <1>1. CASE backend = "atlas"
    <2>1. PICK C \in Declarable :
            C = Compiled(wanted) /\ \A x \in wanted : \E y \in C : y.kind = x.kind /\ y.def = x.def /\ (x.kind # "foreign_key" => y = x)
      BY CompiledAlike
    <2>2. atlasApplyChangeToReport(SchemaDiff(C, found)) = {}
      BY <1>1, <2>1 DEF ValidateSchemas
    <2>3. \A y \in C : y.kind # "attr" => y \in found
      BY <2>2, AtlasReported
    <2> QED BY <2>1, <2>3 DEF SatisfiedBy
  <1>2. CASE backend # "atlas"
    BY <1>2, LegacyReported DEF ValidateSchemas
  <1> QED BY <1>1, <1>2

\* With nothing in sight that only one of them knows, the report and the plan agree.
LEMMA ReportAndPlan ==
  ASSUME NEW wanted \in Declarable, NEW found \in SUBSET AllItems, compiledCache \subseteq Declarable,
         \A x \in wanted \cup found : x.kind # "attr" /\ x.kind \notin unbuildable
  PROVE  ValidateSchemas(wanted, found) = {} <=> PlanSchemaChanges(wanted, found) = <<>>
  <1>1. CASE backend = "atlas"
    <2>1. PICK C \in Declarable : C = Compiled(wanted) /\ \A x \in C : \E y \in wanted : y.kind = x.kind /\ y.def = x.def
      BY CompiledAlike
    <2>2. \A x \in C \cup found : x.kind # "attr" /\ x.kind \notin unbuildable
      BY <2>1
    <2>3. PICK changes : changes = SchemaDiff(C, found)
      OBVIOUS
    <2>4. \A c \in changes : c.op = "add_table" \/ c.item \in C \cup found
      BY <2>3 DEF SchemaDiff
    <2>5. atlasPlanActions(C, changes) = <<>> <=> changes = {}
      BY <2>2, <2>3, <2>4, AtlasGood
    <2>6. atlasApplyChangeToReport(changes) = {} <=> changes = {}
      BY <2>2, <2>4 DEF atlasApplyChangeToReport, atlasApplyTableChangeToDiff
    <2> QED BY <1>1, <2>1, <2>3, <2>5, <2>6 DEF ValidateSchemas, PlanSchemaChanges
  <1>2. CASE backend # "atlas"
    <2>1. legacyReport(wanted, found) = {} <=> buildLegacyMigrationActions(wanted, found) = <<>>
      <3>1. CASE TableItem \notin found
        <4>1. Len(CreateActions(wanted)) > 0
          BY CreateGood
        <4>2. CreateActions(wanted) # <<>>
          BY <4>1
        <4> QED BY <3>1, <4>2 DEF legacyReport, buildLegacyMigrationActions
      <3>2. CASE TableItem \in found
        <4>1. legacyReport(wanted, found) = {} <=>
                legacyMissing(wanted, found) = {} /\ columnDiffIssues(wanted, found) = {} /\ ~primaryKeyIssues(wanted, found)
          BY <3>2 DEF legacyReport
        <4> QED BY <3>2, <4>1, LegacyGood
      <3> QED BY <3>1, <3>2
    <2> QED BY <1>2, <2>1 DEF ValidateSchemas, PlanSchemaChanges
  <1> QED BY <1>1, <1>2

-----------------------------------------------------------------------------
(* Steps. *)

LEMMA MoreSatisfies ==
  ASSUME NEW wanted, NEW d, NEW e, d \subseteq e, SatisfiedBy(wanted, d)
  PROVE  SatisfiedBy(wanted, e)
  BY DEF SatisfiedBy

LEMMA MigratorKeeps ==
  ASSUME NEW s, NEW d, NEW e, d \subseteq e, MigratorGood(s, d)
  PROVE  MigratorGood(s, e)
  <1>1. s.pc = "validated" => SatisfiedBy(s.spec, e \cup s.own)
    <2>1. d \cup s.own \subseteq e \cup s.own
      OBVIOUS
    <2> QED BY <2>1, MoreSatisfies DEF MigratorGood
  <1>2. s.pc = "done" => SatisfiedBy(s.spec, e)
    BY MoreSatisfies DEF MigratorGood
  <1> QED BY <1>1, <1>2 DEF MigratorGood

\* One instance moves on and the table only grows.
LEMMA OneMigrates ==
  ASSUME SchemaInv, NEW m \in Migrators, migrator[m].pc # "done",
         DOMAIN migrator' = Migrators, \A n \in Migrators \ {m} : migrator'[n] = migrator[n],
         MigratorGood(migrator'[m], db'), migrator'[m].spec = migrator[m].spec,
         db \subseteq db', db' \in SUBSET AllItems, OneName(db'), compiledCache' \subseteq Declarable,
         UNCHANGED <<backend, transactional, initially>>,
         transactional = TRUE => \A x \in db' \ db : migrator'[m].pc = "done" /\ Declared(x, migrator[m].spec)
  PROVE  SchemaInv'
  <1>1. \A n \in Migrators : MigratorGood(migrator[n], db)
    BY DEF SchemaInv
  <1>2. \A n \in Migrators : MigratorGood(migrator'[n], db')
    <2> TAKE n \in Migrators
    <2>1. CASE n = m
      BY <2>1
    <2>2. CASE n # m
      BY <1>1, <2>2, MigratorKeeps
    <2> QED BY <2>1, <2>2
  <1>3. backend' \in {"atlas", "legacy"} /\ transactional' \in BOOLEAN /\ initially' \subseteq db'
    BY DEF SchemaInv
  <1>4. ASSUME transactional' = TRUE, NEW x \in db' \ initially'
        PROVE  \E n \in Migrators : migrator'[n].pc = "done" /\ Declared(x, migrator'[n].spec)
    <2>1. CASE x \in db
      <3>1. PICK n \in Migrators : migrator[n].pc = "done" /\ Declared(x, migrator[n].spec)
        BY <1>4, <2>1 DEF SchemaInv
      <3>2. n # m
        BY <3>1
      <3> QED BY <3>1, <3>2
    <2>2. CASE x \notin db
      BY <1>4, <2>2
    <2> QED BY <2>1, <2>2
  <1>5. (\A n \in Migrators : MigratorGood(migrator[n], db))'
    BY <1>2
  <1>6. OneName(db)'
    BY DEF OneName, Same
  <1>7. (transactional = TRUE => \A x \in db \ initially : \E n \in Migrators : migrator[n].pc = "done" /\ Declared(x, migrator[n].spec))'
    BY <1>4
  <1> QED BY <1>3, <1>5, <1>6, <1>7 DEF SchemaInv

LEMMA SchemaStarts == SchemaInit => SchemaInv
  <1> SUFFICES ASSUME SchemaInit PROVE SchemaInv
    OBVIOUS
  <1>1. db \in SUBSET AllItems /\ OneName(db) /\ initially = db
    <2>1. CASE db = {}
      BY <2>1 DEF OneName, SchemaInit
    <2>2. CASE db # {}
      <3>1. PICK S \in Declarable : db = S \cup {TableItem}
        BY <2>2 DEF SchemaInit
      <3>2. S \subseteq AllItems /\ OneName(S) /\ \A x \in S : x.kind # "table"
        BY DeclarableItems
      <3>3. OneName(db)
        BY <3>1, <3>2, SchemaConstants DEF OneName, Same
      <3> QED BY <3>1, <3>2, <3>3 DEF AllItems, SchemaInit
    <2> QED BY <2>1, <2>2
  <1>2. DOMAIN migrator = Migrators
    BY DEF SchemaInit
  <1>3. \A m \in Migrators : MigratorGood(migrator[m], db)
    <2> TAKE m \in Migrators
    <2>1. PICK S \in Declarable : migrator[m] = [pc |-> "idle", spec |-> S, plan |-> <<>>, own |-> {}, gone |-> {}]
      BY DEF SchemaInit
    <2>2. <<>> \in Seq(PlanActions) /\ Len(<<>>) = 0 /\ 1..0 = {}
      OBVIOUS
    <2>3. PlanGood(<<>>, S)
      BY <2>2 DEF PlanGood
    <2>4. migrator[m] \in MigratorRecords
      BY <2>1, <2>2 DEF MigratorRecords
    <2> QED BY <2>1, <2>3, <2>4 DEF MigratorGood, OneName
  <1>4. backend \in {"atlas", "legacy"} /\ transactional \in BOOLEAN /\ compiledCache \subseteq Declarable /\ db \ initially = {}
    BY <1>1 DEF SchemaInit
  <1> QED BY <1>1, <1>2, <1>3, <1>4 DEF SchemaInv

LEMMA PlansStep ==
  ASSUME SchemaInv, NEW m \in Migrators, autoMigrate(m)
  PROVE  SchemaInv'
  <1>1. DOMAIN migrator = Migrators /\ MigratorGood(migrator[m], db) /\ db \in SUBSET AllItems /\ OneName(db) /\ compiledCache \subseteq Declarable
    BY DEF SchemaInv
  <1>2. PICK s : s = migrator[m] /\ s \in MigratorRecords /\ s.pc = "idle"
    BY <1>1 DEF MigratorGood, autoMigrate
  <1>3. PICK plan : plan = PlanSchemaChanges(s.spec, db) /\ PlanGood(plan, s.spec)
    <2>1. s.spec \in Declarable
      BY <1>2 DEF MigratorRecords
    <2> QED BY <1>1, <2>1, PlanIsGood
  <1>4. PICK to \in {"drift", "exec"} : to = IF HasManualActions(plan) THEN "drift" ELSE "exec"
    OBVIOUS
  <1>5. migrator' = [migrator EXCEPT ![m].plan = plan, ![m].pc = to]
    BY <1>2, <1>3, <1>4 DEF autoMigrate
  <1>6. DOMAIN migrator' = Migrators /\ \A n \in Migrators \ {m} : migrator'[n] = migrator[n]
    BY <1>1, <1>5
  <1>7. migrator'[m] = [s EXCEPT !.plan = plan, !.pc = to]
    BY <1>1, <1>2, <1>5
  <1>8. PICK r : r = migrator'[m] /\ r \in MigratorRecords /\ r.plan = plan /\ r.pc = to /\ r.spec = s.spec /\ r.own = s.own
    <2>1. plan \in Seq(PlanActions)
      BY <1>3 DEF PlanGood
    <2> QED BY <1>2, <1>7, <2>1 DEF MigratorRecords
  <1>9. MigratorGood(r, db)
    BY <1>1, <1>2, <1>3, <1>8 DEF MigratorGood
  <1>10. compiledCache' \subseteq Declarable
    <2>1. Compiled(migrator[m].spec) \in Declarable
      BY <1>1, <1>2, CompiledAlike DEF MigratorRecords
    <2> QED BY <1>1, <2>1 DEF autoMigrate
  <1>11. db' = db /\ UNCHANGED <<backend, transactional, initially>>
    BY DEF autoMigrate
  <1> QED BY <1>1, <1>2, <1>6, <1>8, <1>9, <1>10, <1>11, OneMigrates

\* A statement adds what no item of that name was there for.
LEMMA ExecutesStep ==
  ASSUME SchemaInv, NEW m \in Migrators, executeMigrationActions(m)
  PROVE  SchemaInv'
  <1>1. DOMAIN migrator = Migrators /\ MigratorGood(migrator[m], db) /\ db \in SUBSET AllItems /\ OneName(db) /\ compiledCache \subseteq Declarable
        /\ transactional \in BOOLEAN
    BY DEF SchemaInv
  <1>2. PICK s : s = migrator[m] /\ s \in MigratorRecords /\ s.pc = "exec" /\ s.plan # <<>>
    BY <1>1 DEF MigratorGood, executeMigrationActions
  <1>3. s.gone = {} /\ s.own \in SUBSET AllItems /\ s.plan \in Seq(PlanActions) /\ PlanGood(s.plan, s.spec)
        /\ OneName(s.own) /\ \A x \in s.own : Declared(x, s.spec)
    BY <1>1, <1>2 DEF MigratorGood, MigratorRecords
  <1>4. PICK adds : adds = Head(s.plan).adds /\ adds \in SUBSET AllItems /\ OneName(adds) /\ \A x \in adds : Declared(x, s.spec)
    <2>1. Head(s.plan) = s.plan[1] /\ 1 \in 1..Len(s.plan) /\ s.plan[1] \in PlanActions
      BY <1>2, <1>3
    <2> QED BY <1>3, <2>1 DEF PlanGood, PlanActions
  <1>5. Head(s.plan).replaces = FALSE
    <2>1. Head(s.plan) \in PlanActions
      BY <1>2, <1>3
    <2> QED BY <2>1 DEF PlanActions
  <1>6. PlanGood(Tail(s.plan), s.spec)
    <2>1. Tail(s.plan) \in Seq(PlanActions) /\ Len(Tail(s.plan)) = Len(s.plan) - 1
      BY <1>2, <1>3
    <2>2. \A k \in 1..Len(Tail(s.plan)) : Tail(s.plan)[k] = s.plan[k + 1] /\ k + 1 \in 1..Len(s.plan)
      BY <1>2, <1>3, <2>1
    <2> QED BY <1>3, <2>1, <2>2 DEF PlanGood
  <1>7. PICK old : old = { y \in Seen(m) : Head(s.plan).replaces /\ \E x \in Head(s.plan).adds : Same(x, y) } /\ old = {}
    BY <1>5
  <1>8. Seen(m) = db \cup s.own
    BY <1>2, <1>3 DEF Seen
  <1>9. ~\E x \in adds, y \in db \cup s.own : Same(x, y)
    <2>1. ~\E x \in Head(s.plan).adds, y \in Seen(m) \ old : Same(x, y)
      BY <1>2, <1>7 DEF executeMigrationActions
    <2> QED BY <1>4, <1>7, <1>8, <2>1
  <1>10. UNCHANGED <<backend, transactional, initially, compiledCache>>
    BY DEF executeMigrationActions
  <1>11. CASE transactional = TRUE
    <2>1. db' = db /\ migrator' = [migrator EXCEPT ![m].plan = Tail(@), ![m].own = (@ \ old) \cup Head(s.plan).adds, ![m].gone = @ \cup old]
      BY <1>2, <1>7, <1>11 DEF executeMigrationActions
    <2>2. DOMAIN migrator' = Migrators /\ \A n \in Migrators \ {m} : migrator'[n] = migrator[n]
      BY <1>1, <2>1
    <2>3. migrator'[m] = [s EXCEPT !.plan = Tail(s.plan), !.own = s.own \cup adds, !.gone = {}]
      BY <1>1, <1>2, <1>3, <1>4, <1>7, <2>1 DEF MigratorRecords
    <2>4. PICK r : r = migrator'[m] /\ r \in MigratorRecords /\ r.plan = Tail(s.plan) /\ r.pc = s.pc /\ r.spec = s.spec /\ r.own = s.own \cup adds
      <3>1. Tail(s.plan) \in Seq(PlanActions)
        BY <1>6 DEF PlanGood
      <3> QED BY ZenonT(60), <1>2, <1>3, <1>4, <2>3, <3>1 DEF MigratorRecords
    <2>5. OneName(s.own \cup adds)
      BY <1>3, <1>4, <1>9 DEF OneName, Same
    <2>6. MigratorGood(r, db)
      BY <1>2, <1>3, <1>4, <1>6, <2>4, <2>5 DEF MigratorGood
    <2> QED BY <1>1, <1>2, <1>10, <2>1, <2>2, <2>4, <2>6, OneMigrates
  <1>12. CASE transactional = FALSE
    <2>1. db' = db \cup adds /\ migrator' = [migrator EXCEPT ![m].plan = Tail(@)]
      BY <1>2, <1>4, <1>7, <1>12 DEF executeMigrationActions
    <2>2. DOMAIN migrator' = Migrators /\ \A n \in Migrators \ {m} : migrator'[n] = migrator[n]
      BY <1>1, <2>1
    <2>3. migrator'[m] = [s EXCEPT !.plan = Tail(s.plan)]
      BY <1>1, <1>2, <2>1
    <2>4. PICK r : r = migrator'[m] /\ r \in MigratorRecords /\ r.plan = Tail(s.plan) /\ r.pc = s.pc /\ r.spec = s.spec /\ r.own = s.own
      <3>1. Tail(s.plan) \in Seq(PlanActions)
        BY <1>6 DEF PlanGood
      <3> QED BY <1>2, <2>3, <3>1 DEF MigratorRecords
    <2>5. OneName(db')
      BY <1>1, <1>4, <1>9, <2>1 DEF OneName, Same
    <2>6. MigratorGood(r, db')
      BY <1>2, <1>3, <1>6, <2>4 DEF MigratorGood
    <2>7. db \subseteq db' /\ db' \in SUBSET AllItems
      BY <1>1, <1>4, <2>1
    <2> QED BY <1>1, <1>2, <1>10, <1>12, <2>2, <2>4, <2>5, <2>6, <2>7, OneMigrates
  <1> QED BY <1>1, <1>11, <1>12

\* An instance that fails or meets drift keeps nothing of its transaction.
LEMMA GivesUpStep ==
  ASSUME SchemaInv, NEW m \in Migrators, NEW to \in {"drift", "failed"}, migrator[m].pc # "done",
         migrator' = [migrator EXCEPT ![m].pc = to, ![m].own = {}, ![m].gone = {}],
         UNCHANGED <<backend, unbuildable, transactional, db, initially, compiledCache>>
  PROVE  SchemaInv'
  <1>1. DOMAIN migrator = Migrators /\ MigratorGood(migrator[m], db) /\ db \in SUBSET AllItems /\ OneName(db) /\ compiledCache \subseteq Declarable
    BY DEF SchemaInv
  <1>2. PICK s : s = migrator[m] /\ s \in MigratorRecords
    BY <1>1 DEF MigratorGood
  <1>3. DOMAIN migrator' = Migrators /\ \A n \in Migrators \ {m} : migrator'[n] = migrator[n]
    BY <1>1
  <1>4. migrator'[m] = [s EXCEPT !.pc = to, !.own = {}, !.gone = {}]
    BY <1>1, <1>2
  <1>5. PICK r : r = migrator'[m] /\ r \in MigratorRecords /\ r.plan = s.plan /\ r.pc = to /\ r.spec = s.spec /\ r.own = {}
    <2>1. PICK r : r = [s EXCEPT !.pc = to, !.own = {}, !.gone = {}]
      OBVIOUS
    <2>2. r.plan = s.plan /\ r.pc = to /\ r.spec = s.spec /\ r.own = {}
      BY <1>2, <2>1 DEF MigratorRecords
    <2>3. to \in {"idle", "exec", "validated", "drift", "failed", "done"} /\ {} \in SUBSET AllItems
      OBVIOUS
    <2>4. r \in MigratorRecords
      BY <1>2, <2>1, <2>3 DEF MigratorRecords
    <2> QED BY <1>4, <2>1, <2>2, <2>4
  <1>6. MigratorGood(r, db)
    BY <1>1, <1>2, <1>5 DEF MigratorGood, OneName
  <1> QED BY <1>1, <1>2, <1>3, <1>5, <1>6, OneMigrates

LEMMA ValidatesStep ==
  ASSUME SchemaInv, NEW m \in Migrators, validateAppliedMigration(m)
  PROVE  SchemaInv'
  <1>1. DOMAIN migrator = Migrators /\ MigratorGood(migrator[m], db) /\ db \in SUBSET AllItems /\ OneName(db) /\ compiledCache \subseteq Declarable
    BY DEF SchemaInv
  <1>2. PICK s : s = migrator[m] /\ s \in MigratorRecords /\ s.pc = "exec"
    BY <1>1 DEF MigratorGood, validateAppliedMigration
  <1>3. UNCHANGED <<backend, unbuildable, transactional, db, initially, compiledCache>>
    BY DEF validateAppliedMigration
  <1>4. CASE ValidateSchemas(migrator[m].spec, Seen(m)) = {}
    <2>1. migrator' = [migrator EXCEPT ![m].pc = "validated"]
      BY <1>4 DEF validateAppliedMigration, Moves
    <2>2. s.spec \in Declarable /\ s.gone = {} /\ s.own \in SUBSET AllItems
      BY <1>2 DEF MigratorRecords
    <2>3. Seen(m) = db \cup s.own
      BY <1>2, <2>2 DEF Seen
    <2>4. SatisfiedBy(s.spec, db \cup s.own)
      <3>1. db \cup s.own \in SUBSET AllItems
        BY <1>1, <2>2
      <3>2. ValidateSchemas(s.spec, db \cup s.own) = {}
        BY <1>2, <1>4, <2>3
      <3> QED BY <1>1, <2>2, <3>1, <3>2, NoReportSatisfied
    <2>5. DOMAIN migrator' = Migrators /\ \A n \in Migrators \ {m} : migrator'[n] = migrator[n]
      BY <1>1, <2>1
    <2>6. migrator'[m] = [s EXCEPT !.pc = "validated"]
      BY <1>1, <1>2, <2>1
    <2>7. PICK r : r = migrator'[m] /\ r \in MigratorRecords /\ r.plan = s.plan /\ r.pc = "validated" /\ r.spec = s.spec /\ r.own = s.own
      BY <1>2, <2>6 DEF MigratorRecords
    <2>8. MigratorGood(r, db)
      BY <1>1, <1>2, <2>4, <2>7 DEF MigratorGood
    <2> QED BY <1>1, <1>2, <1>3, <2>5, <2>7, <2>8, OneMigrates
  <1>5. CASE ValidateSchemas(migrator[m].spec, Seen(m)) # {}
    <2>1. migrator' = [migrator EXCEPT ![m].pc = "drift", ![m].own = {}, ![m].gone = {}]
      BY <1>5 DEF validateAppliedMigration
    <2> QED BY <1>2, <1>3, <2>1, GivesUpStep
  <1> QED BY <1>4, <1>5

\* A commit adds what no other transaction has committed under the same name.
LEMMA CommitsStep ==
  ASSUME SchemaInv, NEW m \in Migrators, finalizeMigration(m)
  PROVE  SchemaInv'
  <1>1. DOMAIN migrator = Migrators /\ MigratorGood(migrator[m], db) /\ db \in SUBSET AllItems /\ OneName(db) /\ compiledCache \subseteq Declarable
    BY DEF SchemaInv
  <1>2. PICK s : s = migrator[m] /\ s \in MigratorRecords /\ s.pc = "validated"
    BY <1>1 DEF MigratorGood, finalizeMigration
  <1>3. s.gone = {} /\ s.own \in SUBSET AllItems /\ OneName(s.own) /\ (\A x \in s.own : Declared(x, s.spec))
        /\ SatisfiedBy(s.spec, db \cup s.own)
    BY <1>1, <1>2 DEF MigratorGood, MigratorRecords
  <1>4. db' = db \cup s.own /\ ~\E x \in s.own, y \in db : Same(x, y)
    BY <1>2, <1>3 DEF finalizeMigration
  <1>5. migrator' = [migrator EXCEPT ![m].pc = "done", ![m].own = {}, ![m].gone = {}]
        /\ UNCHANGED <<backend, transactional, initially, compiledCache>>
    BY DEF finalizeMigration
  <1>6. DOMAIN migrator' = Migrators /\ \A n \in Migrators \ {m} : migrator'[n] = migrator[n]
    BY <1>1, <1>5
  <1>7. migrator'[m] = [s EXCEPT !.pc = "done", !.own = {}, !.gone = {}]
    BY <1>1, <1>2, <1>5
  <1>8. PICK r : r = migrator'[m] /\ r \in MigratorRecords /\ r.plan = s.plan /\ r.pc = "done" /\ r.spec = s.spec /\ r.own = {}
    BY <1>2, <1>7 DEF MigratorRecords
  <1>9. MigratorGood(r, db')
    BY <1>1, <1>2, <1>3, <1>4, <1>8 DEF MigratorGood, OneName
  <1>10. OneName(db')
    BY <1>1, <1>3, <1>4 DEF OneName, Same
  <1>11. db \subseteq db' /\ db' \in SUBSET AllItems /\ \A x \in db' \ db : r.pc = "done" /\ Declared(x, s.spec)
    BY <1>1, <1>3, <1>4, <1>8
  <1> QED BY <1>1, <1>2, <1>5, <1>6, <1>8, <1>9, <1>10, <1>11, OneMigrates

LEMMA SchemaStep == SchemaInv /\ [SchemaNext]_schemaVars => SchemaInv'
  <1> SUFFICES ASSUME SchemaInv, [SchemaNext]_schemaVars PROVE SchemaInv'
    OBVIOUS
  <1>1. CASE UNCHANGED schemaVars
    BY <1>1 DEF schemaVars, SchemaInv, MigratorGood, PlanGood, SatisfiedBy, Declared, OneName, Same
  <1>2. ASSUME NEW m \in Migrators, MigrationFails(m) PROVE SchemaInv'
    <2>1. migrator[m].pc # "done" /\ migrator' = [migrator EXCEPT ![m].pc = "failed", ![m].own = {}, ![m].gone = {}]
          /\ UNCHANGED <<backend, unbuildable, transactional, db, initially, compiledCache>>
      BY <1>2 DEF MigrationFails
    <2> QED BY <2>1, GivesUpStep
  <1> QED BY <1>1, <1>2, PlansStep, ExecutesStep, ValidatesStep, CommitsStep DEF SchemaNext

LEMMA SchemaInvSuffices == SchemaInv => SchemasExact
  <1> SUFFICES ASSUME SchemaInv PROVE SchemasExact
    OBVIOUS
  <1>1. NeverDestroys
    BY DEF SchemaInv, NeverDestroys, OneName
  <1>2. DoneMeansSatisfied
    <2> SUFFICES ASSUME NEW m \in Migrators, migrator[m].pc = "done" PROVE Satisfied(m)
      BY DEF DoneMeansSatisfied
    <2>1. SatisfiedBy(migrator[m].spec, db)
      BY DEF SchemaInv, MigratorGood
    <2> QED BY <2>1 DEF SatisfiedBy, Satisfied
  <1>3. AllOrNothing
    BY DEF SchemaInv, AllOrNothing, Declared
  <1>4. ReportMatchesPlan
    <2> SUFFICES ASSUME NEW m \in Migrators, \A x \in migrator[m].spec \cup db : x.kind # "attr" /\ x.kind \notin unbuildable
                 PROVE  ValidateSchemas(migrator[m].spec, db) = {} <=> PlanSchemaChanges(migrator[m].spec, db) = <<>>
      BY DEF ReportMatchesPlan
    <2>1. migrator[m].spec \in Declarable
      BY DEF SchemaInv, MigratorGood, MigratorRecords
    <2>2. db \in SUBSET AllItems /\ compiledCache \subseteq Declarable
      BY DEF SchemaInv
    <2> QED BY <2>1, <2>2, ReportAndPlan
  <1> QED BY <1>1, <1>2, <1>3, <1>4 DEF SchemasExact

\* Whatever instances of different versions of a program migrate at once, with or
\* without transactions: nothing that was in the table is changed or defined twice,
\* an instance told that it succeeded finds what it declares, one that failed leaves
\* nothing behind in a transaction, and the report says the same as the plan.
THEOREM SchemasExactAlways == SchemaSpec => []SchemasExact
  <1>1. SchemaInit => SchemaInv
    BY SchemaStarts
  <1>2. SchemaInv /\ [SchemaNext]_schemaVars => SchemaInv'
    BY SchemaStep
  <1>3. SchemaInv => SchemasExact
    BY SchemaInvSuffices
  <1> QED BY <1>1, <1>2, <1>3, PTL DEF SchemaSpec

-----------------------------------------------------------------------------
(* dbx/schema and mapper: bound columns, inserted entities, scanned rows. *)

ColumnMetas == [goType : {"int64", "string", "int32"}, pk : BOOLEAN, auto : BOOLEAN, strategy : Strategies]

\* What the tag says: the type of a primary key decides its strategy.
LEMMA TagResolved ==
  ASSUME NEW d \in IDDeclarations
  PROVE  /\ resolveColumnMeta(d) \in ColumnMetas /\ resolveColumnMeta(d).pk = d.tagPk
         /\ resolveColumnMeta(d).strategy = (IF d.tagPk THEN inferIDStrategyFromType(d.goType) ELSE "unset")
         /\ resolveColumnMeta(d).strategy = "db_auto" => resolveColumnMeta(d).auto = TRUE
         /\ resolveColumnMeta(d).strategy = "uuid" => resolveColumnMeta(d).auto = FALSE
  <1>1. PICK m : m = [goType |-> d.goType, pk |-> d.tagPk, auto |-> d.tagAuto, strategy |-> "unset"]
    OBVIOUS
  <1>2. m \in ColumnMetas /\ m.pk = d.tagPk /\ m.strategy = "unset" /\ m.goType = d.goType
    BY <1>1 DEF ColumnMetas, IDDeclarations, Strategies
  <1>3. resolveColumnMeta(d) = normalizeIDPolicy(m)
    BY <1>1 DEF resolveColumnMeta
  <1>4. CASE d.tagPk = FALSE
    BY <1>2, <1>3, <1>4 DEF normalizeIDPolicy
  <1>5. CASE d.tagPk = TRUE
    <2>1. normalizeIDPolicy(m) = validateIDStrategy([m EXCEPT !.strategy = inferIDStrategyFromType(m.goType)])
      BY <1>2, <1>5 DEF normalizeIDPolicy
    <2>2. CASE d.goType = "int64"
      <3>1. [m EXCEPT !.strategy = "db_auto"] \in ColumnMetas
        BY <1>2 DEF ColumnMetas, Strategies
      <3>2. resolveColumnMeta(d) = [[m EXCEPT !.strategy = "db_auto"] EXCEPT !.auto = TRUE]
        BY <1>2, <1>3, <2>1, <2>2 DEF inferIDStrategyFromType, validateIDStrategy, ColumnMetas
      <3> QED BY <1>2, <1>5, <2>2, <3>1, <3>2 DEF ColumnMetas, inferIDStrategyFromType
    <2>3. CASE d.goType = "string"
      <3>1. [m EXCEPT !.strategy = "uuid"] \in ColumnMetas
        BY <1>2 DEF ColumnMetas, Strategies
      <3>2. resolveColumnMeta(d) = [[m EXCEPT !.strategy = "uuid"] EXCEPT !.auto = FALSE]
        BY <1>2, <1>3, <2>1, <2>3 DEF inferIDStrategyFromType, validateIDStrategy, ColumnMetas
      <3> QED BY <1>2, <1>5, <2>3, <3>1, <3>2 DEF ColumnMetas, inferIDStrategyFromType
    <2>4. CASE d.goType = "int32"
      <3>1. resolveColumnMeta(d) = [m EXCEPT !.strategy = "unset"]
        BY <1>2, <1>3, <2>1, <2>4 DEF inferIDStrategyFromType, validateIDStrategy, ColumnMetas
      <3> QED BY <1>2, <1>5, <2>4, <3>1 DEF ColumnMetas, inferIDStrategyFromType, Strategies
    <2> QED BY <2>2, <2>3, <2>4 DEF IDDeclarations
  <1> QED BY <1>4, <1>5 DEF IDDeclarations

\* Binding keeps the type; the strategy of the option or the marker goes before the
\* tag's, and decides what becomes of AutoIncrement.
LEMMA ColumnBound ==
  ASSUME NEW c \in ColumnMetas, NEW d \in IDDeclarations, d.strategy = "unset" \/ d.marker = TRUE \/ c.strategy = d.strategy
  PROVE  LET b == resolveColumnMeta(d)
             s == IF d.strategy = "unset" THEN c.strategy ELSE d.strategy
             m == d.marker = TRUE /\ d.strategy # "unset"
         IN /\ BindColumn(c, d) \in ColumnMetas /\ BindColumn(c, d).goType = c.goType
            /\ BindColumn(c, d).pk = (c.pk = TRUE \/ m \/ d.tagPk = TRUE)
            /\ BindColumn(c, d).auto = (IF s = "unset" THEN c.auto = TRUE \/ b.auto = TRUE ELSE s = "db_auto")
            /\ BindColumn(c, d).strategy = (IF s = "unset" THEN b.strategy ELSE s)
  <1>1. PICK b \in ColumnMetas : b = resolveColumnMeta(d) /\ b.pk = d.tagPk
    BY TagResolved
  <1>2. PICK s \in Strategies : s = IF d.strategy = "unset" THEN c.strategy ELSE d.strategy
    BY DEF ColumnMetas, IDDeclarations
  <1>3. PICK m \in BOOLEAN : m = (d.marker = TRUE /\ d.strategy # "unset")
    OBVIOUS
  <1>4. PICK own : own = IF d.marker /\ d.strategy # "unset" THEN [c EXCEPT !.pk = TRUE, !.strategy = d.strategy] ELSE c
    OBVIOUS
  <1>5. own \in ColumnMetas /\ own.goType = c.goType /\ own.auto = c.auto /\ own.strategy = s /\ own.pk = (c.pk = TRUE \/ m)
    <2>1. CASE m = TRUE
      <3>1. own = [c EXCEPT !.pk = TRUE, !.strategy = d.strategy] /\ s = d.strategy
        BY <1>2, <1>3, <1>4, <2>1
      <3> QED BY <1>2, <2>1, <3>1 DEF ColumnMetas
    <2>2. CASE m = FALSE
      <3>1. own = c /\ s = c.strategy
        BY <1>2, <1>3, <1>4, <2>2 DEF IDDeclarations
      <3> QED BY <2>2, <3>1 DEF ColumnMetas
    <2> QED BY <2>1, <2>2
  <1>6. PICK pk \in BOOLEAN : pk = (own.pk \/ b.pk)
    OBVIOUS
  <1>7. PICK auto \in BOOLEAN : auto = (IF s = "unset" THEN own.auto \/ b.auto ELSE s = "db_auto")
    BY <1>1, <1>5 DEF ColumnMetas
  <1>8. mergeColumnFlags(own, b) = [own EXCEPT !.pk = pk, !.auto = auto]
    BY <1>1, <1>5, <1>6, <1>7 DEF mergeColumnFlags, ColumnMetas
  <1>9. PICK t \in Strategies : t = IF s = "unset" THEN b.strategy ELSE s
    BY <1>1, <1>2 DEF ColumnMetas
  <1>10. BindColumn(c, d) = [[own EXCEPT !.pk = pk, !.auto = auto] EXCEPT !.strategy = t]
    BY <1>1, <1>4, <1>5, <1>8, <1>9 DEF BindColumn, finalizeColumnIDAndUUID, ColumnMetas
  <1>11. /\ BindColumn(c, d) \in ColumnMetas /\ BindColumn(c, d).goType = c.goType /\ BindColumn(c, d).pk = pk
         /\ BindColumn(c, d).auto = auto /\ BindColumn(c, d).strategy = t
    BY <1>5, <1>10 DEF ColumnMetas
  <1>12. pk = (c.pk = TRUE \/ m \/ d.tagPk = TRUE)
    BY <1>1, <1>5, <1>6 DEF ColumnMetas, IDDeclarations
  <1>13. auto = (IF s = "unset" THEN c.auto = TRUE \/ b.auto = TRUE ELSE s = "db_auto")
    BY <1>1, <1>5, <1>7 DEF ColumnMetas
  <1> QED BY <1>1, <1>2, <1>3, <1>9, <1>11, <1>12, <1>13

\* AutoOnTypedKey of a declaration: AutoIncrement() on a key whose strategy comes from its type.
TypedAuto(d) == d.strategy = "unset" /\ d.tagPk = TRUE /\ d.goType = "string" /\ d.optAuto = TRUE

\* A bound column, and what binding it again would make of it.
LEMMA BoundAgain ==
  ASSUME NEW d \in IDDeclarations, NEW c, c = BindColumn(NewColumn(d), d)
  PROVE  /\ c \in ColumnMetas
         /\ ~TypedAuto(d) => BindColumn(c, d) = c
         /\ ~TypedAuto(d) /\ c.strategy \in {"snowflake", "uuid"} => c.auto = FALSE
  <1>1. PICK n : n = NewColumn(d) /\ n \in ColumnMetas /\ n.auto = d.optAuto /\ n.strategy = (IF d.marker = TRUE THEN "unset" ELSE d.strategy)
    BY DEF NewColumn, ColumnMetas, IDDeclarations, Strategies
  <1>2. PICK b \in ColumnMetas :
          /\ b = resolveColumnMeta(d)
          /\ b.strategy = (IF d.tagPk THEN inferIDStrategyFromType(d.goType) ELSE "unset")
          /\ b.strategy = "db_auto" => b.auto = TRUE
          /\ b.strategy = "uuid" => b.auto = FALSE
    BY TagResolved
  <1>3. PICK s \in Strategies : s = IF d.strategy = "unset" THEN n.strategy ELSE d.strategy
    BY <1>1 DEF ColumnMetas, IDDeclarations
  <1>4. s = d.strategy
    BY <1>1, <1>3
  <1>5. PICK m \in BOOLEAN : m = (d.marker = TRUE /\ d.strategy # "unset")
    OBVIOUS
  <1>6. /\ c \in ColumnMetas /\ c.goType = n.goType
        /\ c.pk = (n.pk = TRUE \/ m \/ d.tagPk = TRUE)
        /\ c.auto = (IF s = "unset" THEN n.auto = TRUE \/ b.auto = TRUE ELSE s = "db_auto")
        /\ c.strategy = (IF s = "unset" THEN b.strategy ELSE s)
    BY <1>1, <1>2, <1>3, <1>5, ColumnBound DEF IDDeclarations
  <1>7. ASSUME ~TypedAuto(d), c.strategy \in {"snowflake", "uuid"} PROVE c.auto = FALSE
    <2>1. CASE s = "unset"
      <3>1. b.strategy = "uuid" /\ d.tagPk = TRUE /\ d.goType = "string"
        BY <1>2, <1>6, <1>7, <2>1 DEF inferIDStrategyFromType, IDDeclarations
      <3>2. n.auto # TRUE /\ b.auto = FALSE
        BY <1>1, <1>2, <1>4, <1>7, <2>1, <3>1 DEF TypedAuto
      <3> QED BY <1>6, <2>1, <3>2
    <2>2. CASE s # "unset"
      BY <1>6, <1>7, <2>2
    <2> QED BY <2>1, <2>2
  <1>8. ASSUME ~TypedAuto(d) PROVE BindColumn(c, d) = c
    <2>1. PICK t \in Strategies : t = IF d.strategy = "unset" THEN c.strategy ELSE d.strategy
      BY <1>6 DEF ColumnMetas, IDDeclarations
    <2>2. t = c.strategy
      BY <1>4, <1>6, <2>1
    <2>3. PICK e : e = BindColumn(c, d)
      OBVIOUS
    <2>4. /\ e \in ColumnMetas /\ e.goType = c.goType
          /\ e.pk = (c.pk = TRUE \/ m \/ d.tagPk = TRUE)
          /\ e.auto = (IF t = "unset" THEN c.auto = TRUE \/ b.auto = TRUE ELSE t = "db_auto")
          /\ e.strategy = (IF t = "unset" THEN b.strategy ELSE t)
      <3>1. d.strategy = "unset" \/ d.marker = TRUE \/ c.strategy = d.strategy
        BY <1>4, <1>6
      <3> QED BY ZenonT(60), <1>2, <1>5, <1>6, <2>1, <2>3, <3>1, ColumnBound
    <2>5. e.pk = c.pk
      BY <1>6, <2>4 DEF ColumnMetas
    <2>6. e.strategy = c.strategy
      BY <1>4, <1>6, <2>2, <2>4
    <2>7. e.auto = c.auto
      <3>1. CASE t = "unset"
        <4>1. s = "unset"
          BY <1>6, <2>2, <3>1
        <4> QED BY <1>6, <2>4, <3>1, <4>1 DEF ColumnMetas
      <3>2. CASE t = "db_auto"
        <4>1. s = "unset" => b.auto = TRUE
          BY <1>2, <1>6, <2>2, <3>2
        <4> QED BY <1>6, <2>2, <2>4, <3>2, <4>1
      <3>3. CASE t \in {"snowflake", "uuid"}
        BY <1>7, <1>8, <2>2, <2>4, <3>3
      <3> QED BY <3>1, <3>2, <3>3 DEF Strategies
    <2> QED BY <1>6, <2>3, <2>4, <2>5, <2>6, <2>7 DEF ColumnMetas
  <1> QED BY <1>6, <1>7, <1>8

-----------------------------------------------------------------------------
(* Values of fields. *)

InField(v, f) == v \in Instants \/ (v = Null /\ f.ptr = TRUE)

\* What the codec takes it gives back, to its unit.
LEMMA CodecReturns ==
  ASSUME NEW f \in Layouts, NEW v, InField(v, f), CodecEncode(f, v) # Refused
  PROVE  CodecDecode(f, CodecEncode(f, v)) = IF v = Null THEN Null ELSE (v \div UnitOf[f.codec]) * UnitOf[f.codec]
  <1>1. UnitOf[f.codec] \in Nat \ {0} /\ Null \notin Nat /\ Instants \subseteq Nat
    BY EntityConstants DEF Layouts, Codecs
  <1>2. CASE v = Null
    <2>0. v \notin Instants
      BY <1>1, <1>2
    <2>1. f.ptr = TRUE
      BY <2>0 DEF InField
    <2> QED BY <1>2, <2>1 DEF CodecEncode, CodecDecode, resetFieldValue, ZeroOf
  <1>3. CASE v # Null
    <2>1. v \in Nat
      BY <1>1, <1>3 DEF InField
    <2>2. CodecEncode(f, v) = v \div UnitOf[f.codec]
      BY <1>3 DEF CodecEncode
    <2>3. v \div UnitOf[f.codec] \in Nat
      BY <1>1, <2>1
    <2> QED BY <1>1, <1>3, <2>2, <2>3 DEF CodecDecode, assignDecodedValue
  <1> QED BY <1>2, <1>3

LEMMA WalkedInField ==
  ASSUME NEW e, NEW f \in Layouts, InField(e.val, f)
  PROVE  InField(walkFieldValue(e, f), f)
  BY EntityConstants DEF InField, walkFieldValue, ZeroOf, Layouts

-----------------------------------------------------------------------------
(* The derived table. *)

LEMMA TableDerived ==
  ASSUME NEW s \in SchemaDeclarations \cup {PlainSchema}
  PROVE  /\ s.unique => derivePrimaryKey(s) = <<"a">> \/ <<TRUE, <<"a">>>> \in { i[1] : i \in deriveIndexes(s) } \/ s.pk
         /\ \A i, j \in deriveIndexes(s) : i[1] = j[1] => i = j
         /\ \A u \in s.named : \E i \in deriveIndexes(s) : i[1] = IndexKey(u, <<"a">>)
         /\ s.ref # "none" => deriveForeignKeys(s) = {<<s.ref, s.onDelete>>}
         /\ Cardinality(deriveForeignKeys(s)) <= 2
  <1>0. s.pk \in BOOLEAN /\ s.unique \in BOOLEAN /\ s.indexed \in BOOLEAN /\ s.named \in SUBSET BOOLEAN
    <2>1. CASE s = PlainSchema
      BY <2>1 DEF PlainSchema
    <2>2. CASE s \in SchemaDeclarations
      BY <2>2 DEF SchemaDeclarations
    <2> QED BY <2>1, <2>2
  <1> DEFINE derived == IF shouldDeriveColumnIndex(s) THEN {<<IndexKey(s.unique, <<"a">>), "derived">>} ELSE {}
             named == { <<IndexKey(u, <<"a">>), "named">> : u \in s.named }
  <1>1. deriveIndexes(s) = derived \cup { i \in named : \A d \in derived : d[1] # i[1] }
    BY DEF deriveIndexes
  <1>2. ASSUME s.unique, ~s.pk PROVE <<TRUE, <<"a">>>> \in { i[1] : i \in deriveIndexes(s) }
    <2>1. s.unique = TRUE /\ s.pk = FALSE
      BY <1>0, <1>2
    <2>2. <<IndexKey(TRUE, <<"a">>), "derived">> \in derived
      BY <2>1 DEF shouldDeriveColumnIndex
    <2>3. PICK i \in deriveIndexes(s) : i = <<IndexKey(TRUE, <<"a">>), "derived">>
      <3> HIDE DEF derived, named
      <3> QED BY <1>1, <2>2
    <2>4. i[1] = <<TRUE, <<"a">>>>
      BY <2>3 DEF IndexKey
    <2> QED BY <2>4
  <1>3. ASSUME NEW i \in deriveIndexes(s), NEW j \in deriveIndexes(s), i[1] = j[1] PROVE i = j
    <2>1. \A x, y \in derived : x = y
      OBVIOUS
    <2>2. \A x, y \in named : x[1] = y[1] => x = y
      <3>1. \A x \in named : \E k : x = <<k, "named">>
        OBVIOUS
      <3> HIDE DEF named
      <3> SUFFICES ASSUME NEW x \in named, NEW y \in named, x[1] = y[1] PROVE x = y
        OBVIOUS
      <3>2. PICK k, l : x = <<k, "named">> /\ y = <<l, "named">>
        BY <3>1
      <3> QED BY <3>2
    <2> HIDE DEF derived, named
    <2> QED BY <1>1, <1>3, <2>1, <2>2
  <1>4. ASSUME NEW u \in s.named PROVE \E i \in deriveIndexes(s) : i[1] = IndexKey(u, <<"a">>)
    <2>1. PICK x : x = <<IndexKey(u, <<"a">>), "named">>
      OBVIOUS
    <2>2. x[1] = IndexKey(u, <<"a">>) /\ x \in named
      BY <2>1
    <2> HIDE DEF derived, named
    <2> QED BY <1>1, <2>2
  <1>5. Cardinality(deriveForeignKeys(s)) <= 2
    <2>1. CASE s.ref # "none"
      <3>1. deriveForeignKeys(s) = {<<s.ref, s.onDelete>>} /\ Cardinality({<<s.ref, s.onDelete>>}) = 1
        BY <2>1, FS_Singleton DEF deriveForeignKeys
      <3> QED BY <3>1
    <2>2. CASE s.ref = "none"
      <3>1. DOMAIN s.rels \subseteq {1, 2}
        <4>1. CASE s = PlainSchema
          BY <4>1 DEF PlainSchema
        <4>2. CASE s \in SchemaDeclarations
          BY <4>2 DEF SchemaDeclarations
        <4> QED BY <4>1, <4>2
      <3>2. PICK x, y : x = <<s.rels[1].target, "no action">> /\ y = <<s.rels[2].target, "no action">>
        OBVIOUS
      <3>3. deriveForeignKeys(s) \subseteq {x, y}
        BY <2>2, <3>1, <3>2 DEF deriveForeignKeys
      <3>4. IsFiniteSet({x}) /\ Cardinality({x}) = 1
        BY FS_Singleton
      <3>5. {x, y} = {x} \cup {y}
        OBVIOUS
      <3>6. IsFiniteSet({x, y}) /\ Cardinality({x, y}) <= 2
        BY <3>4, <3>5, FS_AddElement
      <3>7. Cardinality(deriveForeignKeys(s)) <= Cardinality({x, y}) /\ Cardinality(deriveForeignKeys(s)) \in Nat /\ Cardinality({x, y}) \in Nat
        BY <3>3, <3>6, FS_Subset, FS_CardinalityType
      <3> QED BY <3>6, <3>7
    <2> QED BY <2>1, <2>2
  <1>6. s.ref # "none" => deriveForeignKeys(s) = {<<s.ref, s.onDelete>>}
    BY DEF deriveForeignKeys
  <1> HIDE DEF derived, named
  <1> QED BY <1>2, <1>3, <1>4, <1>5, <1>6

-----------------------------------------------------------------------------
(* Steps. *)

ColumnInv ==
  /\ decl \in IDDeclarations /\ col = BindColumn(NewColumn(decl), decl) /\ rebound \in {col, BindColumn(col, decl)}
  /\ schemaDecl \in SchemaDeclarations \cup {PlainSchema} /\ layout \in Layouts

\* The row holds what the codec made of the entity's field.
RowInv ==
  /\ lastWrite \in {"none", "inserted", "updated", "refused"} /\ InField(made.val, layout)
  /\ {"id", "val", "emb"} \subseteq DOMAIN made
  /\ lastWrite = "none" => rowOf = <<>>
  /\ lastWrite = "inserted" => {"id", "val"} \subseteq DOMAIN rowOf[1]
  /\ InsertedIDKnown
  /\ lastWrite \in {"inserted", "updated"} /\ layout.ins = TRUE =>
       rowOf[1].val = boundFieldValue(made, layout) /\ rowOf[1].val # Refused

ScanGood(s) ==
  /\ {"pc", "sig", "plan", "got", "of"} \subseteq DOMAIN s
  /\ s.pc = "built" => s.plan = newScanPlan(s.sig)
  /\ s.pc = "done" => s.of # <<>> /\ s.got[1].val = CodecDecode(layout, s.of[1].val)
ScanInv ==
  /\ PlansFit /\ DOMAIN scanning = Scanners /\ \A r \in Scanners : ScanGood(scanning[r])
  /\ \A r \in Scanners : scanning[r].pc # "idle" => rowOf # <<>>

EntityInv == ColumnInv /\ RowInv /\ ScanInv

LEMMA EntitiesStart == EntitiesInit => EntityInv
  <1> SUFFICES ASSUME EntitiesInit PROVE EntityInv
    OBVIOUS
  <1>1. PlainID \in IDDeclarations /\ PlainLayout \in Layouts
    BY EntityConstants DEF PlainID, IDDeclarations, Strategies, PlainLayout, Layouts, Codecs
  <1>2. ColumnInv
    BY <1>1 DEF EntitiesInit, ColumnInv
  <1>3. RowInv
    <2>1. made = [id |-> "zero", val |-> 0, emb |-> TRUE] /\ rowOf = <<>> /\ lastWrite = "none"
      BY DEF EntitiesInit
    <2>2. InField(made.val, layout) /\ {"id", "val", "emb"} \subseteq DOMAIN made
      BY <2>1, EntityConstants DEF InField
    <2> QED BY <2>1, <2>2 DEF RowInv, InsertedIDKnown
  <1>4. ScanInv
    <2>1. plans = <<>> /\ scanning = [r \in Scanners |-> NotScanning]
      BY DEF EntitiesInit
    <2>2. PlansFit
      BY <2>1 DEF PlansFit
    <2>3. ScanGood(NotScanning) /\ NotScanning.pc = "idle"
      BY DEF ScanGood, NotScanning
    <2> QED BY <2>1, <2>2, <2>3 DEF ScanInv
  <1> QED BY <1>2, <1>3, <1>4 DEF EntityInv

LEMMA ColumnsKept ==
  ASSUME ColumnInv, UNCHANGED <<decl, col, rebound, schemaDecl, layout>>
  PROVE  ColumnInv'
  BY DEF ColumnInv

LEMMA RowsKept ==
  ASSUME RowInv, UNCHANGED <<decl, col, layout, made, rowOf, lastWrite>>
  PROVE  RowInv'
  BY DEF RowInv, InsertedIDKnown, insertsID, shouldGenerateID, AutoOnTypedKey, InField

\* Readers keep what they have when a row is written.
LEMMA ScansKept ==
  ASSUME ScanInv, UNCHANGED <<layout, plans, scanning>>, rowOf # <<>> => rowOf' # <<>>
  PROVE  ScanInv'
  <1>1. PlansFit'
    BY DEF ScanInv, PlansFit
  <1>2. \A r \in Scanners : ScanGood(scanning[r])'
    BY DEF ScanInv, ScanGood
  <1>3. \A r \in Scanners : scanning'[r].pc # "idle" => rowOf' # <<>>
    BY DEF ScanInv
  <1> QED BY <1>1, <1>2, <1>3 DEF ScanInv

LEMMA AliasKeeps ==
  ASSUME EntityInv, AliasSchema
  PROVE  EntityInv'
  <1>1. ColumnInv'
    BY DEF EntityInv, ColumnInv, AliasSchema
  <1>2. RowInv' /\ ScanInv'
    BY RowsKept, ScansKept DEF EntityInv, AliasSchema
  <1> QED BY <1>1, <1>2 DEF EntityInv

\* An id is generated for the entity when its column is in the statement and it has none.
LEMMA IDGenerated ==
  ASSUME ColumnInv, NEW e, e.id \in {"zero", "given"}, shouldGenerateID, ensureGeneratedID(e) # "refused"
  PROVE  ensureGeneratedID(e) \in {"given", "generated"} \/ (col.strategy = "snowflake" /\ col.goType # "int64")
  <1>1. col \in ColumnMetas
    BY BoundAgain DEF ColumnInv
  <1>2. CASE e.id = "given"
    BY <1>2 DEF ensureGeneratedID
  <1>3. CASE e.id = "zero"
    <2>1. ensureGeneratedID(e) = setGeneratedValue
      BY <1>3 DEF ensureGeneratedID
    <2>2. CASE col.strategy = "snowflake"
      <3>1. CASE col.goType = "int64"
        BY <2>1, <2>2, <3>1 DEF setGeneratedValue
      <3> QED BY <2>2, <3>1
    <2>3. CASE col.strategy = "uuid"
      <3>1. CASE col.goType = "string"
        BY <2>1, <2>3, <3>1 DEF setGeneratedValue
      <3>2. CASE col.goType # "string"
        BY <2>1, <2>3, <3>2 DEF setGeneratedValue
      <3> QED BY <3>1, <3>2
    <2> QED BY <2>2, <2>3 DEF shouldGenerateID
  <1> QED BY <1>2, <1>3

LEMMA InsertKeeps ==
  ASSUME EntityInv, NEW e \in EntityValues, InsertAssignments(e)
  PROVE  EntityInv'
  <1>1. PICK id : id = IF insertsID THEN ensureGeneratedID(e) ELSE e.id
    OBVIOUS
  <1>2. PICK val : val = IF layout.ins THEN boundFieldValue(e, layout) ELSE Null
    OBVIOUS
  <1>3. PICK fails \in BOOLEAN : fails = (id = "refused" \/ val = Refused)
    OBVIOUS
  <1>4. /\ lastWrite = "none" /\ made' = [e EXCEPT !.id = IF id = "refused" THEN e.id ELSE id]
        /\ lastWrite' = IF fails THEN "refused" ELSE "inserted"
        /\ rowOf' = IF fails THEN <<>> ELSE <<[id |-> IF insertsID THEN id ELSE "counted", val |-> val]>>
        /\ UNCHANGED <<decl, col, rebound, schemaDecl, layout, plans, scanning>>
    BY <1>1, <1>2, <1>3 DEF InsertAssignments
  <1>5. layout \in Layouts /\ rowOf = <<>> /\ layout.ins \in BOOLEAN /\ layout.ptr \in BOOLEAN
    BY <1>4 DEF EntityInv, ColumnInv, RowInv, Layouts
  <1>6. e.id \in {"zero", "given"} /\ InField(e.val, layout) /\ {"id", "val", "emb"} \subseteq DOMAIN e
    BY <1>5 DEF EntityValues, InField
  <1>7. /\ {"id", "val", "emb"} \subseteq DOMAIN made' /\ made'.val = e.val /\ made'.emb = e.emb
        /\ id # "refused" => made'.id = id
    BY <1>4, <1>6
  <1>8. InField(made.val, layout)'
    BY <1>4, <1>6, <1>7 DEF InField
  <1>9. boundFieldValue(made', layout') = boundFieldValue(e, layout)
    BY <1>4, <1>7 DEF boundFieldValue, walkFieldValue
  <1>10. CASE fails = TRUE
    <2>1. lastWrite' = "refused" /\ rowOf' = <<>>
      BY <1>4, <1>10
    <2>2. RowInv'
      BY <1>7, <1>8, <2>1 DEF RowInv, InsertedIDKnown
    <2>3. ColumnInv' /\ ScanInv'
      BY <1>4, <1>5, ColumnsKept, ScansKept DEF EntityInv
    <2> QED BY <2>2, <2>3 DEF EntityInv
  <1>11. CASE fails = FALSE
    <2>1. lastWrite' = "inserted" /\ id # "refused" /\ val # Refused
      BY <1>3, <1>4, <1>11
    <2>2. PICK r : r = [id |-> IF insertsID THEN id ELSE "counted", val |-> val] /\ rowOf' = <<r>>
      BY <1>4, <1>11
    <2>3. rowOf'[1] = r /\ {"id", "val"} \subseteq DOMAIN r /\ r.val = val /\ (insertsID => r.id = id) /\ rowOf' # <<>>
      BY <2>2
    <2>4. shouldGenerateID => insertsID \/ AutoOnTypedKey
      <3> SUFFICES ASSUME shouldGenerateID, ~AutoOnTypedKey PROVE insertsID
        OBVIOUS
      <3>1. ~TypedAuto(decl)
        BY DEF EntityInv, ColumnInv, IDDeclarations, TypedAuto, AutoOnTypedKey
      <3>2. col.auto = FALSE /\ col.strategy # "db_auto"
        BY <3>1, BoundAgain DEF EntityInv, ColumnInv, shouldGenerateID
      <3> QED BY <3>2 DEF insertsID
    <2>5. shouldGenerateID /\ insertsID => id \in {"given", "generated"} \/ (col.strategy = "snowflake" /\ col.goType # "int64")
      BY <1>1, <1>6, <2>1, IDGenerated DEF EntityInv
    <2>6. insertsID' = insertsID /\ shouldGenerateID' = shouldGenerateID /\ AutoOnTypedKey' = AutoOnTypedKey
      BY <1>4 DEF insertsID, shouldGenerateID, AutoOnTypedKey
    <2>7. InsertedIDKnown'
      BY <1>4, <1>7, <2>1, <2>3, <2>4, <2>5, <2>6 DEF InsertedIDKnown
    <2>8. layout'.ins = TRUE => rowOf'[1].val = boundFieldValue(made', layout') /\ rowOf'[1].val # Refused
      BY <1>2, <1>4, <1>9, <2>1, <2>3
    <2>9. RowInv'
      BY <1>7, <1>8, <2>1, <2>3, <2>7, <2>8 DEF RowInv
    <2>10. ColumnInv' /\ ScanInv'
      BY <1>4, <2>3, ColumnsKept, ScansKept DEF EntityInv
    <2> QED BY <2>9, <2>10 DEF EntityInv
  <1> QED BY <1>10, <1>11

LEMMA UpdateKeeps ==
  ASSUME EntityInv, NEW val \in Instants \cup {Null}, UpdateAssignments(val)
  PROVE  EntityInv'
  <1>1. PICK e : e = [made EXCEPT !.val = val]
    OBVIOUS
  <1>2. PICK to : to = boundFieldValue(e, layout)
    OBVIOUS
  <1>3. /\ lastWrite = "inserted" /\ made' = e /\ (val = Null => layout.ptr)
        /\ lastWrite' = (IF to = Refused THEN "refused" ELSE "updated")
        /\ rowOf' = (IF to = Refused THEN rowOf ELSE <<[rowOf[1] EXCEPT !.val = to]>>)
        /\ UNCHANGED <<decl, col, rebound, schemaDecl, layout, plans, scanning>>
    BY <1>1, <1>2 DEF UpdateAssignments
  <1>4. {"id", "val", "emb"} \subseteq DOMAIN made' /\ made'.val = val
    BY <1>1, <1>3 DEF EntityInv, RowInv
  <1>5. layout.ptr \in BOOLEAN
    BY DEF EntityInv, ColumnInv, Layouts
  <1>6. InField(made.val, layout)'
    BY <1>3, <1>4, <1>5 DEF InField
  <1>7. InsertedIDKnown' /\ lastWrite' \in {"updated", "refused"}
    BY <1>3 DEF InsertedIDKnown
  <1>8. lastWrite' = "updated" => rowOf' # <<>> /\ rowOf'[1].val = boundFieldValue(made', layout') /\ rowOf'[1].val # Refused
    <2> SUFFICES ASSUME lastWrite' = "updated"
                 PROVE  rowOf' # <<>> /\ rowOf'[1].val = boundFieldValue(made', layout') /\ rowOf'[1].val # Refused
      OBVIOUS
    <2>1. PICK r : r = [rowOf[1] EXCEPT !.val = to] /\ rowOf' = <<r>> /\ to # Refused
      BY <1>3
    <2>2. r.val = to
      BY <1>3, <2>1 DEF EntityInv, RowInv
    <2>3. rowOf'[1] = r /\ rowOf' # <<>>
      BY <2>1
    <2>4. boundFieldValue(made', layout') = to
      BY <1>2, <1>3
    <2> QED BY <2>1, <2>2, <2>3, <2>4
  <1>9. RowInv'
    BY <1>4, <1>6, <1>7, <1>8 DEF RowInv
  <1>10. rowOf # <<>> => rowOf' # <<>>
    BY <1>3, <1>8
  <1>11. ColumnInv' /\ ScanInv'
    BY <1>3, <1>10, ColumnsKept, ScansKept DEF EntityInv
  <1> QED BY <1>9, <1>11 DEF EntityInv

\* One reader goes on.
LEMMA ScanTurns ==
  ASSUME EntityInv, NEW r \in Scanners, UNCHANGED <<decl, col, rebound, schemaDecl, layout, made, rowOf, lastWrite>>,
         PlansFit', DOMAIN scanning' = Scanners, \A q \in Scanners \ {r} : scanning'[q] = scanning[q],
         ScanGood(scanning'[r]), rowOf # <<>>
  PROVE  EntityInv'
  <1>1. ColumnInv' /\ RowInv'
    BY ColumnsKept, RowsKept DEF EntityInv
  <1>2. \A q \in Scanners : ScanGood(scanning'[q])
    BY DEF EntityInv, ScanInv
  <1>3. \A q \in Scanners : ScanGood(scanning[q])'
    BY <1>2 DEF ScanGood
  <1> QED BY <1>1, <1>3 DEF EntityInv, ScanInv

LEMMA ScanPlanKeeps ==
  ASSUME EntityInv, NEW r \in Scanners, NEW sig, ScanPlan(r, sig)
  PROVE  EntityInv'
  <1>1. PICK plan : plan = (IF sig \in DOMAIN plans THEN plans[sig] ELSE newScanPlan(sig))
    OBVIOUS
  <1>2. PICK to : to = (IF sig \in DOMAIN plans THEN "planned" ELSE "built")
    OBVIOUS
  <1>3. PICK s : s = IF "unmapped" \in { plan[i] : i \in DOMAIN plan } THEN NotScanning
                     ELSE [NotScanning EXCEPT !.pc = to, !.sig = sig, !.plan = plan]
    OBVIOUS
  <1>4. scanning' = [scanning EXCEPT ![r] = s] /\ rowOf # <<>>
        /\ UNCHANGED <<decl, col, rebound, schemaDecl, layout, made, rowOf, lastWrite, plans>>
    BY <1>1, <1>2, <1>3 DEF ScanPlan
  <1>5. ScanGood(s)
    BY <1>1, <1>2, <1>3 DEF ScanGood, NotScanning
  <1>6. DOMAIN scanning = Scanners /\ PlansFit
    BY DEF EntityInv, ScanInv
  <1>7. PlansFit'
    BY <1>4, <1>6 DEF PlansFit
  <1>8. DOMAIN scanning' = Scanners /\ scanning'[r] = s /\ \A q \in Scanners \ {r} : scanning'[q] = scanning[q]
    BY <1>4, <1>6
  <1> QED BY <1>4, <1>5, <1>7, <1>8, ScanTurns

LEMMA StorePlanKeeps ==
  ASSUME EntityInv, NEW r \in Scanners, StorePlan(r)
  PROVE  EntityInv'
  <1>1. PICK s : s = scanning[r] /\ ScanGood(s) /\ s.pc = "built" /\ DOMAIN scanning = Scanners /\ PlansFit /\ rowOf # <<>>
    BY DEF EntityInv, ScanInv, StorePlan
  <1>2. PICK p : p = plans'[s.sig]
    OBVIOUS
  <1>3. scanning' = [scanning EXCEPT ![r].pc = "planned", ![r].plan = p]
        /\ UNCHANGED <<decl, col, rebound, schemaDecl, layout, made, rowOf, lastWrite>>
    BY <1>1, <1>2 DEF StorePlan
  <1>4. DOMAIN scanning' = Scanners /\ scanning'[r] = [s EXCEPT !.pc = "planned", !.plan = p]
        /\ \A q \in Scanners \ {r} : scanning'[q] = scanning[q]
    BY <1>1, <1>3
  <1>5. ScanGood(scanning'[r])
    BY <1>1, <1>4 DEF ScanGood
  <1>6. PlansFit'
    <2>1. plans' = (IF s.sig \in DOMAIN plans THEN plans
                    ELSE [x \in DOMAIN plans \cup {s.sig} |-> IF x = s.sig THEN s.plan ELSE plans[x]])
      BY <1>1 DEF StorePlan
    <2> QED BY <1>1, <2>1 DEF PlansFit, ScanGood
  <1> QED BY <1>1, <1>3, <1>4, <1>5, <1>6, ScanTurns

LEMMA ScanRowKeeps ==
  ASSUME EntityInv, NEW r \in Scanners, ScanRow(r)
  PROVE  EntityInv'
  <1>1. PICK s : s = scanning[r] /\ ScanGood(s) /\ s.pc = "planned" /\ DOMAIN scanning = Scanners /\ PlansFit /\ rowOf # <<>>
    BY DEF EntityInv, ScanInv, ScanRow
  <1>2. PICK v : v = CodecDecode(layout, rowOf[1].val)
    OBVIOUS
  <1>3. PICK got : got = <<[val |-> v, emb |-> TRUE]>> /\ got[1].val = v
    <2>1. PICK x : x = [val |-> v, emb |-> TRUE]
      OBVIOUS
    <2>2. x.val = v
      BY <2>1
    <2>3. PICK y : y = <<x>>
      OBVIOUS
    <2>4. y[1] = x
      BY <2>3
    <2> QED BY <2>1, <2>2, <2>3, <2>4
  <1>4. scanning' = [scanning EXCEPT ![r].pc = "done", ![r].of = rowOf, ![r].got = got]
        /\ UNCHANGED <<decl, col, rebound, schemaDecl, layout, made, rowOf, lastWrite, plans>>
    BY <1>2, <1>3 DEF ScanRow
  <1>5. DOMAIN scanning' = Scanners /\ scanning'[r] = [s EXCEPT !.pc = "done", !.of = rowOf, !.got = got]
        /\ \A q \in Scanners \ {r} : scanning'[q] = scanning[q]
    BY <1>1, <1>4
  <1>6. ScanGood(scanning'[r])
    BY <1>1, <1>2, <1>3, <1>5 DEF ScanGood
  <1>7. PlansFit'
    BY <1>1, <1>4 DEF PlansFit
  <1> QED BY <1>1, <1>4, <1>5, <1>6, <1>7, ScanTurns

LEMMA EntitiesStep == EntityInv /\ [EntitiesNext]_entitiesVars => EntityInv'
  <1> SUFFICES ASSUME EntityInv, [EntitiesNext]_entitiesVars PROVE EntityInv'
    OBVIOUS
  <1>1. CASE UNCHANGED entitiesVars
    BY <1>1, ColumnsKept, RowsKept, ScansKept DEF entitiesVars, EntityInv
  <1> QED BY <1>1, AliasKeeps, InsertKeeps, UpdateKeeps, ScanPlanKeeps, StorePlanKeeps, ScanRowKeeps DEF EntitiesNext

LEMMA EntitiesImplies == EntityInv => EntitiesExact
  <1> SUFFICES ASSUME EntityInv PROVE EntitiesExact
    OBVIOUS
  <1>1. AliasKeepsColumns
    <2> SUFFICES ASSUME ~AutoOnTypedKey PROVE rebound = col
      BY DEF AliasKeepsColumns
    <2>1. ~TypedAuto(decl)
      BY DEF EntityInv, ColumnInv, IDDeclarations, TypedAuto, AutoOnTypedKey
    <2> QED BY <2>1, BoundAgain DEF EntityInv, ColumnInv
  <1>2. InsertedIDKnown /\ PlansFit
    BY DEF EntityInv, RowInv, ScanInv
  <1>3. DerivedTableExact
    <2>1. schemaDecl \in SchemaDeclarations \cup {PlainSchema}
      BY DEF EntityInv, ColumnInv
    <2> QED BY <2>1, TableDerived DEF DerivedTableExact
  <1>4. RowsRoundTrip
    <2> SUFFICES ASSUME NEW r \in Scanners, scanning[r].pc = "done", scanning[r].of = rowOf, layout.ins, lastWrite # "refused",
                        NEW v, v = IF layout.emb /\ ~made.emb THEN ZeroOf(layout) ELSE made.val
                 PROVE  scanning[r].got[1].val = IF v = Null THEN Null ELSE (v \div UnitOf[layout.codec]) * UnitOf[layout.codec]
      BY DEF RowsRoundTrip
    <2>1. layout \in Layouts /\ InField(made.val, layout)
      BY DEF EntityInv, ColumnInv, RowInv
    <2>2. layout.ins = TRUE
      BY <2>1 DEF Layouts
    <2>3. rowOf # <<>> /\ scanning[r].got[1].val = CodecDecode(layout, rowOf[1].val)
      BY DEF EntityInv, ScanInv, ScanGood
    <2>4. rowOf[1].val = boundFieldValue(made, layout) /\ rowOf[1].val # Refused
      BY <2>2, <2>3 DEF EntityInv, RowInv
    <2>5. v = walkFieldValue(made, layout)
      BY DEF walkFieldValue
    <2>6. rowOf[1].val = CodecEncode(layout, v) /\ InField(v, layout)
      BY <2>1, <2>4, <2>5, WalkedInField DEF boundFieldValue
    <2> QED BY <2>1, <2>3, <2>4, <2>6, CodecReturns
  <1> QED BY <1>1, <1>2, <1>3, <1>4 DEF EntitiesExact

\* For any values, codecs and readers: a schema under an alias has the same columns (but
\* for AutoOnTypedKey), an inserted entity knows its id, the derived table has what was
\* declared, a row gives back what was written down to the unit of its codec, and the
\* shared scan plans are those of their columns.
THEOREM EntitiesExactAlways == EntitiesSpec => []EntitiesExact
  BY EntitiesStart, EntitiesStep, EntitiesImplies, PTL DEF EntitiesSpec
=============================================================================
