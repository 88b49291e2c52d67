----------------------------- MODULE DbRelations -----------------------------
(***************************************************************************)
(* dbx/relationload and relationruntime: the entities related to a list of *)
(* sources are loaded in batches.  The keys of the sources are collected   *)
(* with a pooled set that tells which were seen, cut into chunks, queried  *)
(* chunk by chunk with cached statements, and what was found is indexed or *)
(* grouped and assigned to the sources.  No transaction encloses the       *)
(* queries: rows may change between them.                                  *)
(* Targets have a primary key and a nullable reference; the join table of  *)
(* a many-to-many relation is a set of pairs.                              *)
(***************************************************************************)
EXTENDS Integers, Sequences, FiniteSets, SequencesExt

CONSTANTS
  RelKeys,       \* key values other sessions write, integers
  NoKey,         \* NULL
  SourceLists,   \* the lists of source keys that are loaded
  RelTables,     \* initial contents: [targets, joins]
  Loaders,       \* concurrent calls
  ChunkSize,     \* relationChunkSize of the dialect
  MaxRelWrites   \* bound on writes to the tables

ASSUME RelationsConstants == ChunkSize \in Nat \ {0} /\ MaxRelWrites \in Nat /\ RelKeys \subseteq Int

VARIABLES
  targetRows,    \* target table: set of [id, ref]
  joinRows,      \* join table: set of [source, target]
  relWrites,
  sameType,      \* the key fields of source and target have the same Go type
  seenPool,      \* contents of the seen sets lying in the pool
  queryCache,    \* cache key -> statement, as a set of [key, sql]
  load           \* what each call is doing

relationsVars == <<targetRows, joinRows, relWrites, sameType, seenPool, queryCache, load>>

RelationKinds == {"belongs_to", "has_one", "has_many", "many_to_many"}
Quiet == [pc |-> "quiet", kind |-> "belongs_to", lookup |-> <<>>, chunks |-> <<>>, pairs |-> <<>>,
          found |-> <<>>, result |-> <<>>, changed |-> FALSE]

RelationsInit ==
  /\ \E t \in RelTables : targetRows = t.targets /\ joinRows = t.joins
  /\ relWrites = 0 /\ sameType \in BOOLEAN /\ seenPool = {} /\ queryCache = {}
  /\ load = [l \in Loaders |-> Quiet]

-----------------------------------------------------------------------------
(* Keys, chunks and statements. *)

\* The keys not seen before, in the order of their first appearance.
CollectKeys(keys, seen) ==
  LET fresh == { i \in DOMAIN keys : keys[i] # NoKey /\ keys[i] \notin seen /\ \A j \in 1..(i - 1) : keys[j] # keys[i] }
  IN [i \in 1..Cardinality(fresh) |-> keys[SetToSortSeq(fresh, <)[i]]]

\* Fault: the set goes back to the pool as it was used.
ReleaseUncleared(seen) == seen
ReleaseSeenSet(seen) == {}

\* AcquireSeenSet: a pooled set or a new one; it lies in the pool again afterwards.
AcquireSeenSet == seenPool \cup {{}}

chunkRelationKeys(keys) ==
  [i \in 1..((Len(keys) + ChunkSize - 1) \div ChunkSize) |->
     SubSeq(keys, (i - 1) * ChunkSize + 1, IF i * ChunkSize < Len(keys) THEN i * ChunkSize ELSE Len(keys))]

TargetKey(kind, row) == IF kind \in {"belongs_to", "many_to_many"} THEN row.id ELSE row.ref
\* The statement is cached under table, columns, target column and number of keys,
\* and has one placeholder for each.
CacheKey(what, chunk) == <<what, Len(chunk)>>
Statement(what, chunk) ==
  LET hits == { c \in queryCache : c.key = CacheKey(what, chunk) }
  IN IF hits # {} THEN (CHOOSE c \in hits : TRUE).sql ELSE [what |-> what, placeholders |-> Len(chunk)]
Remember(what, chunk) == queryCache' = queryCache \cup {[key |-> CacheKey(what, chunk), sql |-> Statement(what, chunk)]}

\* Rows come back by target column, then primary key; pairs by source, then target.
TargetOrder(kind, rows) ==
  SetToSortSeq(rows, LAMBDA a, b : TargetKey(kind, a) < TargetKey(kind, b)
                                   \/ (TargetKey(kind, a) = TargetKey(kind, b) /\ a.id < b.id))
PairOrder(pairs) ==
  SetToSortSeq(pairs, LAMBDA a, b : a.source < b.source \/ (a.source = b.source /\ a.target < b.target))

-----------------------------------------------------------------------------
(* Assigning. *)

\* Keys are compared as values of type any: with different Go types none matches,
\* except through a join table, whose keys are scanned into both types.
SameKey(kind, a, b) == a = b /\ (kind = "many_to_many" \/ sameType)

\* HasOne refuses a second row of one key; otherwise the last one stays.
CardinalityError(kind, found) ==
  kind = "has_one" /\ \E i, j \in DOMAIN found : i # j /\ found[i].ref = found[j].ref
indexRelationTargets(kind, found, key) ==
  LET at == { i \in DOMAIN found : SameKey(kind, TargetKey(kind, found[i]), key) }
  IN IF key = NoKey \/ at = {} THEN <<>> ELSE <<found[CHOOSE i \in at : \A j \in at : j <= i]>>
groupRelationTargets(kind, found, key) ==
  IF key = NoKey THEN <<>> ELSE SelectSeq(found, LAMBDA r : SameKey(kind, TargetKey(kind, r), key))
groupManyToManyTargets(pairs, found, key) ==
  LET own == SelectSeq(pairs, LAMBDA p : p.source = key /\ \E i \in DOMAIN found : found[i].id = p.target)
  IN [i \in DOMAIN own |-> found[CHOOSE j \in DOMAIN found : found[j].id = own[i].target]]

Assigned(kind, pairs, found, key) ==
  CASE kind \in {"belongs_to", "has_one"} -> indexRelationTargets(kind, found, key)
    [] kind = "has_many" -> groupRelationTargets(kind, found, key)
    [] OTHER -> IF key = NoKey THEN <<>> ELSE groupManyToManyTargets(pairs, found, key)

-----------------------------------------------------------------------------
(* Actions. *)

SetLoad(l, state) == load' = [load EXCEPT ![l] = state]
NothingAssigned(keys) == [i \in DOMAIN keys |-> <<>>]

\* Keys are collected; without any every source is assigned nothing.
StartLoad(l, kind, keys) ==
  /\ load[l].pc = "quiet"
  /\ \E seen \in AcquireSeenSet :
       LET fresh == CollectKeys(keys, seen) IN
       /\ seenPool' = seenPool \cup {ReleaseSeenSet(seen \cup ({ keys[i] : i \in DOMAIN keys } \ {NoKey}))}
       /\ SetLoad(l, [Quiet EXCEPT !.kind = kind, !.lookup = keys, !.chunks = chunkRelationKeys(fresh),
                               !.pc = IF fresh = <<>> THEN "done" ELSE IF kind = "many_to_many" THEN "pairs" ELSE "targets",
                               !.result = IF fresh = <<>> THEN NothingAssigned(keys) ELSE <<>>])
  /\ UNCHANGED <<targetRows, joinRows, relWrites, sameType, queryCache>>

\* One chunk of the join table; a NULL in it cannot be scanned and fails the load.
queryManyToManyPairs(l) ==
  LET now == load[l]
      chunk == Head(now.chunks)
      rows == { r \in joinRows : \E i \in DOMAIN chunk : r.source = chunk[i] }
      pairs == now.pairs \o PairOrder(rows)
  IN /\ now.pc = "pairs" /\ now.chunks # <<>>
     /\ Remember("pairs", chunk)
     /\ IF \E r \in rows : r.target = NoKey THEN SetLoad(l, [now EXCEPT !.pc = "failed"])
        ELSE SetLoad(l, [now EXCEPT !.pairs = pairs, !.chunks = Tail(@)])
     /\ UNCHANGED <<targetRows, joinRows, relWrites, sameType, seenPool>>

\* The target keys of the pairs, each once; without pairs the load is over.
uniqueRelationKeysFromPairs(l) ==
  LET now == load[l]
      keys == [i \in DOMAIN now.pairs |-> now.pairs[i].target]
  IN /\ now.pc = "pairs" /\ now.chunks = <<>>
     /\ \E seen \in AcquireSeenSet :
          /\ seenPool' = seenPool \cup {ReleaseSeenSet(seen \cup { keys[i] : i \in DOMAIN keys })}
          /\ IF keys = <<>> THEN SetLoad(l, [now EXCEPT !.pc = "done", !.result = NothingAssigned(now.lookup)])
             ELSE SetLoad(l, [now EXCEPT !.pc = "targets", !.chunks = chunkRelationKeys(CollectKeys(keys, seen))])
     /\ UNCHANGED <<targetRows, joinRows, relWrites, sameType, queryCache>>

queryRelationTargets(l) ==
  LET now == load[l]
      chunk == Head(now.chunks)
      rows == { r \in targetRows : \E i \in DOMAIN chunk : TargetKey(now.kind, r) = chunk[i] }
      found == now.found \o TargetOrder(now.kind, rows)
  IN /\ now.pc = "targets" /\ now.chunks # <<>>
     /\ Remember(now.kind, chunk)
     /\ SetLoad(l, [now EXCEPT !.found = found, !.chunks = Tail(@)])
     /\ UNCHANGED <<targetRows, joinRows, relWrites, sameType, seenPool>>

\* Indexing or grouping, then the assign callback for every source.
AssignRelations(l) ==
  LET now == load[l] IN
  /\ now.pc = "targets" /\ now.chunks = <<>>
  /\ SetLoad(l, IF CardinalityError(now.kind, now.found) THEN [now EXCEPT !.pc = "failed"]
            ELSE [now EXCEPT !.pc = "done",
                    !.result = [i \in DOMAIN now.lookup |-> Assigned(now.kind, now.pairs, now.found, now.lookup[i])]])
  /\ UNCHANGED <<targetRows, joinRows, relWrites, sameType, seenPool, queryCache>>

LoadReturns(l) ==
  /\ load[l].pc \in {"done", "failed"} /\ SetLoad(l, Quiet)
  /\ UNCHANGED <<targetRows, joinRows, relWrites, sameType, seenPool, queryCache>>

\* Another session moves a target to another key, deletes one, or links a pair.
WriteRows ==
  /\ relWrites < MaxRelWrites /\ relWrites' = relWrites + 1
  /\ load' = [l \in Loaders |-> [load[l] EXCEPT !.changed = TRUE]]
  /\ \/ \E r \in targetRows, k \in RelKeys \cup {NoKey} :
          targetRows' = (targetRows \ {r}) \cup {[r EXCEPT !.ref = k]} /\ UNCHANGED joinRows
     \/ \E r \in targetRows : targetRows' = targetRows \ {r} /\ UNCHANGED joinRows
     \/ \E s \in RelKeys, t \in RelKeys \cup {NoKey} : joinRows' = joinRows \cup {[source |-> s, target |-> t]} /\ UNCHANGED targetRows
  /\ UNCHANGED <<sameType, seenPool, queryCache>>

RelationsNext ==
  \/ WriteRows
  \/ \E l \in Loaders, kind \in RelationKinds, keys \in SourceLists : StartLoad(l, kind, keys)
  \/ \E l \in Loaders : queryManyToManyPairs(l) \/ uniqueRelationKeysFromPairs(l) \/ queryRelationTargets(l)
                        \/ AssignRelations(l) \/ LoadReturns(l)

-----------------------------------------------------------------------------
(* Properties. *)

\* The rows a join gives for one source key.
Joined(kind, key) ==
  IF kind = "many_to_many"
  THEN { r \in targetRows : [source |-> key, target |-> r.id] \in joinRows }
  ELSE { r \in targetRows : TargetKey(kind, r) = key /\ key # NoKey }

\* With nothing written during the load, every source is assigned the rows a join
\* gives, each once, and HasOne fails exactly if some source has two; keys of
\* different Go types are assigned nothing.
LoadsLikeAJoin ==
  \A l \in Loaders :
    LET now == load[l] IN
    ~now.changed =>
      /\ now.pc = "done" =>
           \A i \in DOMAIN now.lookup :
             /\ Len(now.result[i]) = Cardinality({ now.result[i][j] : j \in DOMAIN now.result[i] })
             /\ { now.result[i][j] : j \in DOMAIN now.result[i] } =
                  IF sameType \/ now.kind = "many_to_many" THEN Joined(now.kind, now.lookup[i]) ELSE {}
      /\ now.pc = "failed" =>
           \/ now.kind = "has_one" /\ \E i \in DOMAIN now.lookup : Cardinality(Joined("has_one", now.lookup[i])) > 1
           \/ now.kind = "many_to_many" /\ \E r \in joinRows : r.target = NoKey

\* Whatever is written meanwhile, a source is only assigned rows that had its key
\* when they were read, and a statement is run with as many keys as it has placeholders.
NoForeignRows ==
  /\ \A l \in Loaders : load[l].pc = "done" =>
       \A i \in DOMAIN load[l].lookup : \A j \in DOMAIN load[l].result[i] :
         load[l].kind = "many_to_many" \/ TargetKey(load[l].kind, load[l].result[i][j]) = load[l].lookup[i]
  /\ \A c \in queryCache : c.sql.what = c.key[1] /\ c.sql.placeholders = c.key[2]

RelationsExact == LoadsLikeAJoin /\ NoForeignRows
=============================================================================
