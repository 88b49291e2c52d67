------------------------------- MODULE CxSets -------------------------------
(***************************************************************************)
(* collectionx/set: Set, ConcurrentSet, OrderedSet and MultiSet. The Map   *)
(* inside a Set is a set of items here. ConcurrentSet runs each method     *)
(* under one mutex, so a method is one step; only Range calls back with    *)
(* the lock held, and has a module of its own, CxConcurrent.               *)
(***************************************************************************)
EXTENDS Integers, Sequences, FiniteSets, SequencesExt, CxCache

CONSTANTS
  Members,    \* items of the sets
  NoSet,      \* ConcurrentSet.core = nil
  MaxCount    \* bound: occurrences of one item in a multiset

VARIABLES
  set, cset,  \* a Set, a ConcurrentSet
  oset,       \* an OrderedSet
  mset        \* a MultiSet

Some(S) == IF S = {} THEN Null ELSE S
ItemBatch == { <<>> } \cup { <<x>> : x \in Members } \cup { <<x, y>> : x \in Members, y \in Members }

-----------------------------------------------------------------------------
(* Set and ConcurrentSet                                                   *)

EmptySet == [items |-> {}, jsonCache |-> NoCache, jsonDirty |-> FALSE]

\* Add, Merge and MergeSlice: without items nothing happens, otherwise the cache goes.
SetAdd(s, xs) == IF xs = {} THEN s ELSE invalidateSerializationCache([s EXCEPT !.items = @ \cup xs])

SetRemove(s, x) == IF x \in s.items THEN invalidateSerializationCache([s EXCEPT !.items = @ \ {x}]) ELSE s

SetClear(s) == dropSerializationCache([s EXCEPT !.items = {}])

\* Clone, Where, Reject, Union, Intersect, Difference fill a new set past Add. The
\* intersection goes through the smaller operand.
SetBuilt(S) == [EmptySet EXCEPT !.items = S]
SetQueries(S, P) ==
  [where |-> SetBuilt(S \cap P), reject |-> SetBuilt(S \ P),
   first |-> S \cap P, any |-> S \cap P # {}, all |-> S # {} /\ S \subseteq P]
Union2(s, o) == SetBuilt(s.items \cup o.items)
Intersect(s, o) ==
  LET left == IF Cardinality(s.items) > Cardinality(o.items) THEN o ELSE s
      right == IF left = s THEN o ELSE s
  IN SetBuilt({ x \in left.items : x \in right.items })
Difference(s, o) == SetBuilt({ x \in s.items : x \notin o.items })

\* The encoding of Values, which is nil for an empty set.
SetToJSON(s) == IF CacheAnswers(s) THEN s ELSE cacheSerializationData(s, Some(s.items))

SetInit == set = EmptySet
SetNext ==
  set' \in { SetAdd(set, Range(xs)) : xs \in ItemBatch } \cup { SetRemove(set, x) : x \in Members }
           \cup { SetClear(set), SetBuilt(set.items), SetToJSON(set) }
           \cup { SetQueries(set.items, {x}).reject : x \in Members }
           \cup { Union2(set, SetBuilt({x})) : x \in Members } \cup { Intersect(set, SetBuilt(Members \ {x})) : x \in Members }
           \cup { Difference(set, SetBuilt({x})) : x \in Members }

EmptyConcurrentSet == [core |-> NoSet, jsonCache |-> NoCache, jsonDirty |-> FALSE]
SetCoreItems(c) == IF c.core = NoSet THEN {} ELSE c.core.items
ensureSetInit(c) == IF c.core = NoSet THEN [c EXCEPT !.core = EmptySet] ELSE c
SetCoreChanged(c, core) == invalidateSerializationCache([c EXCEPT !.core = core])

\* Add, Merge, MergeConcurrent, MergeSlice
ConcurrentSetAdd(c, xs) == IF xs = {} THEN c ELSE SetCoreChanged(ensureSetInit(c), SetAdd(ensureSetInit(c).core, xs))
AddIfAbsent(c, x) == LET d == ensureSetInit(c) IN IF x \in d.core.items THEN d ELSE SetCoreChanged(d, SetAdd(d.core, {x}))
ConcurrentSetRemove(c, x) == IF x \in SetCoreItems(c) THEN SetCoreChanged(c, SetRemove(c.core, x)) ELSE c
ConcurrentSetClear(c) == IF c.core = NoSet THEN c ELSE dropSerializationCache([c EXCEPT !.core = SetClear(@)])
ConcurrentSetToJSON(c) == IF CacheAnswers(c) THEN c ELSE cacheSerializationData(c, Some(SetCoreItems(c)))

ConcurrentSetInit == cset = EmptyConcurrentSet
ConcurrentSetNext ==
  cset' \in { ConcurrentSetAdd(cset, Range(xs)) : xs \in ItemBatch } \cup { AddIfAbsent(cset, x) : x \in Members }
            \cup { ConcurrentSetRemove(cset, x) : x \in Members }
            \cup { ConcurrentSetClear(cset), ConcurrentSetToJSON(cset), ConcurrentSetAdd(cset, SetCoreItems(cset)) }

\* What ToJSON and String would serve from the cache of a set or of its wrapper is
\* the encoding of the items that are in the set now.
SetCachesFresh ==
  /\ CacheAnswers(set) => set.jsonCache = Some(set.items)
  /\ CacheAnswers(cset) => cset.jsonCache = Some(SetCoreItems(cset))

-----------------------------------------------------------------------------
(* OrderedSet: items, their order and the position of each                 *)

EmptyOrderedSet == [order |-> <<>>, items |-> {}, index |-> << >>, valuesCache |-> NoCache, valuesDirty |-> FALSE,
                    jsonCache |-> NoCache, jsonDirty |-> FALSE]
OrderedSetInvalidate(s) == invalidateSerializationCache([s EXCEPT !.valuesCache = NoCache, !.valuesDirty = TRUE])
OrderedSetAppend(s, x) ==
  [s EXCEPT !.order = Append(@, x), !.items = @ \cup {x}, !.index = (x :> Len(s.order)) @@ @]

OrderedSetAdd(s, xs) ==
  IF xs = <<>> THEN s
  ELSE OrderedSetInvalidate(FoldLeft(LAMBDA t, x : IF x \in t.items THEN t ELSE OrderedSetAppend(t, x), s, xs))

OrderedSetRemove(s, x) ==
  IF x \notin DOMAIN s.index THEN s
  ELSE LET pos == s.index[x]
           order == RemoveAt(s.order, pos + 1)
           moved == (pos + 1)..Len(order)
       IN OrderedSetInvalidate(
            [s EXCEPT !.items = @ \ {x}, !.order = order,
                      !.index = [y \in DOMAIN @ \ {x} |->
                                   IF \E i \in moved : order[i] = y THEN (CHOOSE i \in moved : order[i] = y) - 1
                                   ELSE @[y]]])

OrderedSetClear == EmptyOrderedSet
OrderedSetOf(xs) == FoldLeft(OrderedSetAppend, EmptyOrderedSet, xs)

\* Where, Reject, Take and Drop build a set in the same order.
OrderedSetQueries(s, n, P) ==
  { OrderedSetOf(SelectSeq(s.order, LAMBDA x : x \in P)), OrderedSetOf(SelectSeq(s.order, LAMBDA x : x \notin P)),
    OrderedSetOf(SubSeq(s.order, 1, Min({n, Len(s.order)}))), OrderedSetOf(SubSeq(s.order, Max({n, 0}) + 1, Len(s.order))) }

\* FirstWhere, AnyMatch, AllMatch
OrderedSetMatches(s, P) ==
  LET hits == { i \in DOMAIN s.order : s.order[i] \in P } IN
  [first |-> IF hits = {} THEN <<>> ELSE <<s.order[Min(hits)]>>, any |-> hits # {},
   all |-> s.order # <<>> /\ hits = DOMAIN s.order]

OrderedSetServesValues(s) == ~s.valuesDirty /\ s.valuesCache # NoCache
OrderedSetValues(s) ==
  IF OrderedSetServesValues(s) \/ s.order = <<>> THEN s ELSE [s EXCEPT !.valuesCache = s.order, !.valuesDirty = FALSE]

\* ToJSON encodes what Values answers, so it goes through both caches.
OrderedSetToJSON(s) ==
  IF CacheAnswers(s) THEN s
  ELSE LET t == OrderedSetValues(s) IN cacheSerializationData(t, IF t.order = <<>> THEN Null ELSE t.valuesCache)

OrderedSetInit == oset = EmptyOrderedSet
OrderedSetNext ==
  oset' \in { OrderedSetAdd(oset, xs) : xs \in ItemBatch } \cup { OrderedSetRemove(oset, x) : x \in Members }
            \cup { OrderedSetClear, OrderedSetOf(oset.order), OrderedSetValues(oset), OrderedSetToJSON(oset) }
            \cup UNION { OrderedSetQueries(oset, n, {x}) : x \in Members, n \in -1..3 }

\* order, items and index describe one set: no item twice, each at its index, and
\* neither the cached values nor the JSON made of them outlives a change.
OrderedSetConsistent ==
  /\ IsInjective(oset.order) /\ Range(oset.order) = oset.items /\ DOMAIN oset.index = oset.items
  /\ \A x \in oset.items : \E i \in DOMAIN oset.order : i = oset.index[x] + 1 /\ oset.order[i] = x
  /\ OrderedSetServesValues(oset) => oset.valuesCache = oset.order
  /\ CacheAnswers(oset) => oset.jsonCache = (IF oset.order = <<>> THEN Null ELSE oset.order)
  /\ \A x \in Members : LET q == OrderedSetMatches(oset, Members \ {x})
                        IN q.any = (oset.items \ {x} # {}) /\ q.all = (oset.items # {} /\ x \notin oset.items)

-----------------------------------------------------------------------------
(* MultiSet: counts and size                                               *)

MultiSetCount(s, x) == IF x \in DOMAIN s.counts THEN s.counts[x] ELSE 0

\* Add inserts one of each item; AddN does nothing for n <= 0.
MultiSetAddN(s, x, n) ==
  IF n <= 0 THEN s ELSE [counts |-> (x :> MultiSetCount(s, x) + n) @@ s.counts, size |-> s.size + n]

MultiSetRemoveN(s, x, n) ==
  IF n <= 0 \/ MultiSetCount(s, x) <= 0 THEN s
  ELSE LET removed == Min({n, s.counts[x]})
           remain == s.counts[x] - removed
       IN [counts |-> IF remain = 0 THEN Restrict(s.counts, DOMAIN s.counts \ {x})
                      ELSE [s.counts EXCEPT ![x] = remain], size |-> s.size - removed]

MultiSetClear == [counts |-> << >>, size |-> 0]

\* Len, UniqueLen, Elements (asks size first), AllCounts
MultiSetElements(s) == IF s.size = 0 THEN << >> ELSE s.counts

MultiSetInit == mset = MultiSetClear
MultiSetNext ==
  mset' \in { s \in { MultiSetAddN(mset, x, n) : x \in Members, n \in -1..2 }
                    \cup { MultiSetRemoveN(mset, x, n) : x \in Members, n \in -1..3 } \cup { MultiSetClear } :
              \A x \in DOMAIN s.counts : s.counts[x] <= MaxCount }

\* size is the sum of the counts, no count is zero (UniqueLen counts keys), and so
\* Elements, which asks size, lists what AllCounts reports.
MultiSetExact ==
  /\ mset.size = FoldSet(LAMBDA x, n : n + mset.counts[x], 0, DOMAIN mset.counts)
  /\ \A x \in DOMAIN mset.counts : mset.counts[x] > 0
  /\ MultiSetElements(mset) = mset.counts

-----------------------------------------------------------------------------
(***************************************************************************)
(* collectionx/interval: Range, RangeSet and RangeMap over half-open       *)
(* intervals, against the set of points (the points and their values) they *)
(* stand for.                                                              *)
(***************************************************************************)

CONSTANTS
  MaxPoint,   \* ends of ranges are 0..MaxPoint
  RangeVals   \* values of a RangeMap

ASSUME IntervalsAssumption == MaxPoint \in Nat

VARIABLES
  rset, rsetPoints,  \* a RangeSet; ghost: the points added and not removed since
  rmap, rmapPoints   \* a RangeMap; ghost: the value last put over each point

rsetVars == <<rset, rsetPoints>>
rmapVars == <<rmap, rmapPoints>>

Points == 0..(MaxPoint - 1)
Bounds == { [s |-> a, e |-> b] : a \in 0..MaxPoint, b \in 0..MaxPoint }
EmptyRange == [s |-> 0, e |-> 0]

-----------------------------------------------------------------------------
(* Range                                                                   *)

RangeIsValid(r) == r.s < r.e
RangeContains(r, p) == r.s <= p /\ p < r.e
RangeOverlaps(r, o) == r.s < o.e /\ o.s < r.e
RangeIsAdjacent(r, o) == r.e = o.s \/ o.e = r.s
RangeMerge(r, o) ==
  IF RangeIsValid(r) /\ RangeIsValid(o) /\ (RangeOverlaps(r, o) \/ RangeIsAdjacent(r, o))
  THEN [s |-> Min({r.s, o.s}), e |-> Max({r.e, o.e})] ELSE EmptyRange
PointsOf(r) == { p \in Points : RangeContains(r, p) }

\* sort.Search over 1..n for a predicate that stays true once it is: the least
\* index, n + 1 when there is none.
SearchFirst(n, P(_)) == LET hits == { i \in 1..n : P(i) } IN IF hits = {} THEN n + 1 ELSE Min(hits)

Splice(s, first, end, repl) == SubSeq(s, 1, first - 1) \o repl \o SubSeq(s, end, Len(s))

-----------------------------------------------------------------------------
(* RangeSet                                                                *)

findFirstRangeEndingAtOrAfter(rs, p) == SearchFirst(Len(rs), LAMBDA i : rs[i].e >= p)
findFirstRangeEndingAfter(rs, p) == SearchFirst(Len(rs), LAMBDA i : rs[i].e > p)

\* The loop of mergeSetRanges: the merged range and the first index it leaves alone.
mergeSetRanges(rs, first, input) ==
  FoldLeft(LAMBDA acc, r : IF acc.stop \/ r.s > acc.merged.e THEN [acc EXCEPT !.stop = TRUE]
                           ELSE [merged |-> [s |-> Min({r.s, acc.merged.s}), e |-> Max({r.e, acc.merged.e})],
                                 end |-> acc.end + 1, stop |-> FALSE],
           [merged |-> input, end |-> first, stop |-> FALSE], SubSeq(rs, first, Len(rs)))

\* Fault: a range that only touches the new one is not merged with it.
addRangeToSetKeepsAdjacent(rs, input) ==
  LET first == findFirstRangeEndingAfter(rs, input.s) IN
  CASE first > Len(rs) -> Append(rs, input)
    [] first <= Len(rs) /\ rs[first].s >= input.e -> Splice(rs, first, first, <<input>>)
    [] OTHER -> LET m == mergeSetRanges(rs, first, input) IN Splice(rs, first, m.end, <<m.merged>>)

addRangeToSet(rs, input) ==
  LET first == findFirstRangeEndingAtOrAfter(rs, input.s) IN
  CASE first > Len(rs) -> Append(rs, input)
    [] first <= Len(rs) /\ rs[first].s > input.e -> Splice(rs, first, first, <<input>>)
    [] OTHER -> LET m == mergeSetRanges(rs, first, input) IN Splice(rs, first, m.end, <<m.merged>>)

trimSetRange(r, cut) ==
  (IF r.s < cut.s THEN <<[r EXCEPT !.e = cut.s]>> ELSE <<>>)
  \o (IF cut.e < r.e THEN <<[r EXCEPT !.s = cut.e]>> ELSE <<>>)

\* From the first range that ends after the cut starts, each range that starts
\* before the cut ends is trimmed; what follows is kept.
removeRangeFromSet(rs, cut) ==
  LET first == findFirstRangeEndingAfter(rs, cut.s)
      hit == { i \in first..Len(rs) : \A j \in first..i : rs[j].s < cut.e /\ (j < i => rs[j].e <= cut.e) }
      end == IF hit = {} THEN first ELSE Max(hit) + 1
  IN [next |-> SubSeq(rs, 1, first - 1)
               \o FoldLeft(LAMBDA out, r : out \o trimSetRange(r, cut), <<>>, SubSeq(rs, first, end - 1))
               \o SubSeq(rs, end, Len(rs)),
      changed |-> hit # {}]

EmptyRangeSet == [ranges |-> <<>>, listCache |-> NoCache, listDirty |-> FALSE, jsonCache |-> NoCache, jsonDirty |-> FALSE]
invalidateDerivedCaches(s) == invalidateSerializationCache([s EXCEPT !.listCache = NoCache, !.listDirty = TRUE])

RangeSetAdd(s, r) == IF RangeIsValid(r) THEN invalidateDerivedCaches([s EXCEPT !.ranges = addRangeToSet(@, r)]) ELSE s
RangeSetRemove(s, cut) ==
  LET r == removeRangeFromSet(s.ranges, cut)
  IN IF s.ranges # <<>> /\ RangeIsValid(cut) /\ r.changed THEN invalidateDerivedCaches([s EXCEPT !.ranges = r.next]) ELSE s

RangeSetContains(s, p) ==
  LET i == SearchFirst(Len(s.ranges), LAMBDA j : s.ranges[j].e > p)
  IN i <= Len(s.ranges) /\ RangeContains(s.ranges[i], p)
RangeSetOverlaps(s, r) ==
  LET i == SearchFirst(Len(s.ranges), LAMBDA j : s.ranges[j].e > r.s)
  IN RangeIsValid(r) /\ i <= Len(s.ranges) /\ s.ranges[i].s < r.e

\* Ranges answers from its cache when that is clean and not empty.
RangeSetRanges(s) ==
  IF s.ranges = <<>> \/ (~s.listDirty /\ s.listCache # NoCache) THEN s
  ELSE [s EXCEPT !.listCache = s.ranges, !.listDirty = FALSE]
RangeSetClear == EmptyRangeSet
RangeSetToJSON(s) ==
  IF CacheAnswers(s) THEN s
  ELSE LET t == RangeSetRanges(s) IN cacheSerializationData(t, IF t.ranges = <<>> THEN Null ELSE t.listCache)

RangeSetInit == rset = EmptyRangeSet /\ rsetPoints = {}
RangeSetAddCall == \E r \in Bounds : rset' = RangeSetAdd(rset, r) /\ rsetPoints' = rsetPoints \cup PointsOf(r)
RangeSetRemoveCall == \E r \in Bounds : rset' = RangeSetRemove(rset, r) /\ rsetPoints' = rsetPoints \ PointsOf(r)
RangeSetReadCall == rset' \in { RangeSetRanges(rset), RangeSetToJSON(rset) } /\ UNCHANGED rsetPoints
RangeSetClearCall == rset' = RangeSetClear /\ rsetPoints' = {}
RangeSetNext == RangeSetAddCall \/ RangeSetRemoveCall \/ RangeSetReadCall \/ RangeSetClearCall

\* The ranges are the set of points added and not removed since, in normal form:
\* sorted, no two overlapping and no two touching (which is what makes the binary
\* searches of Contains and Overlaps right); the caches are of these ranges.
RangeSetNormal ==
  LET rs == rset.ranges IN
  /\ \A i \in DOMAIN rs : RangeIsValid(rs[i]) /\ (i > 1 => rs[i - 1].e < rs[i].s)
  /\ \A p \in Points : RangeSetContains(rset, p) <=> p \in rsetPoints
  /\ \A r \in Bounds : RangeSetOverlaps(rset, r) <=> PointsOf(r) \cap rsetPoints # {}
  /\ ~rset.listDirty /\ rset.listCache # NoCache => rset.listCache = rs
  /\ CacheAnswers(rset) => rset.jsonCache = (IF rs = <<>> THEN Null ELSE rs)
  /\ \A i \in DOMAIN rs, r \in Bounds :
        LET m == RangeMerge(rs[i], r) IN RangeIsValid(m) => PointsOf(m) = PointsOf(rs[i]) \cup PointsOf(r)

-----------------------------------------------------------------------------
(* RangeMap: entries [s, e) with a value; touching equal values stay apart *)

findFirstRangeEntryEndingAfter(es, p) == SearchFirst(Len(es), LAMBDA i : es[i].e > p)

splitLeftRangeEntry(entry, at) == IF entry.s >= at THEN <<>> ELSE <<[entry EXCEPT !.e = at]>>

\* The first entry the new one does not swallow, and what is left of it.
splitRightRangeEntry(es, first, end) ==
  LET i == SearchFirst(Len(es), LAMBDA j : j >= first /\ (es[j].s >= end \/ es[j].e > end)) IN
  IF i <= Len(es) /\ es[i].s < end THEN [end |-> i + 1, right |-> <<[es[i] EXCEPT !.s = end]>>]
  ELSE [end |-> i, right |-> <<>>]

putRangeEntry(es, input) ==
  LET first == findFirstRangeEntryEndingAfter(es, input.s) IN
  CASE first > Len(es) -> Append(es, input)
    [] first <= Len(es) /\ es[first].s >= input.e -> Splice(es, first, first, <<input>>)
    [] OTHER -> LET r == splitRightRangeEntry(es, first, input.e)
                IN Splice(es, first, r.end, splitLeftRangeEntry(es[first], input.s) \o <<input>> \o r.right)

\* As removeRangeFromSet; the fragments keep their value.
deleteRangeEntries(es, cut) == removeRangeFromSet(es, cut)

RangeMapPut(m, r, v) ==
  IF RangeIsValid(r)
  THEN invalidateDerivedCaches([m EXCEPT !.ranges = putRangeEntry(@, [s |-> r.s, e |-> r.e, v |-> v])]) ELSE m
RangeMapDelete(m, cut) ==
  LET r == deleteRangeEntries(m.ranges, cut)
  IN IF m.ranges # <<>> /\ RangeIsValid(cut) /\ r.changed THEN invalidateDerivedCaches([m EXCEPT !.ranges = r.next]) ELSE m
RangeMapGet(m, p) ==
  LET i == SearchFirst(Len(m.ranges), LAMBDA j : m.ranges[j].e > p)
  IN IF i <= Len(m.ranges) /\ RangeContains(m.ranges[i], p) THEN <<m.ranges[i].v>> ELSE <<>>
RangeMapEntries(m) == RangeSetRanges(m)
RangeMapClear == EmptyRangeSet
RangeMapToJSON(m) ==
  IF CacheAnswers(m) THEN m
  ELSE LET t == RangeMapEntries(m) IN cacheSerializationData(t, IF t.ranges = <<>> THEN Null ELSE t.listCache)

RangeMapInit == rmap = EmptyRangeSet /\ rmapPoints = [p \in Points |-> <<>>]
RangeMapPutCall ==
  \E r \in Bounds, v \in RangeVals :
    /\ rmap' = RangeMapPut(rmap, r, v)
    /\ rmapPoints' = [p \in Points |-> IF p \in PointsOf(r) THEN <<v>> ELSE rmapPoints[p]]
RangeMapDeleteCall ==
  \E r \in Bounds : /\ rmap' = RangeMapDelete(rmap, r)
                    /\ rmapPoints' = [p \in Points |-> IF p \in PointsOf(r) THEN <<>> ELSE rmapPoints[p]]
RangeMapReadCall == rmap' \in { RangeMapEntries(rmap), RangeMapToJSON(rmap) } /\ UNCHANGED rmapPoints
RangeMapClearCall == rmap' = RangeMapClear /\ rmapPoints' = [p \in Points |-> <<>>]
RangeMapNext == RangeMapPutCall \/ RangeMapDeleteCall \/ RangeMapReadCall \/ RangeMapClearCall

\* Get answers every point with the value last put over it, however the puts and
\* deletions cut each other's entries; the entries stay sorted and apart.
RangeMapIsFunction ==
  LET es == rmap.ranges IN
  /\ \A p \in Points : RangeMapGet(rmap, p) = rmapPoints[p]
  /\ \A i \in DOMAIN es : RangeIsValid(es[i]) /\ (i > 1 => es[i - 1].e <= es[i].s)
  /\ ~rmap.listDirty /\ rmap.listCache # NoCache => rmap.listCache = es
  /\ CacheAnswers(rmap) => rmap.jsonCache = (IF es = <<>> THEN Null ELSE es)
=============================================================================
