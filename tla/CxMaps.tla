------------------------------- MODULE CxMaps -------------------------------
(***************************************************************************)
(* collectionx/mapping: Map, OrderedMap, BiMap, MultiMap and Table with    *)
(* their queries, and the goroutine-safe forms of Map, MultiMap and Table. *)
(* Those run each method under one mutex, so a method is one step; they    *)
(* cache their JSON apart from the container they wrap. The Maps inside    *)
(* OrderedMap, BiMap, MultiMap and Table are never encoded, so their own   *)
(* caches are left out: such a Map is a function.                          *)
(***************************************************************************)
EXTENDS Integers, Sequences, FiniteSets, SequencesExt, CxCache

CONSTANTS
  Keys,        \* map keys, rows of a table
  Vals,        \* map values
  Columns,     \* columns of a table
  NoMap,       \* core = nil in a concurrent container
  MaxValues    \* bound: values under one key of a multimap

VARIABLES
  map, cmap,   \* a Map, a ConcurrentMap
  omap,        \* an OrderedMap
  bimap,       \* a BiMap
  mmap, cmmap, \* a MultiMap, a ConcurrentMultiMap
  table, ctable \* a Table, a ConcurrentTable

mapsVars == <<map, cmap, omap, bimap, mmap, cmmap, table, ctable>>

EmptyItems == << >>
PutKey(f, k, v) == (k :> v) @@ f
DropKey(f, k) == Restrict(f, DOMAIN f \ {k})
GetKey(f, k) == IF k \in DOMAIN f THEN <<f[k]>> ELSE <<>>
PartialMaps(K, V) == UNION { [D -> V] : D \in SUBSET K }

-----------------------------------------------------------------------------
(* Map and ConcurrentMap                                                   *)

NewMap(items) == [items |-> items, jsonCache |-> NoCache, jsonDirty |-> items # EmptyItems]

\* Set, and SetAll, which does nothing for an empty source.
MapSetAll(m, source) ==
  IF source = EmptyItems THEN m ELSE invalidateSerializationCache([m EXCEPT !.items = source @@ @])

MapGet(m, k) == GetKey(m.items, k)

MapDelete(m, k) ==
  IF k \in DOMAIN m.items THEN invalidateSerializationCache([m EXCEPT !.items = DropKey(@, k)]) ELSE m

MapClear(m) == dropSerializationCache([m EXCEPT !.items = EmptyItems])
MapClone(m) == [NewMap(m.items) EXCEPT !.jsonDirty = FALSE]

\* WhereEntries, RejectEntries, FirstEntryWhere (some matching entry: Go's map
\* order is random), AnyEntryMatch, AllEntryMatch (false for an empty map).
MapQueries(f, P) ==
  LET hits == { k \in DOMAIN f : f[k] \in P } IN
  [where |-> Restrict(f, hits), reject |-> Restrict(f, DOMAIN f \ hits),
   first |-> hits, any |-> hits # {}, all |-> f # EmptyItems /\ hits = DOMAIN f]

MapToJSON(m) == IF CacheAnswers(m) THEN m ELSE cacheSerializationData(m, m.items)

CoreItems(c) == IF c.core = NoMap THEN EmptyItems ELSE c.core.items
EnsureCore(c, empty) == IF c.core = NoMap THEN [c EXCEPT !.core = empty] ELSE c
LockedSet(c, core) == invalidateSerializationCache([c EXCEPT !.core = core])
EmptyLocked == [core |-> NoMap, jsonCache |-> NoCache, jsonDirty |-> FALSE]

ConcurrentMapSetAll(c, source) ==
  IF source = EmptyItems THEN c
  ELSE LET d == EnsureCore(c, NewMap(EmptyItems)) IN LockedSet(d, MapSetAll(d.core, source))

GetOrStore(c, k, v) ==
  LET d == EnsureCore(c, NewMap(EmptyItems))
  IN IF MapGet(d.core, k) # <<>> THEN d ELSE LockedSet(d, MapSetAll(d.core, k :> v))

\* Delete and LoadAndDelete.
LoadAndDelete(c, k) == IF k \in DOMAIN CoreItems(c) THEN LockedSet(c, MapDelete(c.core, k)) ELSE c
ConcurrentMapClear(c) == IF c.core = NoMap THEN c ELSE dropSerializationCache([c EXCEPT !.core = MapClear(@)])
ConcurrentMapToJSON(c) == IF CacheAnswers(c) THEN c ELSE cacheSerializationData(c, CoreItems(c))

MapInit == map = NewMap(EmptyItems)
ConcurrentMapInit == cmap = EmptyLocked
MapNext ==
  map' \in { MapSetAll(map, s) : s \in PartialMaps(Keys, Vals) } \cup { MapDelete(map, k) : k \in Keys }
               \cup { MapClear(map), MapClone(map), MapToJSON(map) }
               \cup { NewMap(MapQueries(map.items, {v}).where) : v \in Vals }
ConcurrentMapNext ==
  cmap' \in { ConcurrentMapSetAll(cmap, s) : s \in PartialMaps(Keys, Vals) }
                \cup { GetOrStore(cmap, k, v) : k \in Keys, v \in Vals }
                \cup { LoadAndDelete(cmap, k) : k \in Keys }
                \cup { ConcurrentMapClear(cmap), ConcurrentMapToJSON(cmap) }

\* What ToJSON and String of a Map or ConcurrentMap would answer from the cache
\* is the encoding of the entries it has now.
MapCachesFresh ==
  /\ CacheAnswers(map) => map.jsonCache = map.items
  /\ CacheAnswers(cmap) => cmap.jsonCache = CoreItems(cmap)

-----------------------------------------------------------------------------
(* OrderedMap: items, the order of the keys and the position of each key   *)

EmptyOrderedMap ==
  [order |-> <<>>, items |-> EmptyItems, index |-> EmptyItems,
   valuesCache |-> NoCache, valuesDirty |-> FALSE, jsonCache |-> NoCache, jsonDirty |-> FALSE]

\* invalidateValuesCache and invalidateSerializationCache
OrderedInvalidate(m) == invalidateSerializationCache([m EXCEPT !.valuesCache = NoCache, !.valuesDirty = TRUE])

OrderedMapSet(m, k, v) ==
  LET isNew == k \notin DOMAIN m.items IN
  OrderedInvalidate([m EXCEPT !.order = IF isNew THEN Append(@, k) ELSE @,
                              !.index = IF isNew THEN PutKey(@, k, Len(m.order)) ELSE @,
                              !.items = PutKey(@, k, v)])

OrderedMapAt(m, pos) ==
  IF pos \in 0..(Len(m.order) - 1) THEN <<m.order[pos + 1], m.items[m.order[pos + 1]]>> ELSE <<>>

\* Fault: the keys after the deleted one keep their old positions.
OrderedMapDeleteNoShift(m, k) ==
  IF k \notin DOMAIN m.index THEN m
  ELSE OrderedInvalidate([m EXCEPT !.items = DropKey(@, k), !.index = DropKey(@, k),
                                   !.order = RemoveAt(@, m.index[k] + 1)])

OrderedMapDelete(m, k) ==
  IF k \notin DOMAIN m.index THEN m
  ELSE LET pos == m.index[k]
           order == RemoveAt(m.order, pos + 1)
       IN OrderedInvalidate(
            [m EXCEPT !.items = DropKey(@, k), !.order = order,
                      !.index = [x \in { order[i] : i \in (pos + 1)..Len(order) } |->
                                   (CHOOSE i \in (pos + 1)..Len(order) : order[i] = x) - 1] @@ DropKey(@, k)])

OrderedMapClear(m) == EmptyOrderedMap
OrderedMapClone(m) == [EmptyOrderedMap EXCEPT !.order = m.order, !.items = m.items, !.index = m.index]

\* Values answers from valuesCache when that is clean and not empty.
OrderedMapValues(m) ==
  IF m.order = <<>> \/ (~m.valuesDirty /\ m.valuesCache # NoCache) THEN m
  ELSE [m EXCEPT !.valuesCache = [i \in DOMAIN m.order |-> m.items[m.order[i]]], !.valuesDirty = FALSE]

OrderedMapFrom(m, keys) == FoldLeft(LAMBDA out, k : OrderedMapSet(out, k, m.items[k]), EmptyOrderedMap, keys)

\* WhereEntries, RejectEntries, Take and Drop build a map in the same order.
OrderedMapFilters(m, n, P) ==
  LET len == Len(m.order) IN
  { OrderedMapFrom(m, SelectSeq(m.order, LAMBDA k : m.items[k] \in P)),
    OrderedMapFrom(m, SelectSeq(m.order, LAMBDA k : m.items[k] \notin P)),
    IF n <= 0 \/ len = 0 THEN EmptyOrderedMap
    ELSE IF n >= len THEN OrderedMapClone(m) ELSE OrderedMapFrom(m, SubSeq(m.order, 1, n)),
    IF len = 0 \/ n >= len THEN EmptyOrderedMap
    ELSE IF n <= 0 THEN OrderedMapClone(m) ELSE OrderedMapFrom(m, SubSeq(m.order, n + 1, len)) }

\* FirstEntryWhere, AnyEntryMatch, AllEntryMatch
OrderedMapMatches(m, P) ==
  LET hits == { i \in DOMAIN m.order : m.items[m.order[i]] \in P } IN
  [first |-> IF hits = {} THEN <<>> ELSE OrderedMapAt(m, Min(hits) - 1),
   any |-> hits # {}, all |-> m.order # <<>> /\ hits = DOMAIN m.order]

\* Only items is encoded: the JSON object does not keep the order.
OrderedMapToJSON(m) == IF CacheAnswers(m) THEN m ELSE cacheSerializationData(m, m.items)

OrderedMapInit == omap = EmptyOrderedMap
OrderedMapNext ==
  omap' \in { OrderedMapSet(omap, k, v) : k \in Keys, v \in Vals } \cup { OrderedMapDelete(omap, k) : k \in Keys }
            \cup { OrderedMapClear(omap), OrderedMapClone(omap), OrderedMapValues(omap), OrderedMapToJSON(omap) }
            \cup UNION { OrderedMapFilters(omap, n, {v}) : v \in Vals, n \in 0..2 }

\* After any calls, items and index have exactly the keys of order, every key's
\* index is its place in order (Delete removes by it), and the cached values and
\* JSON, when they would be served, are those of the entries in that order.
OrderedMapConsistent ==
  /\ DOMAIN omap.items = Range(omap.order) /\ DOMAIN omap.index = Range(omap.order)
  /\ \A k \in DOMAIN omap.index : OrderedMapAt(omap, omap.index[k]) = <<k, omap.items[k]>>
  /\ ~omap.valuesDirty /\ omap.valuesCache # NoCache =>
        omap.valuesCache = [i \in DOMAIN omap.order |-> omap.items[omap.order[i]]]
  /\ CacheAnswers(omap) => omap.jsonCache = omap.items
  /\ \A v \in Vals : LET q == OrderedMapMatches(omap, {v})
                         f == MapQueries(omap.items, {v})
                     IN q.any = f.any /\ q.all = f.all /\ (q.first = <<>> \/ q.first[1] \in f.first)

-----------------------------------------------------------------------------
(* BiMap: kv and vk                                                        *)

BiMapPut(m, k, v) ==
  LET vk == IF k \in DOMAIN m.kv THEN DropKey(m.vk, m.kv[k]) ELSE m.vk
      kv == IF v \in DOMAIN vk THEN DropKey(m.kv, vk[v]) ELSE m.kv
  IN [kv |-> PutKey(kv, k, v), vk |-> PutKey(vk, v, k)]

BiMapDeleteByKey(m, k) ==
  IF k \notin DOMAIN m.kv THEN m ELSE [kv |-> DropKey(m.kv, k), vk |-> DropKey(m.vk, m.kv[k])]
BiMapDeleteByValue(m, v) ==
  IF v \notin DOMAIN m.vk THEN m ELSE [kv |-> DropKey(m.kv, m.vk[v]), vk |-> DropKey(m.vk, v)]
BiMapClear == [kv |-> EmptyItems, vk |-> EmptyItems]

BiMapInit == bimap = BiMapClear
BiMapNext ==
  bimap' \in { BiMapPut(bimap, k, v) : k \in Keys, v \in Vals } \cup { BiMapDeleteByKey(bimap, k) : k \in Keys }
             \cup { BiMapDeleteByValue(bimap, v) : v \in Vals } \cup { BiMapClear }

\* The two maps stay inverse of each other although Put replaces up to two pairs
\* at once: GetByKey and GetByValue never disagree, Inverse is the inverse of All.
BiMapOneToOne ==
  /\ { <<k, bimap.kv[k]>> : k \in DOMAIN bimap.kv } = { <<bimap.vk[v], v>> : v \in DOMAIN bimap.vk }
  /\ Cardinality(DOMAIN bimap.kv) = Cardinality(DOMAIN bimap.vk)

-----------------------------------------------------------------------------
(* MultiMap and ConcurrentMultiMap                                         *)

EmptyMultiMap == [items |-> EmptyItems, valueCount |-> 0, jsonCache |-> NoCache, jsonDirty |-> FALSE]
MultiGet(m, k) == IF k \in DOMAIN m.items THEN m.items[k] ELSE <<>>

MultiPutAll(m, k, vs) ==
  IF vs = <<>> THEN m
  ELSE invalidateSerializationCache([m EXCEPT !.items = PutKey(@, k, MultiGet(m, k) \o vs),
                                              !.valueCount = @ + Len(vs)])

MultiSet(m, k, vs) ==
  LET old == Len(MultiGet(m, k)) IN
  IF vs # <<>>
  THEN invalidateSerializationCache([m EXCEPT !.items = PutKey(@, k, vs), !.valueCount = @ + Len(vs) - old])
  ELSE LET next == [m EXCEPT !.items = DropKey(@, k), !.valueCount = @ - old]
       IN IF old > 0 THEN invalidateSerializationCache(next) ELSE next

MultiDelete(m, k) ==
  IF k \notin DOMAIN m.items THEN m
  ELSE invalidateSerializationCache([m EXCEPT !.items = DropKey(@, k), !.valueCount = @ - Len(m.items[k])])

MultiDeleteValueIf(m, k, P) ==
  LET next == SelectSeq(MultiGet(m, k), LAMBDA v : v \notin P)
      removed == Len(MultiGet(m, k)) - Len(next)
  IN IF removed = 0 THEN m
     ELSE invalidateSerializationCache(
            [m EXCEPT !.items = IF next = <<>> THEN DropKey(@, k) ELSE PutKey(@, k, next), !.valueCount = @ - removed])

MultiClear == EmptyMultiMap

\* Clone and NewMultiMapFromAll go through Set.
MultiFromAll(f) == FoldSet(LAMBDA k, m : MultiSet(m, k, f[k]), EmptyMultiMap, DOMAIN f)

\* WhereKeys, RejectKeys, WhereValues, RejectValues: built without touching a cache.
MultiFilters(m, P) ==
  LET total(f) == FoldSet(LAMBDA k, n : n + Len(f[k]), 0, DOMAIN f)
      built(f) == [EmptyMultiMap EXCEPT !.items = f, !.valueCount = total(f)]
      kept(k, want) == SelectSeq(m.items[k], LAMBDA v : (v \in P) = want)
      values(want) == [k \in { j \in DOMAIN m.items : kept(j, want) # <<>> } |-> kept(k, want)]
      keys(want) == Restrict(m.items, { k \in DOMAIN m.items : (\E i \in DOMAIN m.items[k] : m.items[k][i] \in P) = want })
  IN { built(keys(TRUE)), built(keys(FALSE)), built(values(TRUE)), built(values(FALSE)) }

\* AnyValueMatch, AllValuesMatch (asks the counter first) and the length of FlattenValues.
MultiMatches(m, P) ==
  [any |-> \E k \in DOMAIN m.items : \E i \in DOMAIN m.items[k] : m.items[k][i] \in P,
   all |-> m.valueCount # 0 /\ \A k \in DOMAIN m.items : \A i \in DOMAIN m.items[k] : m.items[k][i] \in P,
   flat |-> IF m.valueCount = 0 THEN 0 ELSE FoldSet(LAMBDA k, n : n + Len(m.items[k]), 0, DOMAIN m.items)]

MultiToJSON(m) == IF CacheAnswers(m) THEN m ELSE cacheSerializationData(m, m.items)

\* ConcurrentMultiMap: Put, PutAll and Set invalidate; Delete and DeleteValueIf
\* when something went.
LockedPutAll(c, k, vs) ==
  IF vs = <<>> THEN c ELSE LET d == EnsureCore(c, EmptyMultiMap) IN LockedSet(d, MultiPutAll(d.core, k, vs))
LockedMultiSet(c, k, vs) == LET d == EnsureCore(c, EmptyMultiMap) IN LockedSet(d, MultiSet(d.core, k, vs))
LockedMultiUpdate(c, core) == IF core.items = c.core.items THEN c ELSE LockedSet(c, core)
LockedMultiClear(c) == IF c.core = NoMap THEN c ELSE dropSerializationCache([c EXCEPT !.core = MultiClear])
LockedMultiToJSON(c) == IF CacheAnswers(c) THEN c ELSE cacheSerializationData(c, CoreItems(c))

ValueBatch == { <<>> } \cup { <<v>> : v \in Vals } \cup { <<v, w>> : v \in Vals, w \in Vals }
MultiFits(f) == \A k \in DOMAIN f : Len(f[k]) <= MaxValues

MultiInit == mmap = EmptyMultiMap
LockedMultiInit == cmmap = EmptyLocked
MultiNext ==
  mmap' \in { m \in { MultiPutAll(mmap, k, vs) : k \in Keys, vs \in ValueBatch }
                       \cup { MultiSet(mmap, k, vs) : k \in Keys, vs \in ValueBatch }
                       \cup { MultiDelete(mmap, k) : k \in Keys }
                       \cup { MultiDeleteValueIf(mmap, k, {v}) : k \in Keys, v \in Vals }
                       \cup { MultiClear, MultiToJSON(mmap), MultiFromAll(mmap.items) }
                       \cup UNION { MultiFilters(mmap, {v}) : v \in Vals } : MultiFits(m.items) }
LockedMultiNext ==
  cmmap' \in { c \in { LockedPutAll(cmmap, k, vs) : k \in Keys, vs \in ValueBatch }
                        \cup { LockedMultiSet(cmmap, k, vs) : k \in Keys, vs \in ValueBatch }
                        \cup (IF cmmap.core = NoMap THEN {}
                              ELSE { LockedMultiUpdate(cmmap, MultiDelete(cmmap.core, k)) : k \in Keys }
                                   \cup { LockedMultiUpdate(cmmap, MultiDeleteValueIf(cmmap.core, k, {v})) :
                                            k \in Keys, v \in Vals })
                        \cup { LockedMultiClear(cmmap), LockedMultiToJSON(cmmap) } : MultiFits(CoreItems(c)) }

\* ValueCount is the number of values under all keys after any mix of puts,
\* replacements, removals and filters, no key is left with an empty list (Len
\* counts keys), and neither cache serves entries that have gone.
MultiMapExact ==
  /\ \A m \in {mmap} \cup (IF cmmap.core = NoMap THEN {} ELSE {cmmap.core}) :
       /\ m.valueCount = FoldSet(LAMBDA k, n : n + Len(m.items[k]), 0, DOMAIN m.items)
       /\ \A k \in DOMAIN m.items : m.items[k] # <<>>
       /\ MultiMatches(m, Vals).flat = m.valueCount
       /\ MultiMatches(m, Vals).all = MultiMatches(m, Vals).any
  /\ CacheAnswers(mmap) => mmap.jsonCache = mmap.items
  /\ CacheAnswers(cmmap) => cmmap.jsonCache = CoreItems(cmmap)

-----------------------------------------------------------------------------
(* Table and ConcurrentTable                                               *)

EmptyTable == [items |-> EmptyItems, size |-> 0, columnKeysCache |-> NoCache, columnKeysDirty |-> FALSE,
               jsonCache |-> NoCache, jsonDirty |-> FALSE]
TableRow(t, r) == IF r \in DOMAIN t.items THEN t.items[r] ELSE EmptyItems

\* invalidateColumnKeysCache and invalidateSerializationCache
TableInvalidate(t) == invalidateSerializationCache([t EXCEPT !.columnKeysCache = NoCache, !.columnKeysDirty = TRUE])

\* A value over an existing cell leaves the caches as they are.
TablePut(t, r, c, v) ==
  LET next == [t EXCEPT !.items = PutKey(@, r, PutKey(TableRow(t, r), c, v))] IN
  IF c \in DOMAIN TableRow(t, r) THEN next ELSE TableInvalidate([next EXCEPT !.size = @ + 1])

TableSetRow(t, r, row) ==
  LET old == Cardinality(DOMAIN TableRow(t, r)) IN
  IF row # EmptyItems
  THEN TableInvalidate([t EXCEPT !.items = PutKey(@, r, row), !.size = @ + Cardinality(DOMAIN row) - old])
  ELSE LET next == [t EXCEPT !.items = DropKey(@, r), !.size = @ - old]
       IN IF old > 0 THEN TableInvalidate(next) ELSE next

TableDelete(t, r, c) ==
  IF c \notin DOMAIN TableRow(t, r) THEN t
  ELSE LET row == DropKey(t.items[r], c)
       IN TableInvalidate([t EXCEPT !.items = IF row = EmptyItems THEN DropKey(@, r) ELSE PutKey(@, r, row),
                                    !.size = @ - 1])

TableDeleteRow(t, r) ==
  IF r \notin DOMAIN t.items THEN t
  ELSE TableInvalidate([t EXCEPT !.items = DropKey(@, r), !.size = @ - Cardinality(DOMAIN t.items[r])])

TableColumn(t, c) == [r \in { r \in DOMAIN t.items : c \in DOMAIN t.items[r] } |-> t.items[r][c]]

TableDeleteColumn(t, c) ==
  LET removed == Cardinality(DOMAIN TableColumn(t, c))
      kept == { r \in DOMAIN t.items : DOMAIN t.items[r] \ {c} # {} }
      next == [t EXCEPT !.items = [r \in kept |-> DropKey(t.items[r], c)], !.size = @ - removed]
  IN IF removed > 0 THEN TableInvalidate(next) ELSE next

TableClear == EmptyTable
TableColumnSet(t) == UNION { DOMAIN t.items[r] : r \in DOMAIN t.items }

\* ColumnKeys answers from its cache when that is clean and not empty.
TableColumnKeys(t) ==
  IF t.items = EmptyItems \/ (~t.columnKeysDirty /\ t.columnKeysCache \notin {NoCache, {}}) THEN t
  ELSE [t EXCEPT !.columnKeysCache = TableColumnSet(t), !.columnKeysDirty = FALSE]

\* WhereRows, RejectRows through SetRow; WhereCells, RejectCells through Put.
TableFilters(t, P) ==
  LET rows(want) == { r \in DOMAIN t.items : (\E c \in DOMAIN t.items[r] : (t.items[r][c] \in P)) = want }
      cells(want) == { <<r, c>> \in (DOMAIN t.items) \X TableColumnSet(t) :
                         c \in DOMAIN t.items[r] /\ (t.items[r][c] \in P) = want }
      ofRows(S) == FoldSet(LAMBDA r, out : TableSetRow(out, r, t.items[r]), EmptyTable, S)
      ofCells(S) == FoldSet(LAMBDA p, out : TablePut(out, p[1], p[2], t.items[p[1]][p[2]]), EmptyTable, S)
  IN { ofRows(rows(TRUE)), ofRows(rows(FALSE)), ofCells(cells(TRUE)), ofCells(cells(FALSE)) }

TableToJSON(t) == IF CacheAnswers(t) THEN t ELSE cacheSerializationData(t, t.items)

\* ConcurrentTable: Put and SetRow always invalidate the wrapper's cache.
LockedTableUpdate(c, core) == LockedSet(c, core)
LockedTableCalls(c) ==
  LET d == EnsureCore(c, EmptyTable)
      changed(t) == IF t.size = c.core.size THEN c ELSE LockedSet(c, t)
  IN { LockedTableUpdate(d, TablePut(d.core, r, k, v)) : r \in Keys, k \in Columns, v \in Vals }
     \cup { LockedTableUpdate(d, TableSetRow(d.core, r, row)) : r \in Keys, row \in PartialMaps(Columns, Vals) }
     \cup (IF c.core = NoMap THEN {}
           ELSE { changed(TableDelete(c.core, r, k)) : r \in Keys, k \in Columns }
                \cup { changed(TableDeleteRow(c.core, r)) : r \in Keys }
                \cup { changed(TableDeleteColumn(c.core, k)) : k \in Columns }
                \cup { [c EXCEPT !.core = TableColumnKeys(@)], dropSerializationCache([c EXCEPT !.core = TableClear]) })
LockedTableToJSON(c) == IF CacheAnswers(c) THEN c ELSE cacheSerializationData(c, CoreItems(c))

TableInit == table = EmptyTable
LockedTableInit == ctable = EmptyLocked
TableNext ==
  table' \in { TablePut(table, r, c, v) : r \in Keys, c \in Columns, v \in Vals }
                \cup { TableSetRow(table, r, row) : r \in Keys, row \in PartialMaps(Columns, Vals) }
                \cup { TableDelete(table, r, c) : r \in Keys, c \in Columns }
                \cup { TableDeleteRow(table, r) : r \in Keys } \cup { TableDeleteColumn(table, c) : c \in Columns }
                \cup { TableClear, TableColumnKeys(table), TableToJSON(table) }
                \cup UNION { TableFilters(table, {v}) : v \in Vals }
LockedTableNext == ctable' \in LockedTableCalls(ctable) \cup { LockedTableToJSON(ctable) }

\* Len is the number of cells, no row is empty (RowCount counts rows), and the
\* cached column keys are those of the cells; a ConcurrentTable, which invalidates
\* its own cache on every Put, never serves old JSON. The JSON a plain Table serves
\* has exactly its cells, though Put over an existing cell does not invalidate it
\* and the old value is served for that cell.
TableExact ==
  /\ \A t \in {table} \cup (IF ctable.core = NoMap THEN {} ELSE {ctable.core}) :
       /\ t.size = FoldSet(LAMBDA r, n : n + Cardinality(DOMAIN t.items[r]), 0, DOMAIN t.items)
       /\ \A r \in DOMAIN t.items : t.items[r] # EmptyItems
       /\ ~t.columnKeysDirty /\ t.columnKeysCache # NoCache => t.columnKeysCache = TableColumnSet(t)
  /\ CacheAnswers(ctable) => ctable.jsonCache = CoreItems(ctable)
  /\ CacheAnswers(table) => /\ DOMAIN table.jsonCache = DOMAIN table.items
                            /\ \A r \in DOMAIN table.items : DOMAIN table.jsonCache[r] = DOMAIN table.items[r]
=============================================================================
