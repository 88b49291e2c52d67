--------------------------- MODULE CxSequences -----------------------------
(***************************************************************************)
(* collectionx/list: lists, plain and as ropes.                            *)
(***************************************************************************)
EXTENDS Integers, Sequences, FiniteSets, SequencesExt, CxCache

(***************************************************************************)
(* collectionx/list: List, ConcurrentList and Grid with their queries, and *)
(* the list functions of package collectionx. ConcurrentList runs each     *)
(* method under one mutex: a method is one step. Its ToJSON looks at the   *)
(* cache under the read lock first and again under the write lock; the     *)
(* first look has no effect, so that is one step too.                      *)
(***************************************************************************)

CONSTANTS
  Elems,      \* list items; naturals, so that Sort can compare them
  NoList,     \* ConcurrentList.core = nil
  MaxItems    \* bound: length of a list, cells of a grid

ASSUME ListsAssumption == Elems \subseteq Nat /\ MaxItems \in Nat

VARIABLES
  lst,     \* a List
  clst,    \* a ConcurrentList: core and a cache of its own
  grid     \* a Grid

listVars == <<lst>>
clistVars == <<clst>>
gridVars == <<grid>>

Batch == { <<>> } \cup { <<x>> : x \in Elems } \cup { <<x, y>> : x \in Elems, y \in Elems }
Ascending(a, b) == a < b

-----------------------------------------------------------------------------
(* List                                                                    *)

\* alloc tells an empty slice from a nil one.
EmptyList == [items |-> <<>>, alloc |-> FALSE, jsonCache |-> NoCache, jsonDirty |-> FALSE]

\* NewListWithCapacity adds the items, if any, to a list with room for them.
NewList(xs) ==
  IF xs = <<>> THEN EmptyList ELSE [EmptyList EXCEPT !.items = xs, !.alloc = TRUE, !.jsonDirty = TRUE]

ListUpdated(l, s) == invalidateSerializationCache([l EXCEPT !.items = s, !.alloc = TRUE])

ListAdd(l, xs) == IF xs = <<>> THEN l ELSE ListUpdated(l, l.items \o xs)

ListAddAllAt(l, i, xs) ==
  IF i \notin 0..Len(l.items) \/ xs = <<>> THEN l
  ELSE ListUpdated(l, SubSeq(l.items, 1, i) \o xs \o SubSeq(l.items, i + 1, Len(l.items)))

\* Get, GetFirst, GetLast and their Option forms: <<>> for no such item.
ListGet(l, i) == IF i \in 0..(Len(l.items) - 1) THEN <<l.items[i + 1]>> ELSE <<>>

ListSet(l, i, x) == IF ListGet(l, i) = <<>> THEN l ELSE ListUpdated(l, [l.items EXCEPT ![i + 1] = x])

\* SetAll is SetAllIndexed with a mapper that ignores the index.
ListSetAllIndexed(l, mapper) ==
  IF l.items = <<>> THEN l
  ELSE ListUpdated(l, [i \in DOMAIN l.items |-> mapper[i - 1, l.items[i]]])

ListRemoveAt(l, i) == IF ListGet(l, i) = <<>> THEN l ELSE ListUpdated(l, RemoveAt(l.items, i + 1))

ListRemoveIf(l, P) ==
  LET kept == SelectSeq(l.items, LAMBDA x : x \notin P)
  IN IF kept = l.items THEN l ELSE ListUpdated(l, kept)

ListClear(l) == dropSerializationCache([l EXCEPT !.items = <<>>, !.alloc = FALSE])
ListClone(l) == IF l.items = <<>> THEN EmptyList ELSE [EmptyList EXCEPT !.items = l.items, !.alloc = TRUE]
ListSort(l) == IF Len(l.items) < 2 THEN l ELSE ListUpdated(l, SortSeq(l.items, Ascending))

\* marshalListJSON of the items: null for a nil slice.
MarshalList(l) == IF l.alloc THEN l.items ELSE Null
ListToJSON(l) == IF CacheAnswers(l) THEN l ELSE cacheSerializationData(l, MarshalList(l))

\* Where, Reject, Take, Drop, FirstWhere, AnyMatch and AllMatch on the items; a
\* predicate sees index and item. AllMatch of an empty list is false.
ListQueries(s, n, P) ==
  LET hits == { i \in DOMAIN s : s[i] \in P } IN
  [where  |-> [j \in 1..Cardinality(hits) |-> s[SetToSortSeq(hits, Ascending)[j]]],
   reject |-> LET rest == DOMAIN s \ hits
              IN [j \in 1..Cardinality(rest) |-> s[SetToSortSeq(rest, Ascending)[j]]],
   take   |-> SubSeq(s, 1, IF n < Len(s) THEN n ELSE Len(s)),
   drop   |-> SubSeq(s, IF n > 0 THEN n + 1 ELSE 1, Len(s)),
   first  |-> IF hits = {} THEN <<>> ELSE <<s[Min(hits)]>>,
   any    |-> hits # {},
   all    |-> s # <<>> /\ hits = DOMAIN s]

\* mapper[index, item] and key[item] are functions.  MapList, FilterMapList, FlatMapList, FindList, ReduceErrList, GroupByList and
\* AssociateList for a mapper to a set of output items: one operator per result.
MapList(s, mapper) == [i \in DOMAIN s |-> mapper[i - 1, s[i]]]
FlatMapList(s, mapper) == FoldLeft(LAMBDA acc, i : acc \o mapper[i - 1, s[i]], <<>>, [i \in DOMAIN s |-> i])
ReduceErrList(s, init, step, failing) ==
  FoldLeft(LAMBDA acc, x :
             CASE acc.err -> acc
               [] ~acc.err /\ x \in failing -> [acc EXCEPT !.err = TRUE]
               [] OTHER -> [acc EXCEPT !.value = step[@, x]],
           [value |-> init, err |-> FALSE], s)
GroupByList(s, key) == [k \in { key[s[i]] : i \in DOMAIN s } |-> SelectSeq(s, LAMBDA x : key[x] = k)]
AssociateList(s, key) ==
  [k \in { key[s[i]] : i \in DOMAIN s } |-> s[Max({ i \in DOMAIN s : key[s[i]] = k })]]

\* Join: items and separators alternate; text is the sequence of its pieces.
ListJoin(s, sep) == FoldLeft(LAMBDA out, x : IF out = <<>> THEN <<x>> ELSE out \o <<sep, x>>, <<>>, s)

Bumped == [i \in 0..MaxItems, x \in Elems |-> IF x + 1 \in Elems THEN x + 1 ELSE Min(Elems)]

\* The lists one call of a mutator makes of l.
ListCalls(l) ==
  { ListAdd(l, xs) : xs \in Batch }
  \cup { ListAddAllAt(l, i, xs) : i \in -1..(Len(l.items) + 1), xs \in Batch }
  \cup { ListSet(l, i, x) : i \in -1..Len(l.items), x \in Elems }
  \cup { ListRemoveAt(l, i) : i \in -1..Len(l.items) }
  \cup { ListRemoveIf(l, {x}) : x \in Elems }
  \cup { ListSetAllIndexed(l, Bumped), ListClear(l), ListSort(l) }

ListInit == lst \in { NewList(xs) : xs \in Batch }
ListCall == lst' \in { l \in ListCalls(lst) : Len(l.items) <= MaxItems }
ListToJSONCall == lst' = ListToJSON(lst)
ListCloneCall == lst' = ListClone(lst)
ListNext == ListCall \/ ListToJSONCall \/ ListCloneCall

\* A clean cache is what encoding the list now would give: no mutator, in any
\* order with ToJSON, Clear and Clone, leaves an old encoding to be served.
ListCacheFresh == CacheAnswers(lst) => lst.jsonCache = MarshalList(lst)

\* The derived lists agree with each other on every reachable list: Where and
\* Reject split it, Take and Drop split it, grouping keeps every item once and in
\* order, and reducing stops at the first error with the value before it.
ListQueriesAgree ==
  \A x \in Elems, n \in -1..(MaxItems + 1) :
    LET s == lst.items
        q == ListQueries(s, n, {x})
        r == ReduceErrList(s, 0, [acc \in 0..MaxItems, y \in Elems |-> acc + 1], {x})
    IN /\ q.where = SelectSeq(s, LAMBDA y : y = x)
       /\ Len(q.where) + Len(q.reject) = Len(s) /\ q.any = (q.where # <<>>)
       /\ q.all => q.reject = <<>> /\ q.any
       /\ (IF n > 0 THEN q.take ELSE <<>>) \o q.drop = s
       /\ q.first = (IF q.where = <<>> THEN <<>> ELSE <<Head(q.where)>>)
       /\ r.err = q.any /\ r.value = (IF q.any THEN Min({ i \in DOMAIN s : s[i] = x }) - 1 ELSE Len(s))
       /\ LET g == GroupByList(s, [y \in Elems |-> y % 2])
          IN \A k \in DOMAIN g : /\ g[k] = SelectSeq(s, LAMBDA y : y % 2 = k)
                                 /\ AssociateList(s, [y \in Elems |-> y % 2])[k] = Last(g[k])
       /\ FlatMapList(s, [i \in 0..MaxItems, y \in Elems |-> IF y = x THEN <<>> ELSE <<y>>]) = q.reject
       /\ MapList(s, [i \in 0..MaxItems, y \in Elems |-> i]) = [i \in DOMAIN s |-> i - 1]
       /\ Len(ListJoin(s, Null)) = (IF s = <<>> THEN 0 ELSE 2 * Len(s) - 1)

-----------------------------------------------------------------------------
(* ConcurrentList: a List under a lock, and a cache of its own over it     *)

EmptyConcurrentList == [core |-> NoList, jsonCache |-> NoCache, jsonDirty |-> FALSE]

ListCoreItems(c) == IF c.core = NoList THEN <<>> ELSE c.core.items

\* A mutator stores what the inner list made of the call and invalidates when the
\* inner call reported a change.
ListCoreChanged(c, core) == invalidateSerializationCache([c EXCEPT !.core = core])

ensureListInit(c) == IF c.core = NoList THEN [c EXCEPT !.core = EmptyList] ELSE c

ConcurrentListAdd(c, xs) ==
  IF xs = <<>> THEN c ELSE ListCoreChanged(ensureListInit(c), ListAdd(ensureListInit(c).core, xs))
ConcurrentListAddAllAt(c, i, xs) ==
  LET d == ensureListInit(c)
      next == ListAddAllAt(d.core, i, xs)
  IN IF i \in 0..Len(d.core.items) /\ xs # <<>> THEN ListCoreChanged(d, next) ELSE [d EXCEPT !.core = next]

\* Set, SetAll, SetAllIndexed, RemoveAt, RemoveIf: nothing without an inner list.
ConcurrentListUpdates(c) ==
  IF c.core = NoList THEN {}
  ELSE { ListCoreChanged(c, ListSet(c.core, i, x)) : i \in 0..(Len(c.core.items) - 1), x \in Elems }
       \cup { ListCoreChanged(c, ListRemoveAt(c.core, i)) : i \in 0..(Len(c.core.items) - 1) }
       \cup { ListCoreChanged(c, ListRemoveIf(c.core, {x})) : x \in Range(c.core.items) }
       \cup { ListCoreChanged(c, ListSetAllIndexed(c.core, Bumped)) : n \in 1..Len(c.core.items) }

ConcurrentListClear(c) ==
  IF c.core = NoList THEN c ELSE dropSerializationCache([c EXCEPT !.core = ListClear(c.core)])

ConcurrentListMarshal(c) == IF c.core = NoList THEN Null ELSE MarshalList(c.core)
ConcurrentListToJSON(c) == IF CacheAnswers(c) THEN c ELSE cacheSerializationData(c, ConcurrentListMarshal(c))

\* Values, Get, Range, Join and, through Snapshot, the queries: reads of a copy.
ListSnapshot(c) == IF c.core = NoList THEN EmptyList ELSE ListClone(c.core)

ConcurrentListInit == clst = EmptyConcurrentList
ConcurrentListCall ==
  clst' \in { c \in { ConcurrentListAdd(clst, xs) : xs \in Batch }
                    \cup { ConcurrentListAddAllAt(clst, i, xs) : i \in -1..(Len(ListCoreItems(clst)) + 1), xs \in Batch }
                    \cup ConcurrentListUpdates(clst) \cup { ConcurrentListClear(clst) } :
              Len(ListCoreItems(c)) <= MaxItems }
ConcurrentListToJSONCall == clst' = ConcurrentListToJSON(clst)
\* MergeConcurrent with the list itself: Values under one lock, Add under the next.
ConcurrentListMergeSelf ==
  /\ 2 * Len(ListCoreItems(clst)) <= MaxItems
  /\ clst' = ConcurrentListAdd(clst, ListSnapshot(clst).items)
ConcurrentListNext == ConcurrentListCall \/ ConcurrentListToJSONCall \/ ConcurrentListMergeSelf

\* The wrapper encodes the inner items itself and caches apart from the inner
\* list: its cache too is dropped by whatever changes those items.
ConcurrentListCacheFresh ==
  /\ CacheAnswers(clst) => clst.jsonCache = ConcurrentListMarshal(clst)
  /\ ListSnapshot(clst).items = ListCoreItems(clst)

-----------------------------------------------------------------------------
(* Grid: rows and a counter of their cells                                 *)

CellCount(rows) == FoldLeft(LAMBDA n, row : n + Len(row), 0, rows)

appendOwnedRow(g, row) == [rows |-> Append(g.rows, row), size |-> g.size + Len(row)]

\* AddRow, AddRowList, AddRows, AddRowsList and Merge append the rows one by one.
GridAddRows(g, rows) == FoldLeft(appendOwnedRow, g, rows)

GridSetRow(g, i, row) ==
  IF i \notin 1..Len(g.rows) THEN g
  ELSE [rows |-> [g.rows EXCEPT ![i] = row], size |-> g.size + Len(row) - Len(g.rows[i])]

GridRemoveRow(g, i) ==
  IF i \notin 1..Len(g.rows) THEN g
  ELSE [rows |-> RemoveAt(g.rows, i), size |-> g.size - Len(g.rows[i])]

GridSet(g, i, j, x) ==
  IF i \in 1..Len(g.rows) /\ j \in 1..Len(g.rows[i]) THEN [g EXCEPT !.rows[i][j] = x] ELSE g

GridClear == [rows |-> <<>>, size |-> 0]
newGridFromRowLists(rows) == [rows |-> rows, size |-> CellCount(rows)]

\* WhereRows, RejectRows, TakeRows and DropRows build a grid of copied rows.
GridRowQueries(g, n, P) ==
  [where  |-> GridAddRows(GridClear, SelectSeq(g.rows, LAMBDA r : r \in P)),
   reject |-> GridAddRows(GridClear, SelectSeq(g.rows, LAMBDA r : r \notin P)),
   take   |-> newGridFromRowLists(SubSeq(g.rows, 1, IF n < Len(g.rows) THEN n ELSE Len(g.rows))),
   drop   |-> newGridFromRowLists(SubSeq(g.rows, IF n > 0 THEN n + 1 ELSE 1, Len(g.rows)))]

\* WhereCells and RejectCells keep the matching cells and drop emptied rows;
\* FirstCellWhere goes row by row; AllCellsMatch asks the counter first.
GridCellQueries(g, P) ==
  LET kept(in) == SelectSeq([i \in DOMAIN g.rows |-> SelectSeq(g.rows[i], LAMBDA x : (x \in P) = in)], LAMBDA r : r # <<>>)
      hits == { <<i, j>> \in (1..Len(g.rows)) \X (1..MaxItems) : j <= Len(g.rows[i]) /\ g.rows[i][j] \in P }
  IN [where  |-> GridAddRows(GridClear, kept(TRUE)),
      reject |-> GridAddRows(GridClear, kept(FALSE)),
      first  |-> { h \in hits : \A k \in hits : h[1] < k[1] \/ (h[1] = k[1] /\ h[2] <= k[2]) },
      any    |-> hits # {},
      all    |-> g.size # 0 /\ \A i \in DOMAIN g.rows, j \in 1..MaxItems : j <= Len(g.rows[i]) => <<i, j>> \in hits]

\* ConcurrentGrid runs the same operations under its mutex, its queries on a Snapshot.
ConcurrentGridCalls(g) ==
  { GridAddRows(g, rows) : rows \in { <<r>> : r \in Batch } \cup { <<<<>>, r>> : r \in Batch } \cup { g.rows } }
  \cup { GridSetRow(g, i, r) : i \in 0..(Len(g.rows) + 1), r \in Batch }
  \cup { GridRemoveRow(g, i) : i \in 0..(Len(g.rows) + 1) }
  \cup { GridSet(g, i, j, x) : i \in 1..Len(g.rows), j \in 1..2, x \in Elems }
  \cup { GridClear }

GridInit == grid = GridClear
GridCall == grid' \in { g \in ConcurrentGridCalls(grid) : g.size <= MaxItems /\ Len(g.rows) <= MaxItems }
GridNext == GridCall

\* The counter Len answers with is the number of cells, whatever rows of whatever
\* length came, went and were replaced, and the derived grids count theirs right:
\* matching and rejected cells together are all the cells.
GridSizeExact ==
  /\ grid.size = CellCount(grid.rows)
  /\ \A x \in Elems :
       LET q == GridCellQueries(grid, {x})
           r == GridRowQueries(grid, x, { row \in Range(grid.rows) : Len(row) = x })
       IN /\ q.where.size + q.reject.size = grid.size
          /\ q.any = (q.where.size > 0) /\ q.all => q.reject.size = 0
          /\ Cardinality(q.first) = (IF q.any THEN 1 ELSE 0)
          /\ r.where.size + r.reject.size = grid.size /\ r.take.size + r.drop.size = grid.size

-----------------------------------------------------------------------------
(***************************************************************************)
(* collectionx/list.RopeList: a list kept as a binary tree of chunks, with *)
(* chunk splitting, compaction and rebalancing. A node is a leaf with its  *)
(* items or an inner node with two children; every node carries the length *)
(* the code maintains by hand. LeafSize stands for the constant            *)
(* ropeLeafSize (64), small so that splits and rebuilds happen.            *)
(***************************************************************************)

CONSTANTS
  RopeItems,  \* the items
  LeafSize,   \* ropeLeafSize
  NoNode,     \* a nil *ropeNode
  MaxRope     \* bound: length of the list

ASSUME RopeAssumption == LeafSize \in Nat \ {0} /\ MaxRope \in Nat

VARIABLES
  rope,     \* RopeList: root and len
  ropeRef   \* the sequence it stands for

ropeVars == <<rope, ropeRef>>

Leaf(s) == [leaf |-> s, length |-> Len(s)]
isLeaf(n) == "leaf" \in DOMAIN n
nodeLen(n) == IF n = NoNode THEN 0 ELSE n.length

RECURSIVE buildRope(_)
buildRope(s) ==
  CASE s = <<>> -> NoNode
    [] Len(s) \in 1..LeafSize -> Leaf(s)
    [] OTHER -> LET mid == Len(s) \div 2
                    l == buildRope(SubSeq(s, 1, mid))
                    r == buildRope(SubSeq(s, mid + 1, Len(s)))
                IN [left |-> l, right |-> r, length |-> nodeLen(l) + nodeLen(r)]

RECURSIVE flatten(_)
flatten(n) ==
  CASE n = NoNode -> <<>>
    [] n # NoNode /\ isLeaf(n) -> n.leaf
    [] OTHER -> flatten(n.left) \o flatten(n.right)

RECURSIVE at(_, _)
at(n, i) ==
  CASE isLeaf(n) -> n.leaf[i + 1]
    [] ~isLeaf(n) /\ i < nodeLen(n.left) -> at(n.left, i)
    [] OTHER -> at(n.right, i - nodeLen(n.left))

RECURSIVE setAt(_, _, _)
setAt(n, i, x) ==
  CASE isLeaf(n) -> [n EXCEPT !.leaf[i + 1] = x]
    [] ~isLeaf(n) /\ i < nodeLen(n.left) -> [n EXCEPT !.left = setAt(n.left, i, x)]
    [] OTHER -> [n EXCEPT !.right = setAt(n.right, i - nodeLen(n.left), x)]

recomputeLength(n) ==
  [n EXCEPT !.length = IF isLeaf(n) THEN Len(n.leaf) ELSE nodeLen(n.left) + nodeLen(n.right)]

\* A missing child is replaced by the other; two leaves that fit in one are merged.
compact(n) ==
  IF n = NoNode \/ isLeaf(n) THEN n
  ELSE IF n.left = NoNode THEN n.right
  ELSE IF n.right = NoNode THEN n.left
  ELSE IF isLeaf(n.left) /\ isLeaf(n.right) /\ Len(n.left.leaf) + Len(n.right.leaf) <= LeafSize
       THEN Leaf(n.left.leaf \o n.right.leaf)
  ELSE n

\* Rebuild a subtree of more than two leaves' worth when one side has more than
\* four times the items of the other.
rebalanceIfNeeded(n) ==
  IF n = NoNode \/ isLeaf(n) THEN n
  ELSE LET l == nodeLen(n.left)
           r == nodeLen(n.right)
       IN IF l = 0 \/ r = 0 THEN compact(n)
          ELSE IF n.length <= LeafSize * 2 \/ (l <= r * 4 /\ r <= l * 4) THEN n
          ELSE buildRope(flatten(n))

\* A full leaf splits in the middle of its items and the new one.
insertIntoLeaf(n, i, x) ==
  LET merged == InsertAt(n.leaf, i + 1, x)
      mid == Len(merged) \div 2
  IN IF Len(n.leaf) < LeafSize THEN Leaf(merged)
     ELSE [left |-> Leaf(SubSeq(merged, 1, mid)), right |-> Leaf(SubSeq(merged, mid + 1, Len(merged))),
           length |-> Len(merged)]

RECURSIVE insertAt(_, _, _)
insertAt(n, i, x) ==
  CASE n = NoNode -> Leaf(<<x>>)
    [] n # NoNode /\ isLeaf(n) -> insertIntoLeaf(n, i, x)
    [] OTHER ->
         rebalanceIfNeeded(recomputeLength(
           IF i <= nodeLen(n.left) THEN [n EXCEPT !.left = insertAt(n.left, i, x)]
           ELSE [n EXCEPT !.right = insertAt(n.right, i - nodeLen(n.left), x)]))

\* An emptied leaf disappears; on the way up nodes are compacted and rebalanced.
RECURSIVE removeAt(_, _)
removeAt(n, i) ==
  IF isLeaf(n) THEN IF Len(n.leaf) = 1 THEN NoNode ELSE Leaf(RemoveAt(n.leaf, i + 1))
  ELSE LET m == compact(IF i < nodeLen(n.left) THEN [n EXCEPT !.left = removeAt(n.left, i)]
                        ELSE [n EXCEPT !.right = removeAt(n.right, i - nodeLen(n.left))])
       IN IF m = NoNode THEN m ELSE rebalanceIfNeeded(recomputeLength(m))

-----------------------------------------------------------------------------
\* Add: an empty list is built at once, otherwise item by item at the end.
RopeAdd(r, xs) ==
  IF r.root = NoNode THEN [root |-> buildRope(xs), len |-> Len(xs)]
  ELSE FoldLeft(LAMBDA q, x : [root |-> insertAt(q.root, q.len, x), len |-> q.len + 1], r, xs)

\* InsertAt: an empty list becomes one leaf, however long.
RopeInsertAt(r, i, xs) ==
  CASE i \notin 0..r.len \/ xs = <<>> -> r
    [] i \in 0..r.len /\ xs # <<>> /\ r.root = NoNode -> [root |-> Leaf(xs), len |-> Len(xs)]
    [] OTHER -> FoldLeft(LAMBDA q, k : [root |-> insertAt(q.root, i + k - 1, xs[k]), len |-> q.len + 1],
                         r, [k \in DOMAIN xs |-> k])

RopeGet(r, i) == IF r.root = NoNode \/ i \notin 0..(r.len - 1) THEN <<>> ELSE <<at(r.root, i)>>
RopeSet(r, i, x) == IF RopeGet(r, i) = <<>> THEN r ELSE [r EXCEPT !.root = setAt(r.root, i, x)]
RopeRemoveAt(r, i) ==
  IF RopeGet(r, i) = <<>> THEN r ELSE [root |-> removeAt(r.root, i), len |-> r.len - 1]

\* RemoveIf, SetAll and SetAllIndexed flatten, work on the slice and build anew.
RopeRemoveIf(r, x) ==
  LET kept == SelectSeq(flatten(r.root), LAMBDA y : y # x)
  IN IF Len(kept) = r.len THEN r ELSE [root |-> buildRope(kept), len |-> Len(kept)]
RopeSetAll(r, x) ==
  IF r.root = NoNode THEN r ELSE [r EXCEPT !.root = buildRope([i \in 1..Len(flatten(r.root)) |-> x])]

RopeClear == [root |-> NoNode, len |-> 0]

Strings == UNION { [1..k -> RopeItems] : k \in 1..3 }

RopeInit == rope = RopeClear /\ ropeRef = <<>>

RopeAddCall(xs) ==
  /\ Len(ropeRef) + Len(xs) <= MaxRope
  /\ rope' = RopeAdd(rope, xs) /\ ropeRef' = ropeRef \o xs
RopeInsertCall(i, xs) ==
  /\ Len(ropeRef) + Len(xs) <= MaxRope
  /\ rope' = RopeInsertAt(rope, i, xs)
  /\ ropeRef' = SubSeq(ropeRef, 1, i) \o xs \o SubSeq(ropeRef, i + 1, Len(ropeRef))
RopeSetCall(i, x) ==
  /\ rope' = RopeSet(rope, i, x)
  /\ ropeRef' = IF i \in 0..(Len(ropeRef) - 1) THEN [ropeRef EXCEPT ![i + 1] = x] ELSE ropeRef
RopeRemoveCall(i) ==
  /\ rope' = RopeRemoveAt(rope, i)
  /\ ropeRef' = IF i \in 0..(Len(ropeRef) - 1) THEN RemoveAt(ropeRef, i + 1) ELSE ropeRef
RopeRemoveIfCall(x) == rope' = RopeRemoveIf(rope, x) /\ ropeRef' = SelectSeq(ropeRef, LAMBDA y : y # x)
RopeSetAllCall(x) == rope' = RopeSetAll(rope, x) /\ ropeRef' = [i \in DOMAIN ropeRef |-> x]
RopeClearCall == rope' = RopeClear /\ ropeRef' = <<>>

RopeNext ==
  \/ \E xs \in Strings :
       RopeAddCall(xs) \/ \E i \in 0..Len(ropeRef) : RopeInsertCall(i, xs)
  \/ \E i \in -1..MaxRope : RopeRemoveCall(i) \/ \E x \in RopeItems : RopeSetCall(i, x)
  \/ \E x \in RopeItems : RopeRemoveIfCall(x) \/ RopeSetAllCall(x)
  \/ RopeClearCall

-----------------------------------------------------------------------------
RECURSIVE Nodes(_)
Nodes(n) ==
  CASE n = NoNode -> {}
    [] n # NoNode /\ isLeaf(n) -> {n}
    [] OTHER -> {n} \cup Nodes(n.left) \cup Nodes(n.right)

\* Through splits, merges and rebuilds the tree holds the list: flattening it and
\* reading any index give the same items, and every length kept in a node and in
\* the list is the number of items below it.
RopeIsSequence ==
  /\ flatten(rope.root) = ropeRef /\ rope.len = Len(ropeRef)
  /\ \A n \in Nodes(rope.root) : n.length = Len(flatten(n))
  /\ \A i \in DOMAIN ropeRef : RopeGet(rope, i - 1) = <<ropeRef[i]>>

\* Insertions and removals in any order leave no empty chunk and no node with one
\* child, and no subtree of more than two leaves' worth is lopsided beyond 4 : 1.
RopeBalanced ==
  \A n \in Nodes(rope.root) :
    IF isLeaf(n) THEN n.leaf # <<>>
    ELSE /\ n.left # NoNode /\ n.right # NoNode
         /\ n.length > LeafSize * 2 =>
              n.left.length <= 4 * n.right.length /\ n.right.length <= 4 * n.left.length
=============================================================================
