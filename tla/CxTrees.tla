----------------------------- MODULE CxTrees -------------------------------
(***************************************************************************)
(* collectionx/tree and collectionx/prefix: structures of nodes.           *)
(***************************************************************************)
EXTENDS Integers, Sequences, FiniteSets, SequencesExt

(***************************************************************************)
(* collectionx/tree: Tree, built from entries and changed by AddRoot,      *)
(* AddChild, Move, Remove and SetValue, its traversals, and the copies     *)
(* ConcurrentTree hands out. ConcurrentTree runs the same operations under *)
(* its mutex, so a call is one step.                                       *)
(***************************************************************************)

CONSTANTS
  NodeIds,    \* node ids
  NodeVals    \* node values

VARIABLE tree   \* [value, parent, children: one per node; roots]

treeVars == <<tree>>

NoParent == <<>>
EmptyTree == [value |-> << >>, parent |-> << >>, children |-> << >>, roots |-> <<>>]
Ids(t) == DOMAIN t.value
Has(t, id) == id \in Ids(t)

newNode(t, id, v, parent) ==
  [t EXCEPT !.value = (id :> v) @@ @, !.parent = (id :> parent) @@ @, !.children = (id :> <<>>) @@ @]

\* The k-th node of the parent chain of id, 0 being id itself; <<>> past the root.
Up(t, id, k) ==
  LET up[i \in 0..k] == IF i = 0 THEN <<id>> ELSE IF up[i - 1] = <<>> THEN <<>> ELSE t.parent[up[i - 1][1]]
  IN up[k]
AncestorSet(t, id) == { x \in Ids(t) : \E k \in 1..Cardinality(Ids(t)) : Up(t, id, k) = <<x>> }

-----------------------------------------------------------------------------
(* Build                                                                   *)

\* Every entry, in order, is made a node (a second one with the id is an error),
\* then hung under its parent (an unknown one is an error) or among the roots.
addBuildNodes(entries) ==
  FoldLeft(LAMBDA r, e : CASE r.err # "" -> r
                           [] r.err = "" /\ Has(r.tree, e.id) -> [r EXCEPT !.err = "exists"]
                           [] OTHER -> [r EXCEPT !.tree = newNode(@, e.id, e.value, NoParent)],
           [tree |-> EmptyTree, err |-> ""], entries)
linkBuildNodes(t, entries) ==
  FoldLeft(LAMBDA r, e : IF r.err # "" THEN r
                         ELSE IF e.parent = NoParent THEN [r EXCEPT !.tree.roots = Append(@, e.id)]
                         ELSE IF ~Has(r.tree, e.parent[1]) THEN [r EXCEPT !.err = "noParent"]
                         ELSE [r EXCEPT !.tree.parent[e.id] = e.parent,
                                        !.tree.children[e.parent[1]] = Append(@, e.id)],
           [tree |-> t, err |-> ""], entries)

hasTreeCycle(t) == \E id \in Ids(t) : Up(t, id, Cardinality(Ids(t))) # <<>>

Build(entries) ==
  LET added == addBuildNodes(entries)
      linked == linkBuildNodes(added.tree, entries)
  IN IF added.err # "" THEN added
     ELSE IF linked.err # "" THEN linked
     ELSE IF hasTreeCycle(linked.tree) THEN [linked EXCEPT !.err = "cycle"] ELSE linked

-----------------------------------------------------------------------------
(* Changes                                                                 *)

AddRoot(t, id, v) == IF Has(t, id) THEN t ELSE [newNode(t, id, v, NoParent) EXCEPT !.roots = Append(@, id)]
AddChild(t, parent, id, v) ==
  IF Has(t, id) \/ ~Has(t, parent) THEN t
  ELSE [newNode(t, id, v, <<parent>>) EXCEPT !.children[parent] = Append(@, id)]

Without(s, id) == SelectSeq(s, LAMBDA x : x # id)
detach(t, id) ==
  IF t.parent[id] # NoParent THEN [t EXCEPT !.children[t.parent[id][1]] = Without(@, id), !.parent[id] = NoParent]
  ELSE [t EXCEPT !.roots = Without(@, id)]

\* Fault: Move looks for the node among its new parent's parent only.
MoveShortCheck(t, id, parent) ==
  IF ~Has(t, id) \/ ~Has(t, parent) \/ id = parent \/ t.parent[parent] = <<id>> THEN t
  ELSE LET d == detach(t, id) IN [d EXCEPT !.parent[id] = <<parent>>, !.children[parent] = Append(@, id)]

Move(t, id, parent) ==
  IF ~Has(t, id) \/ ~Has(t, parent) \/ id = parent \/ id \in AncestorSet(t, parent) THEN t
  ELSE LET d == detach(t, id) IN [d EXCEPT !.parent[id] = <<parent>>, !.children[parent] = Append(@, id)]

\* Remove: detach, then removeSubtree deletes the node and everything below it.
Remove2(t, id) ==
  IF ~Has(t, id) THEN t
  ELSE LET d == detach(t, id)
           kept == { x \in Ids(d) : x # id /\ id \notin AncestorSet(d, x) }
       IN [value |-> Restrict(d.value, kept), parent |-> Restrict(d.parent, kept),
           children |-> Restrict(d.children, kept), roots |-> d.roots]
SetValue(t, id, v) == IF Has(t, id) THEN [t EXCEPT !.value[id] = v] ELSE t

-----------------------------------------------------------------------------
(* Traversals and copies                                                   *)

Concat(ss) == FoldLeft(LAMBDA out, s : out \o s, <<>>, ss)

\* A stack that takes children last to first walks in pre-order.
PreOrder(t, id) ==
  LET pre[x \in Ids(t)] == <<x>> \o Concat([i \in DOMAIN t.children[x] |-> pre[t.children[x][i]]]) IN pre[id]
Descendants(t, id) == IF Has(t, id) THEN Tail(PreOrder(t, id)) ELSE <<>>
RangeDFS(t) == Concat([i \in DOMAIN t.roots |-> PreOrder(t, t.roots[i])])
Ancestors(t, id) ==
  LET chain == [k \in 1..Cardinality(AncestorSet(t, id)) |-> Up(t, id, k)[1]] IN IF Has(t, id) THEN chain ELSE <<>>

\* Clone copies the roots, then each node's children in their order; ToJSON nests
\* the nodes the same way.
CloneTree(t) == FoldLeft(LAMBDA c, id : [newNode(c, id, t.value[id], t.parent[id]) EXCEPT !.children[id] = t.children[id]],
                         [EmptyTree EXCEPT !.roots = t.roots], RangeDFS(t))
toJSONNodes(t) ==
  LET node[x \in Ids(t)] == [id |-> x, value |-> t.value[x],
                             children |-> [i \in DOMAIN t.children[x] |-> node[t.children[x][i]]]]
  IN [i \in DOMAIN t.roots |-> node[t.roots[i]]]

\* cloneSubtreeDetached adds the children to the copy last to first; the descendants
\* it collects come off its stack in the order of the original.
cloneSubtreeDetached(t, id) ==
  LET below == Range(PreOrder(t, id))
  IN [value |-> Restrict(t.value, below), parent |-> [Restrict(t.parent, below) EXCEPT ![id] = NoParent],
      children |-> [x \in below |-> Reverse(t.children[x])], roots |-> <<id>>]
ConcurrentDescendants(t, id) == IF Has(t, id) THEN Tail(PreOrder(t, id)) ELSE <<>>

\* Get and Parent: the copy of the subtree, and above it a chain of single copies.
cloneNodeWithAncestors(t, id) ==
  [sub |-> cloneSubtreeDetached(t, id), above |-> Ancestors(t, id)]

\* RangeDFS of a ConcurrentTree walks copies of the roots.
ConcurrentRangeDFS(t) == Concat([i \in DOMAIN t.roots |-> PreOrder(cloneSubtreeDetached(t, t.roots[i]), t.roots[i])])

-----------------------------------------------------------------------------
EntrySet == [id : NodeIds, parent : {NoParent} \cup { <<x>> : x \in NodeIds }, value : NodeVals]
EntryLists == UNION { [1..n -> EntrySet] : n \in 0..2 }
              \cup { [i \in 1..3 |-> [id |-> s[i], parent |-> p[i], value |-> Min(NodeVals)]] :
                       s \in [1..3 -> NodeIds], p \in [1..3 -> {NoParent} \cup { <<x>> : x \in NodeIds }] }

TreeInit == tree \in { Build(es).tree : es \in { es \in EntryLists : Build(es).err = "" } }
TreeChange ==
  tree' \in { AddRoot(tree, id, v) : id \in NodeIds, v \in NodeVals }
            \cup { AddChild(tree, p, id, v) : p \in NodeIds, id \in NodeIds, v \in NodeVals }
            \cup { Move(tree, id, p) : id \in NodeIds, p \in NodeIds } \cup { Remove2(tree, id) : id \in NodeIds }
            \cup { SetValue(tree, id, v) : id \in NodeIds, v \in NodeVals } \cup { EmptyTree }
TreeClone == tree' = CloneTree(tree)
TreeNext == TreeChange \/ TreeClone

\* However nodes are built, moved and removed, the structure is a forest: parents
\* and ordered child lists agree, the roots are the nodes without parent, no node is
\* its own ancestor, and the walk from the roots meets every node once.
TreeIsForest ==
  /\ \A x \in Ids(tree) :
       /\ IsInjective(tree.children[x])
       /\ \A y \in Ids(tree) : y \in Range(tree.children[x]) <=> tree.parent[y] = <<x>>
       /\ x \in Range(tree.roots) <=> tree.parent[x] = NoParent
       /\ x \notin AncestorSet(tree, x)
  /\ IsInjective(tree.roots) /\ IsInjective(RangeDFS(tree)) /\ Range(RangeDFS(tree)) = Ids(tree)

\* Every copy handed out has the shape of the tree: Clone is equal to it, the
\* descendants and ancestors of a node are the ones in the tree, and a detached copy
\* has the same nodes under the same parents.
TreeCopiesAgree ==
  /\ CloneTree(tree) = tree /\ Len(toJSONNodes(tree)) = Len(tree.roots)
  /\ \A x \in Ids(tree) :
       LET c == cloneNodeWithAncestors(tree, x) IN
       /\ ConcurrentDescendants(tree, x) = Descendants(tree, x)
       /\ Range(Ancestors(tree, x)) = AncestorSet(tree, x) /\ c.above = Ancestors(tree, x)
       /\ \A y \in Range(Descendants(tree, x)) : c.sub.parent[y] = tree.parent[y] /\ x \in AncestorSet(tree, y)

-----------------------------------------------------------------------------
(***************************************************************************)
(* collectionx/prefix: Trie. A node is named by its path from the root; it *)
(* has a value or none, its sorted childKeys, and the number of values at  *)
(* or below it, which sizes the results. The children map of a node is the *)
(* set of nodes one rune below it.                                         *)
(***************************************************************************)

CONSTANTS
  Runes,      \* characters; naturals, compared by <
  TrieVals,   \* values
  MaxKeyLen   \* bound: length of a key

ASSUME TrieAssumption == Runes \subseteq Nat /\ MaxKeyLen \in Nat

VARIABLES
  trie,       \* [nodes, size]; no nodes when root = nil
  trieKeys    \* ghost: the entries put and not deleted since

trieVars == <<trie, trieKeys>>

TrieKeySet == UNION { [1..n -> Runes] : n \in 0..MaxKeyLen }
NoValue == <<>>
NewNode == [value |-> NoValue, valueCount |-> 0, childKeys |-> <<>>]
Before(a, b) == a < b
Prefixes2(key) == { SubSeq(key, 1, n) : n \in 0..Len(key) }
Parent(path) == SubSeq(path, 1, Len(path) - 1)
HasChildren(nodes, path) == \E c \in Runes : Append(path, c) \in DOMAIN nodes

insertChildKey(keys, ch) == IF ch \in Range(keys) THEN keys ELSE SortSeq(Append(keys, ch), Before)

deleteChildKey(keys, ch) == SelectSeq(keys, LAMBDA c : c # ch)

\* ensureRoot and the loop over the key: every missing node of the path is made and
\* entered in the childKeys of its parent.
EnsurePath(nodes, key) ==
  LET made == Prefixes2(key) \ DOMAIN nodes
      grown == [p \in DOMAIN nodes \cup made |-> IF p \in DOMAIN nodes THEN nodes[p] ELSE NewNode]
  IN [p \in DOMAIN grown |->
        IF Len(p) < Len(key) /\ p \in Prefixes2(key) /\ Append(p, key[Len(p) + 1]) \in made
        THEN [grown[p] EXCEPT !.childKeys = insertChildKey(@, key[Len(p) + 1])] ELSE grown[p]]

TriePut(t, key, v) ==
  LET nodes == EnsurePath(t.nodes, key)
      isNew == nodes[key].value = NoValue
      more == IF isNew THEN 1 ELSE 0
  IN [nodes |-> [p \in DOMAIN nodes |->
                   [nodes[p] EXCEPT !.valueCount = @ + (IF p \in Prefixes2(key) THEN more ELSE 0),
                                    !.value = IF p = key THEN <<v>> ELSE @]],
      size |-> t.size + more]

findNode(t, key) == key \in DOMAIN t.nodes
TrieGet(t, key) == IF findNode(t, key) THEN t.nodes[key].value ELSE NoValue
HasPrefix(t, prefix) == findNode(t, prefix)

\* deleteRec on the way back up: the count goes down on the whole path; a child with
\* neither value nor children leaves its parent. The root is never pruned.
TrieDelete(t, key) ==
  IF TrieGet(t, key) = NoValue THEN t
  ELSE LET cut[n \in 0..Len(key)] ==    \* the nodes after the levels below n are done
             IF n = Len(key) THEN [t.nodes EXCEPT ![key].value = NoValue, ![key].valueCount = @ - 1]
             ELSE LET below == cut[n + 1]
                      p == SubSeq(key, 1, n)
                      child == SubSeq(key, 1, n + 1)
                      counted == [below EXCEPT ![p].valueCount = @ - 1]
                  IN IF below[child].value = NoValue /\ ~HasChildren(below, child)
                     THEN Restrict([counted EXCEPT ![p].childKeys = deleteChildKey(@, key[n + 1])], DOMAIN below \ {child})
                     ELSE counted
       IN [nodes |-> cut[0], size |-> t.size - 1]

TrieClear == [nodes |-> << >>, size |-> 0]

\* collectKeys, collectValues, collectPairs and rangePrefix walk a node first, then
\* its children in the order of childKeys.
WalkFrom(t, prefix) ==
  LET walk[p \in DOMAIN t.nodes] ==
        (IF t.nodes[p].value = NoValue THEN <<>> ELSE <<p>>)
        \o FoldLeft(LAMBDA out, c : out \o walk[Append(p, c)], <<>>, t.nodes[p].childKeys)
  IN IF findNode(t, prefix) THEN walk[prefix] ELSE <<>>
KeysWithPrefix(t, prefix) == WalkFrom(t, prefix)
ValuesWithPrefix(t, prefix) == LET ks == WalkFrom(t, prefix) IN [i \in DOMAIN ks |-> t.nodes[ks[i]].value[1]]

\* All, and ToJSON, which encodes it.
TrieAll(t) == LET ks == WalkFrom(t, <<>>) IN [k \in Range(ks) |-> t.nodes[k].value[1]]

TrieInit == trie = TrieClear /\ trieKeys = << >>
TriePutCall ==
  \E k \in TrieKeySet, v \in TrieVals : trie' = TriePut(trie, k, v) /\ trieKeys' = (k :> v) @@ trieKeys
TrieDeleteCall ==
  \E k \in TrieKeySet : trie' = TrieDelete(trie, k) /\ trieKeys' = Restrict(trieKeys, DOMAIN trieKeys \ {k})
TrieClearCall == trie' = TrieClear /\ trieKeys' = << >>
TrieNext == TriePutCall \/ TrieDeleteCall \/ TrieClearCall

LexLess(a, b) ==
  \/ Len(a) < Len(b) /\ a = SubSeq(b, 1, Len(a))
  \/ \E i \in DOMAIN a \cap DOMAIN b : a[i] < b[i] /\ SubSeq(a, 1, i - 1) = SubSeq(b, 1, i - 1)

\* The trie is the map of what was put and not deleted: All and Len are those
\* entries, a prefix query lists exactly the keys with that prefix in order, and
\* HasPrefix is true for a prefix of some key and no other (deletion prunes). The
\* empty prefix is the exception: an emptied trie still has its root.
TrieIsMap ==
  /\ TrieAll(trie) = trieKeys /\ trie.size = Cardinality(DOMAIN trieKeys)
  /\ \A p \in TrieKeySet :
       LET ks == KeysWithPrefix(trie, p) IN
       /\ Range(ks) = { k \in DOMAIN trieKeys : p \in Prefixes2(k) }
       /\ \A i \in 2..Len(ks) : LexLess(ks[i - 1], ks[i])
       /\ p # <<>> => HasPrefix(trie, p) = (ks # <<>>)
       /\ findNode(trie, p) => trie.nodes[p].valueCount = Len(ks)

\* childKeys and children agree at every node: the walk meets each child once.
TrieChildrenAgree ==
  \A p \in DOMAIN trie.nodes :
    /\ IsInjective(trie.nodes[p].childKeys)
    /\ Range(trie.nodes[p].childKeys) = { c \in Runes : Append(p, c) \in DOMAIN trie.nodes }
=============================================================================
