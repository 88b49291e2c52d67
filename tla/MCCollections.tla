--------------------------- MODULE MCCollections ----------------------------
(***************************************************************************)
(* The containers of collectionx in one model: part says which of them the *)
(* behaviour is about, the others keep their initial state. They share no  *)
(* state, so each is checked as if alone.                                  *)
(***************************************************************************)
EXTENDS CxBuffers, CxSequences, CxMaps, CxSets, CxTrees,
        CxConcurrent

VARIABLE part

Parts == {"deque", "ring", "queue", "list", "clist", "grid", "rope", "map", "cmap", "omap", "bimap",
          "mmap", "cmmap", "table", "ctable", "set", "cset", "oset", "mset", "rset",
          "rmap", "trie", "tree", "sharded", "setrange"}

Init ==
  /\ part \in Parts
  /\ DequeInit /\ QueueInit /\ (part # "ring" => rb = Unset) /\ RingInit
  /\ (IF part = "list" THEN ListInit ELSE lst = EmptyList) /\ ConcurrentListInit /\ GridInit
  /\ RopeInit /\ MapInit /\ ConcurrentMapInit
  /\ OrderedMapInit /\ BiMapInit /\ MultiInit
  /\ LockedMultiInit /\ TableInit /\ LockedTableInit
  /\ SetInit /\ ConcurrentSetInit /\ OrderedSetInit
  /\ MultiSetInit /\ RangeSetInit /\ RangeMapInit
  /\ TrieInit /\ (IF part = "tree" THEN TreeInit ELSE tree = EmptyTree) /\ ShardedInit /\ SetRangeInit

Next ==
  /\ UNCHANGED part
  /\ IF part = "deque" THEN DequeNext ELSE UNCHANGED dequeVars
  /\ IF part = "ring" THEN RingNext ELSE UNCHANGED ringVars
  /\ IF part = "queue" THEN QueueNext ELSE UNCHANGED queueVars
  /\ IF part = "list" THEN ListNext ELSE UNCHANGED lst
  /\ IF part = "clist" THEN ConcurrentListNext ELSE UNCHANGED clst
  /\ IF part = "grid" THEN GridNext ELSE UNCHANGED grid
  /\ IF part = "rope" THEN RopeNext ELSE UNCHANGED ropeVars
  /\ IF part = "map" THEN MapNext ELSE UNCHANGED map
  /\ IF part = "cmap" THEN ConcurrentMapNext ELSE UNCHANGED cmap
  /\ IF part = "omap" THEN OrderedMapNext ELSE UNCHANGED omap
  /\ IF part = "bimap" THEN BiMapNext ELSE UNCHANGED bimap
  /\ IF part = "mmap" THEN MultiNext ELSE UNCHANGED mmap
  /\ IF part = "cmmap" THEN LockedMultiNext ELSE UNCHANGED cmmap
  /\ IF part = "table" THEN TableNext ELSE UNCHANGED table
  /\ IF part = "ctable" THEN LockedTableNext ELSE UNCHANGED ctable
  /\ IF part = "set" THEN SetNext ELSE UNCHANGED set
  /\ IF part = "cset" THEN ConcurrentSetNext ELSE UNCHANGED cset
  /\ IF part = "oset" THEN OrderedSetNext ELSE UNCHANGED oset
  /\ IF part = "mset" THEN MultiSetNext ELSE UNCHANGED mset
  /\ IF part = "rset" THEN RangeSetNext ELSE UNCHANGED rsetVars
  /\ IF part = "rmap" THEN RangeMapNext ELSE UNCHANGED rmapVars
  /\ IF part = "trie" THEN TrieNext ELSE UNCHANGED trieVars
  /\ IF part = "tree" THEN TreeNext ELSE UNCHANGED treeVars
  /\ IF part = "sharded" THEN ShardedNext ELSE UNCHANGED shardedVars
  /\ IF part = "setrange" THEN SetRangeNext ELSE UNCHANGED setRangeVars

Spec ==
  Init /\ [][Next]_<<part, dequeVars, ringVars, queueVars, lst, clst, grid, ropeVars, mapsVars,
                    set, cset, oset, mset, rsetVars, rmapVars, trieVars, treeVars, shardedVars, setRangeVars>>

-----------------------------------------------------------------------------
\* Deque, ring buffer, priority queue, list, grid and rope hold the sequence their
\* calls describe, and no JSON of a list outlives a change of it.
SequencesExact ==
  /\ DequeIsSequence /\ RingHoldsNewest /\ QueueServesLeast
  /\ ListCacheFresh /\ ListQueriesAgree /\ ConcurrentListCacheFresh /\ GridSizeExact
  /\ RopeIsSequence /\ RopeBalanced

\* The maps are the mappings their calls describe, with every second index, order
\* and cache they keep in agreement with it.
MapsExact == MapCachesFresh /\ OrderedMapConsistent /\ BiMapOneToOne /\ MultiMapExact /\ TableExact /\ RangeMapIsFunction

\* The sets likewise; a range set is kept as disjoint ranges that do not touch.
SetsExact == SetCachesFresh /\ OrderedSetConsistent /\ MultiSetExact /\ RangeSetNormal

\* The trie is a map with prefix queries, the tree a forest, through moves, removals
\* and pruning.
TreesExact == TrieChildrenAgree /\ TrieIsMap /\ TreeIsForest /\ TreeCopiesAgree
=============================================================================
