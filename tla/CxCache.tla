------------------------------ MODULE CxCache -------------------------------
(***************************************************************************)
(* The serialization cache most containers of collectionx carry: jsonCache *)
(* (with stringCache, always the same bytes) and jsonDirty. A container is *)
(* a record with these two fields among its own; JSON is represented by    *)
(* the value it encodes.                                                   *)
(***************************************************************************)
CONSTANTS
  NoCache,  \* jsonCache = nil
  Null      \* the JSON value null, which a nil slice encodes to

invalidateSerializationCache(c) == [c EXCEPT !.jsonCache = NoCache, !.jsonDirty = TRUE]
cacheSerializationData(c, json) == [c EXCEPT !.jsonCache = json, !.jsonDirty = FALSE]
dropSerializationCache(c) == [c EXCEPT !.jsonCache = NoCache, !.jsonDirty = FALSE]

\* ToJSON and String answer from the cache when it is there and not dirty.
CacheAnswers(c) == ~c.jsonDirty /\ c.jsonCache # NoCache
=============================================================================
