--------------------------- MODULE KvRepository -----------------------------
(***************************************************************************)
(* kvx/repository: HashRepository and JSONRepository with one indexed      *)
(* field. A write reads the entity it replaces, computes which index       *)
(* entries go and which come, and then sends its commands: one script, or  *)
(* one call after the other. Calls fail with or without effect, a client   *)
(* may die between two calls, entities expire, clients interleave.         *)
(***************************************************************************)
EXTENDS Integers, Sequences, FiniteSets, SequencesExt

CONSTANTS
  Writers,   \* clients that use the repository
  EntityIds, \* entity ids
  Values,    \* values of the indexed field, Blank included
  Blank,     \* the value that is formatted as ""
  Absent,    \* no entity under the key
  BatchMax   \* bound: entities of one batch

ASSUME RepositoryAssumption == Blank \in Values /\ Absent \notin Values

VARIABLES
  repo,      \* how it was built: [kind, script]
  entity,    \* the field's value of the entity under each id
  ttl,       \* ids whose key has a time to live
  entries,   \* index entries: pairs of value and id
  writer,    \* each client: what is left of its batch, commands still to send
  dirt       \* history: ids whose entries may be wrong: writes overlapped, one failed
             \* half way, the entity expired or was incremented, or a script set a
             \* field that had been empty

repoVars == <<repo, entity, ttl, entries, writer, dirt>>

RepoIdle == [todo |-> <<>>, id |-> Absent, cmds |-> <<>>]

RepoInit ==
  /\ repo \in [kind : {"hash", "json"}, script : BOOLEAN]
  /\ entity = [i \in EntityIds |-> Absent] /\ ttl = {} /\ entries = {} /\ dirt = {}
  /\ writer = [w \in Writers |-> RepoIdle]

-----------------------------------------------------------------------------
\* entityFieldIndexKeys, EntityIndexEntries: an empty value is not indexed.
EntityIndexEntries(v, i) == IF v \in {Absent, Blank} THEN {} ELSE {<<v, i>>}

diffIndexEntries(left, right) == left \ right

Cmd(do, arg) == [do |-> do, arg |-> arg]
Cmds(do, args) == [k \in 1..Cardinality(args) |-> Cmd(do, SetToSeq(args)[k])]

\* ApplyIndexDiff: the stale entries go, then the new ones come.
ApplyIndexDiff(remove, add) == Cmds("del", remove) \o Cmds("set", add)

\* Fault: what the entity had in the index before is not looked up.
SaveCommandsForget(i, v, expires) ==
  <<Cmd("put", <<i, v>>)>> \o (IF expires THEN <<Cmd("expire", i)>> ELSE <<>>)
  \o ApplyIndexDiff({}, EntityIndexEntries(v, i))

\* prepareHashSave, prepareJSONSave, persistHashSave, persistJSONSave.
SaveCommands(i, v, expires) ==
  LET old == EntityIndexEntries(entity[i], i)
      new == EntityIndexEntries(v, i)
  IN <<Cmd("put", <<i, v>>)>> \o (IF expires THEN <<Cmd("expire", i)>> ELSE <<>>)
     \o ApplyIndexDiff(diffIndexEntries(old, new), diffIndexEntries(new, old))

\* prepareRepositoryDelete, persistHashDelete, persistJSONDelete.
DeleteCommands(i) ==
  LET drop == <<Cmd("drop", i)>> IN
  (IF repo.kind = "hash" THEN drop \o drop ELSE drop) \o ApplyIndexDiff(EntityIndexEntries(entity[i], i), {})

\* ReplaceFieldIndexEntries, and buildFieldUpdateKeys with the field update
\* scripts: the script deletes its second key and sets its third, so a lone new
\* entry, that of a field which was empty, is deleted.
UpdateCommands(i, v) ==
  LET old == EntityIndexEntries(entity[i], i)
      new == EntityIndexEntries(v, i)
      keys == SetToSeq(diffIndexEntries(old, new)) \o SetToSeq(diffIndexEntries(new, old))
  IN <<Cmd("field", <<i, v>>)>>
     \o (IF repo.script
         THEN [k \in 1..Len(keys) |-> Cmd(IF k = 1 THEN "del" ELSE "set", keys[k])]
         ELSE ApplyIndexDiff(diffIndexEntries(old, new), diffIndexEntries(new, old)))

-----------------------------------------------------------------------------
\* One command at the server. JSON.SET of a path needs the document.
RepoStored == [entity |-> entity, ttl |-> ttl, entries |-> entries]
Effect(s, c) ==
  CASE c.do = "put" -> [s EXCEPT !.entity[c.arg[1]] = c.arg[2]]
    [] c.do = "field" -> IF repo.kind = "json" /\ s.entity[c.arg[1]] = Absent THEN s
                         ELSE [s EXCEPT !.entity[c.arg[1]] = c.arg[2]]
    [] c.do = "expire" -> [s EXCEPT !.ttl = @ \cup {c.arg}]
    [] c.do = "drop" -> [s EXCEPT !.entity[c.arg] = Absent, !.ttl = @ \ {c.arg}]
    [] c.do = "del" -> [s EXCEPT !.entries = @ \ {c.arg}]
    [] c.do = "set" -> [s EXCEPT !.entries = @ \cup {c.arg}]

\* The commands one after the other.
Applied(cmds) ==
  LET after[n \in 0..Len(cmds)] == IF n = 0 THEN RepoStored ELSE Effect(after[n - 1], cmds[n])
  IN after[Len(cmds)]
Becomes(s) == entity' = s.entity /\ ttl' = s.ttl /\ entries' = s.entries

\* evalScript sends all commands at once; without a script each is a call.
Sent(cmds) == IF repo.script THEN Len(cmds) ELSE 1

Busy(i) == { w \in Writers : writer[w].id = i /\ writer[w].cmds # <<>> }

\* Prepare a write of w on i: todo is what remains of the batch afterwards.
Prepare(w, i, cmds, todo, excused) ==
  /\ writer' = [writer EXCEPT ![w] = [todo |-> todo, id |-> i, cmds |-> cmds]]
  /\ dirt' = IF excused \/ Busy(i) # {} THEN dirt \cup {i} ELSE dirt
  /\ UNCHANGED <<repo, entity, ttl, entries>>

\* SaveBatchWithExpiration: runAll over the entities, one Save after the other.
SaveBatch(w, items) ==
  /\ writer[w] = RepoIdle
  /\ writer' = [writer EXCEPT ![w].todo = items]
  /\ UNCHANGED <<repo, entity, ttl, entries, dirt>>

\* SaveWithExpiration of the next entity of the batch.
Save(w) ==
  /\ writer[w].todo # <<>> /\ writer[w].cmds = <<>>
  /\ LET e == Head(writer[w].todo) IN Prepare(w, e.id, SaveCommands(e.id, e.v, e.expires), Tail(writer[w].todo), FALSE)

\* Delete: an entity that is not there is skipped, its entries are left.
RepoDelete(w, i) == writer[w] = RepoIdle /\ entity[i] # Absent /\ Prepare(w, i, DeleteCommands(i), <<>>, FALSE)

UpdateField(w, i, v) ==
  /\ writer[w] = RepoIdle /\ entity[i] # Absent
  /\ Prepare(w, i, UpdateCommands(i, v), <<>>, repo.script /\ entity[i] = Blank)

\* IncrementField: HINCRBY, which makes the hash if there is none. No index entry
\* follows the value.
IncrementField(w, i, v) ==
  /\ writer[w] = RepoIdle /\ repo.kind = "hash" /\ v # Blank
  /\ entity' = [entity EXCEPT ![i] = v]
  /\ dirt' = dirt \cup {i}
  /\ UNCHANGED <<repo, ttl, entries, writer>>

RepoDone(w, rest) == [writer EXCEPT ![w] = IF rest = <<>> /\ @.todo = <<>> THEN RepoIdle ELSE [@ EXCEPT !.cmds = rest]]

\* The next call of a write, or its script.
Send(w) ==
  LET cmds == writer[w].cmds
      n == Sent(cmds)
  IN /\ cmds # <<>>
     /\ Becomes(Applied(SubSeq(cmds, 1, n)))
     /\ writer' = RepoDone(w, SubSeq(cmds, n + 1, Len(cmds)))
     /\ UNCHANGED <<repo, dirt>>

\* The call fails, its effect done or not, or the client dies: the write and the
\* rest of the batch are given up.
SendFails(w) ==
  LET cmds == writer[w].cmds IN
  /\ cmds # <<>>
  /\ \/ UNCHANGED <<entity, ttl, entries>>
     \/ Becomes(Applied(SubSeq(cmds, 1, Sent(cmds))))
  /\ writer' = [writer EXCEPT ![w] = RepoIdle]
  /\ dirt' = IF repo.script THEN dirt ELSE dirt \cup {writer[w].id}
  /\ UNCHANGED repo

\* The key's time to live runs out; index entries have none.
EntityExpires(i) ==
  /\ i \in ttl /\ Becomes(Effect(RepoStored, Cmd("drop", i)))
  /\ dirt' = dirt \cup {i} /\ UNCHANGED <<repo, writer>>

Item == [id : EntityIds, v : Values, expires : BOOLEAN]
RepoNext ==
  \/ \E w \in Writers :
       \/ \E items \in UNION { [1..n -> Item] : n \in 1..BatchMax } : SaveBatch(w, items)
       \/ Save(w) \/ Send(w) \/ SendFails(w)
       \/ \E i \in EntityIds : RepoDelete(w, i) \/ \E v \in Values : UpdateField(w, i, v) \/ IncrementField(w, i, v)
  \/ \E i \in EntityIds : EntityExpires(i)

-----------------------------------------------------------------------------
\* getIndexMembers and findManyByIDs: the ids under the value, those present.
FindByField(v) == { i \in EntityIds : <<v, i>> \in entries /\ entity[i] # Absent }

\* Between writes the index finds an entity under its value and under no other,
\* unless one of the things in dirt happened, which no later write of the same
\* value repairs. A script is all or nothing: under one a failed write is harmless.
IndexExact ==
  \A i \in EntityIds : Busy(i) = {} /\ i \notin dirt =>
    /\ { e \in entries : e[2] = i } = EntityIndexEntries(entity[i], i)
    /\ \A v \in Values \ {Blank} : i \in FindByField(v) <=> entity[i] = v
=============================================================================
