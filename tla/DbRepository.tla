---------------------------- MODULE DbRepository -----------------------------
(***************************************************************************)
(* dbx/repository, paging and activerecord: clients work on one table      *)
(* through repositories, by queries, by key, with optimistic locking, page *)
(* by page, and through active-record models that remember the key of      *)
(* their row.  Each statement is atomic; an operation of two statements is *)
(* two actions.                                                            *)
(***************************************************************************)
EXTENDS Integers, Sequences, FiniteSets, SequencesExt

CONSTANTS
  RowIds,       \* ids given by callers, generated or counted up by the database
  RowValues,
  RepoClients,
  MaxRepoCalls, \* bound on calls
  MaxRow,       \* the largest offset, maxInt() in the code
  DefaultPageSize

ASSUME RepositoryConstants == RowIds \subseteq Nat \ {0} /\ {MaxRepoCalls, MaxRow, DefaultPageSize} \subseteq Nat /\ DefaultPageSize > 0

VARIABLES
  row,          \* the table: id -> [val, ver]
  idStrategy,   \* "snowflake" or "db_auto"
  client,       \* what each client has in hand
  repoCalls,
  wins,         \* ghost: ids of successful UpdateByVersion, in order
  overwritten   \* ghost: ids whose version was written by anything but UpdateByVersion

repositoryVars == <<row, idStrategy, client, repoCalls, wins, overwritten>>

NoModel == [entity |-> 0, val |-> 0, key |-> 0, known |-> FALSE, saved |-> {}, lost |-> FALSE]
NoPage == [page |-> 0, size |-> 0, total |-> 0, items |-> <<>>, pc |-> "none", moved |-> FALSE]
RepositoryInit ==
  /\ row = [i \in {1, 2} |-> [val |-> i, ver |-> 1]]
  /\ idStrategy \in {"snowflake", "db_auto"} /\ repoCalls = 0 /\ wins = <<>> /\ overwritten = {}
  /\ client = [c \in RepoClients |-> [model |-> NoModel, page |-> NoPage, read |-> 0, readId |-> 0]]

-----------------------------------------------------------------------------
(* Queries: [distinct, val (0: no condition), limit, offset], -1 for not set. *)

Matching(q) == SelectSeq(SetToSortSeq(DOMAIN row, <), LAMBDA i : q.val = 0 \/ row[i].val = q.val)
Projected(q) ==
  LET vals == [i \in DOMAIN Matching(q) |-> row[Matching(q)[i]].val]
  IN IF q.distinct THEN SetToSortSeq({ vals[i] : i \in DOMAIN vals }, <) ELSE vals
Window(s, limit, offset) ==
  LET from == IF offset < 0 THEN 0 ELSE offset
  IN SubSeq(s, from + 1, IF limit < 0 \/ from + limit > Len(s) THEN Len(s) ELSE from + limit)
RepoList(q) == Window(Projected(q), q.limit, q.offset)

\* Fault: the limit of the query stays when its rows are counted.
cloneKeepingLimit(q) == [q EXCEPT !.offset = -1]

cloneForCount(q) == [q EXCEPT !.limit = -1, !.offset = -1]
\* A distinct or grouped query is counted from the outside; any other has its
\* items replaced by COUNT(*).
queryRequiresProjectionWrap(q) == q.distinct
CountRows(q) ==
  LET counted == cloneForCount(q)
  IN IF queryRequiresProjectionWrap(q) THEN Len(RepoList(counted)) ELSE Len(Matching(counted))
\* Order and limit are dropped, one row is asked for; the offset stays.
cloneForExists(q) == [q EXCEPT !.limit = 1]
ExistsRow(q) == RepoList(cloneForExists(q)) # <<>>
FirstRow(q) == RepoList([q EXCEPT !.limit = 1])

-----------------------------------------------------------------------------
(* Paging. *)

Normalize(page, size, max) ==
  LET s == IF size < 1 THEN DefaultPageSize ELSE size
  IN [page |-> IF page < 1 THEN 1 ELSE page, size |-> IF max > 0 /\ s > max THEN max ELSE s]
safeOffset(r) ==
  IF r.page <= 1 THEN 0
  ELSE IF r.page - 1 > MaxRow \div r.size THEN MaxRow ELSE (r.page - 1) * r.size
totalPages(total, size) == IF total <= 0 THEN 0 ELSE ((total - 1) \div size) + 1
NewResult(p) == [hasNext |-> p.page < totalPages(p.total, p.size), hasPrevious |-> p.page > 1]

-----------------------------------------------------------------------------
(* Statements. *)

Put(rows, id, val, ver) == [i \in DOMAIN rows \cup {id} |-> IF i = id THEN [val |-> val, ver |-> ver] ELSE rows[i]]
Drop(rows, id) == [i \in DOMAIN rows \ {id} |-> rows[i]]
FreeIds == RowIds \ DOMAIN row

Called == repoCalls < MaxRepoCalls /\ repoCalls' = repoCalls + 1
\* A write by c: pages being read meanwhile, and models of a row that is gone.
Wrote(c, state, gone) ==
  client' = [d \in RepoClients |->
    LET own == IF d = c THEN state ELSE client[d]
    IN [own EXCEPT !.page.moved = @ \/ (row' # row), !.model.lost = @ \/ own.model.key \in gone]]

\* CreateMany: one statement; a key that is there, or twice in it, refuses it all.
CreateMany(c, ids, val) ==
  /\ Called /\ Cardinality({ ids[i] : i \in DOMAIN ids }) = Len(ids) /\ \A i \in DOMAIN ids : ids[i] \in FreeIds
  /\ row' = [i \in DOMAIN row \cup { ids[j] : j \in DOMAIN ids } |-> IF i \in DOMAIN row THEN row[i] ELSE [val |-> val, ver |-> 1]]
  /\ Wrote(c, client[c], {})
  /\ overwritten' = overwritten \cup { ids[i] : i \in DOMAIN ids }
  /\ UNCHANGED <<idStrategy, wins>>

\* InTx: both rows or none; fn's error rolls back.
InTx(c, id, other, val, fails) ==
  /\ Called /\ {id, other} \subseteq FreeIds /\ id # other
  /\ row' = IF fails THEN row ELSE Put(Put(row, id, val, 1), other, val, 1)
  /\ Wrote(c, client[c], {})
  /\ overwritten' = IF fails THEN overwritten ELSE overwritten \cup {id, other}
  /\ UNCHANGED <<idStrategy, wins>>

\* Upsert: every column outside the conflict target is set from the entity, the
\* version with them.
Upsert(c, id, val) ==
  /\ Called /\ row' = Put(row, id, val, 1) /\ Wrote(c, client[c], {})
  /\ overwritten' = overwritten \cup {id} /\ UNCHANGED <<idStrategy, wins>>

DeleteByID(c, id) ==
  /\ Called /\ row' = Drop(row, id) /\ Wrote(c, client[c], {id} \cap DOMAIN row)
  /\ overwritten' = overwritten \cup {id} /\ UNCHANGED <<idStrategy, wins>>

\* GetByID, and later an update on condition that the version is the one read.
GetByID(c, id) ==
  /\ id \in DOMAIN row
  /\ client' = [client EXCEPT ![c].read = row[id].ver, ![c].readId = id]
  /\ UNCHANGED <<row, idStrategy, repoCalls, wins, overwritten>>
UpdateByVersion(c, val) ==
  LET id == client[c].readId
      hit == id \in DOMAIN row /\ row[id].ver = client[c].read
  IN /\ Called /\ id # 0
     /\ row' = IF hit THEN Put(row, id, val, client[c].read + 1) ELSE row
     /\ wins' = IF hit THEN Append(wins, <<id, client[c].read>>) ELSE wins
     /\ Wrote(c, [client[c] EXCEPT !.readId = 0], {})
     /\ UNCHANGED <<idStrategy, overwritten>>

\* ListPageRequest: the rows are counted and then listed.
PageCount(c, page, size) ==
  LET r == Normalize(page, size, 0) IN
  /\ Called /\ client[c].page.pc = "none"
  /\ client' = [client EXCEPT ![c].page = [page |-> r.page, size |-> r.size, items |-> <<>>, pc |-> "counted", moved |-> FALSE,
                  total |-> CountRows([distinct |-> FALSE, val |-> 0, limit |-> -1, offset |-> -1])]]
  /\ UNCHANGED <<row, idStrategy, wins, overwritten>>
PageList(c) ==
  /\ client[c].page.pc = "counted"
  /\ client' = [client EXCEPT ![c].page.pc = "none",
       ![c].page.items = RepoList([distinct |-> FALSE, val |-> 0, limit |-> client[c].page.size, offset |-> safeOffset(client[c].page)])]
  /\ UNCHANGED <<row, idStrategy, repoCalls, wins, overwritten>>

-----------------------------------------------------------------------------
(* Active record.  A model has an entity and, once asked for, its key; the  *)
(* rows it has saved are remembered as a ghost.                             *)

Wrap(c, val) ==
  /\ client[c].model = NoModel
  /\ client' = [client EXCEPT ![c].model = [NoModel EXCEPT !.val = val]]
  /\ UNCHANGED <<row, idStrategy, repoCalls, wins, overwritten>>
FindByID(c, id) ==
  /\ Called /\ id \in DOMAIN row
  /\ client' = [client EXCEPT ![c].model = [NoModel EXCEPT !.entity = id, !.val = row[id].val, !.key = id, !.known = TRUE, !.saved = {id}]]
  /\ UNCHANGED <<row, idStrategy, wins, overwritten>>
EditEntity(c, val) ==
  /\ Called /\ client[c].model # NoModel
  /\ client' = [client EXCEPT ![c].model.val = val]
  /\ UNCHANGED <<row, idStrategy, wins, overwritten>>

ModelKey(m) == IF m.known THEN m.key ELSE m.entity
\* Fault: a failed create remembers the key as if the row were there.
createdKeyEarly(m, id, fails) == [m EXCEPT !.key = id, !.known = TRUE]

\* The key is read again from the entity after the row was inserted; an id the
\* database made is not in the entity.
createdKey(m, id, fails) == [m EXCEPT !.key = IF fails THEN 0 ELSE m.entity, !.known = TRUE]

\* Save without a key, or with a zero one, inserts; a generated id is put into the
\* entity even if the statement fails afterwards.
SaveCreates(c, id, fails) ==
  LET m == client[c].model
      filled == IF idStrategy = "snowflake" /\ m.entity = 0 THEN [m EXCEPT !.entity = id] ELSE m
  IN /\ Called /\ m # NoModel /\ ModelKey(m) = 0 /\ id \in FreeIds
     /\ (idStrategy = "snowflake" /\ m.entity # 0 => id = m.entity)
     /\ row' = IF fails THEN row ELSE Put(row, id, m.val, 1)
     /\ Wrote(c, [client[c] EXCEPT !.model = [createdKey(filled, id, fails) EXCEPT !.saved = IF fails THEN @ ELSE @ \cup {id}]], {})
     /\ overwritten' = IF fails THEN overwritten ELSE overwritten \cup {id}
     /\ UNCHANGED <<idStrategy, wins>>
\* Save with a key updates its row, if there is one; the store's repository does
\* not report that there is none, so the create that follows ErrNotFound never runs.
SaveUpdates(c) ==
  LET m == client[c].model
      key == ModelKey(m)
  IN /\ Called /\ m # NoModel /\ key # 0
     /\ row' = IF key \in DOMAIN row THEN Put(row, key, m.val, row[key].ver) ELSE row
     /\ Wrote(c, [client[c] EXCEPT !.model.known = TRUE, !.model.key = key], {})
     /\ UNCHANGED <<idStrategy, wins, overwritten>>
Reload(c) ==
  LET m == client[c].model IN
  /\ Called /\ m # NoModel /\ ModelKey(m) \in DOMAIN row
  /\ client' = [client EXCEPT ![c].model.entity = ModelKey(m), ![c].model.val = row[ModelKey(m)].val,
                              ![c].model.key = ModelKey(m), ![c].model.known = TRUE]
  /\ UNCHANGED <<row, idStrategy, wins, overwritten>>
ModelDelete(c) ==
  LET key == ModelKey(client[c].model) IN
  /\ Called /\ client[c].model # NoModel /\ key # 0
  /\ row' = Drop(row, key) /\ Wrote(c, [client[c] EXCEPT !.model.known = TRUE, !.model.key = key], {key} \cap DOMAIN row)
  /\ overwritten' = overwritten \cup {key} /\ UNCHANGED <<idStrategy, wins>>

RepositoryNext ==
  \E c \in RepoClients :
    \/ \E id \in RowIds, val \in RowValues : Upsert(c, id, val) \/ CreateMany(c, <<id>>, val)
    \/ \E id, other \in RowIds : CreateMany(c, <<id, other>>, 1) \/ InTx(c, id, other, 1, TRUE) \/ InTx(c, id, other, 1, FALSE)
    \/ \E id \in RowIds : DeleteByID(c, id) \/ GetByID(c, id) \/ FindByID(c, id)
                          \/ SaveCreates(c, id, TRUE) \/ SaveCreates(c, id, FALSE)
    \/ Wrap(c, 2) \/ EditEntity(c, 1) \/ UpdateByVersion(c, 1)
    \/ \E page \in {0, 2}, size \in {0, 1} : PageCount(c, page, size)
    \/ PageList(c) \/ SaveUpdates(c) \/ Reload(c) \/ ModelDelete(c)

RepositorySpec == RepositoryInit /\ [][RepositoryNext]_repositoryVars

-----------------------------------------------------------------------------
(* Properties. *)

RowQueries == [distinct : BOOLEAN, val : {0, 1}, limit : {0, 1}, offset : {-1, 1}]
\* Count, Exists, First and List say the same of one table: the count is that of
\* the list without its window, and Exists differs only for a limit of zero.  It
\* depends on the table alone, so it is looked at where no client holds anything.
QueriesAgree ==
  (\A c \in RepoClients : client[c].model = NoModel /\ client[c].page = NoPage /\ client[c].readId = 0) => \A q \in RowQueries :
    /\ CountRows(q) = Len(RepoList([q EXCEPT !.limit = -1, !.offset = -1]))
    /\ q.limit # 0 => (ExistsRow(q) <=> RepoList(q) # <<>>)
    /\ FirstRow(q) # <<>> => q.limit = 0 \/ FirstRow(q)[1] = RepoList(q)[1]

\* A page that was counted and listed without a write in between has the rows its
\* place gives it, and says rightly whether more follow.
PagesExact ==
  \A c \in RepoClients :
    LET p == client[c].page IN
    p.pc = "none" /\ p.page > 0 /\ ~p.moved =>
      LET left == p.total - safeOffset(p) IN
      /\ Len(p.items) = IF left <= 0 THEN 0 ELSE IF left < p.size THEN left ELSE p.size
      /\ NewResult(p).hasNext <=> left > p.size

\* No lost update: of clients that read one version of a row one succeeds, unless
\* something else wrote the row's version in between (Upsert does).
VersionsExclusive ==
  \A i, j \in DOMAIN wins : i # j /\ wins[i] = wins[j] => wins[i][1] \in overwritten

\* A model whose row no one deleted keeps one row through any number of saves and
\* failed saves, if its ids are generated; with ids of the database every save of
\* a new model inserts again.
OneRowPerModel ==
  \A c \in RepoClients :
    LET m == client[c].model IN
    /\ idStrategy = "snowflake" => Cardinality(m.saved) <= 1
    /\ m.saved # {} /\ idStrategy = "snowflake" /\ ~m.lost => m.saved = {m.key} /\ m.key = m.entity
    /\ m.key # 0 /\ m.known /\ m.saved = {} => FALSE

RepositoryExact == QueriesAgree /\ PagesExact /\ VersionsExclusive /\ OneRowPerModel
=============================================================================
