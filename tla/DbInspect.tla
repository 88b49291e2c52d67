------------------------------ MODULE DbInspect ------------------------------
(***************************************************************************)
(* dbx/dialect/{mysql,postgres,sqlite}: the CREATE TABLE text of a         *)
(* declared table and the inspection of the table that results, through a  *)
(* pool of connections.  An inspection is a series of catalog queries;     *)
(* SQLite's asks for the columns of every index while the list of indexes  *)
(* is still open.  The databases are external: what they report for a      *)
(* table is modelled from the queries and the scans.                       *)
(***************************************************************************)
EXTENDS Integers, FiniteSets, Sequences, SequencesExt

CONSTANTS
  TableSpecs,      \* declared tables
  Inspectors,      \* callers of InspectTable
  MaxConnections   \* bound on the size of the pool

ASSUME InspectConstants == IsFiniteSet(Inspectors) /\ MaxConnections \in Nat

VARIABLES
  engine,          \* "mysql", "mysql57" (display widths), "postgres" or "sqlite"
  spec,            \* the declared table, created from BuildCreateTable
  altered,         \* another session has added an index
  connections,    \* the pool
  freeConnections,
  inspection       \* per caller: step, state of the step, what was read

inspectVars == <<engine, spec, altered, connections, freeConnections, inspection>>

-----------------------------------------------------------------------------
(* Types: a name with a display width (0: none) and UNSIGNED. *)

Ty(n) == [name |-> n, width |-> 0, unsigned |-> FALSE]
UTy(n) == [Ty(n) EXCEPT !.unsigned = TRUE]

mysqlType(kind) ==
  CASE kind = "bool" -> Ty("boolean") [] kind = "int" -> Ty("int") [] kind = "int64" -> Ty("bigint")
    [] kind = "uint" -> UTy("int") [] kind = "uint64" -> UTy("bigint") [] kind = "float32" -> Ty("float")
    [] kind = "float64" -> Ty("double") [] kind = "time" -> Ty("timestamp") [] kind = "bytes" -> Ty("blob") [] OTHER -> Ty("text")
postgresType(kind) ==
  CASE kind = "bool" -> Ty("boolean") [] kind \in {"int", "uint"} -> Ty("integer") [] kind \in {"int64", "uint64"} -> Ty("bigint")
    [] kind = "float32" -> Ty("real") [] kind = "float64" -> Ty("double precision")
    [] kind = "time" -> Ty("timestamptz") [] kind = "bytes" -> Ty("bytea") [] OTHER -> Ty("text")
sqliteType(kind) ==
  CASE kind = "bool" -> Ty("boolean") [] kind \in {"int", "int64", "uint", "uint64"} -> Ty("integer")
    [] kind \in {"float32", "float64"} -> Ty("real") [] kind = "time" -> Ty("timestamp") [] kind = "bytes" -> Ty("blob") [] OTHER -> Ty("text")
DeclaredType(kind) ==
  CASE engine \in {"mysql", "mysql57"} -> mysqlType(kind) [] engine = "postgres" -> postgresType(kind) [] OTHER -> sqliteType(kind)

\* What the catalog says of a column declared so.
ReportedType(t) ==
  CASE engine \in {"mysql", "mysql57"} /\ t.name = "boolean" -> [Ty("tinyint") EXCEPT !.width = 1]
    [] engine = "mysql57" /\ t.name \in {"int", "bigint"} -> [t EXCEPT !.width = IF t.name = "int" THEN 11 ELSE 20]
    [] engine = "postgres" ->
         Ty(CASE t.name = "boolean" -> "bool" [] t.name = "integer" -> "int4" [] t.name = "bigint" -> "int8"
              [] t.name = "real" -> "float4" [] t.name = "double precision" -> "float8" [] OTHER -> t.name)
    [] OTHER -> t

\* tinyint(1) is a boolean; of other names the width, and what stands behind it, is cut.
mysqlNormalizeType(t) ==
  LET cut == IF t.width > 0 THEN Ty(t.name) ELSE t IN
  IF t.name = "boolean" \/ (t.name = "tinyint" /\ t.width = 1) THEN Ty("boolean")
  ELSE CASE cut = Ty("int") -> Ty("integer") [] cut = Ty("float") -> Ty("real") [] OTHER -> cut
postgresNormalizeType(t) ==
  Ty(CASE t.name \in {"int4", "integer"} -> "integer" [] t.name \in {"int8", "bigint"} -> "bigint"
       [] t.name \in {"float4", "real"} -> "real" [] t.name \in {"float8", "double precision"} -> "double"
       [] t.name \in {"bool", "boolean"} -> "boolean" [] t.name = "bytea" -> "blob" [] t.name = "timestamptz" -> "timestamp"
       [] OTHER -> t.name)
\* SQLite's own affinity words, found anywhere in the name; these names are their own.
sqliteNormalizeType(t) == t
NormalizeType(t) ==
  CASE engine \in {"mysql", "mysql57"} -> mysqlNormalizeType(t) [] engine = "postgres" -> postgresNormalizeType(t)
    [] OTHER -> sqliteNormalizeType(t)

-----------------------------------------------------------------------------
(* CREATE TABLE.  A declared table has columns [name, kind, nullable, auto],  *)
(* pk (a sequence), indexes, foreignKeys [cols, targets, onDelete], checks.    *)

singlePrimaryKeyColumn == IF Len(spec.pk) = 1 THEN spec.pk[1] ELSE ""

\* The column as the database holds it: a key column that is declared inline says
\* nothing of NOT NULL, which SQLite then reports as nullable.
columnDDL(c) ==
  LET inline == singlePrimaryKeyColumn = c.name
      keyed == \E i \in DOMAIN spec.pk : spec.pk[i] = c.name
  IN [name |-> c.name, type |-> ReportedType(DeclaredType(c.kind)), pk |-> keyed,
      nullable |-> IF engine = "sqlite" THEN c.nullable \/ inline ELSE c.nullable /\ ~keyed,
      auto |-> c.auto /\ (engine = "sqlite" => inline)]

\* AUTOINCREMENT needs an integer key; without an inline key the word is left out.
sqliteAutoIncrementDDL(c) ==
  (engine = "sqlite" /\ c.auto /\ singlePrimaryKeyColumn = c.name) => NormalizeType(DeclaredType(c.kind)) = Ty("integer")
BuildCreateTable == \A i \in DOMAIN spec.columns : sqliteAutoIncrementDDL(spec.columns[i])

\* The words of the statement that matter to who looks for CHECK in it: names and
\* words that hold it, parentheses, and one word for each expression.
CheckWord(named) == [w |-> "word", check |-> named]
Plain == CheckWord(FALSE)
Open == [w |-> "(", check |-> FALSE]
Shut == [w |-> ")", check |-> FALSE]
checkDDL(e) == <<CheckWord(FALSE), CheckWord(TRUE), Open, [w |-> e, check |-> FALSE], Shut>>
foreignKeyDDL == <<Plain, Open, Plain, Shut, Plain, Open, Plain, Shut>>
CreateText ==
  <<CheckWord(spec.checkInName), Open>>
  \o [i \in 1..Len(spec.columns) |-> CheckWord(spec.columns[i].name = "checked")]
  \o FlattenSeq([i \in 1..Len(spec.foreignKeys) |-> foreignKeyDDL])
  \o FlattenSeq([i \in 1..Len(spec.checks) |-> checkDDL(spec.checks[i])]) \o <<Shut>>

-----------------------------------------------------------------------------
(* Reading a CREATE TABLE text back: SQLite has no other record of checks.   *)

sqliteMatchingParen(text, start) ==
  LET Depth(j) == Cardinality({ k \in start..j : text[k].w = "(" }) - Cardinality({ k \in start..j : text[k].w = ")" })
      ends == { j \in start..Len(text) : text[j].w = ")" /\ Depth(j) = 0 }
  IN IF ends = {} THEN 0 ELSE CHOOSE j \in ends : \A k \in ends : j <= k

First(S) == IF S = {} THEN 0 ELSE CHOOSE x \in S : \A y \in S : x <= y

\* From offset: the next word that holds CHECK, the parenthesis that follows it
\* anywhere, and what that encloses.
nextSQLiteCheckExpression(text, offset) ==
  LET index == First({ j \in offset..Len(text) : text[j].check })
      start == IF index = 0 THEN 0 ELSE First({ j \in index..Len(text) : text[j].w = "(" })
      end == IF start = 0 THEN 0 ELSE sqliteMatchingParen(text, start)
  IN CASE index = 0 \/ (start > 0 /\ end = 0) -> [found |-> FALSE, expr |-> <<>>, next |-> 0]
       [] index > 0 /\ start = 0 -> [found |-> TRUE, expr |-> <<>>, next |-> index + 1]
       [] OTHER -> [found |-> TRUE, expr |-> SubSeq(text, start + 1, end - 1), next |-> end + 1]

parseCreateTableChecks(text) ==
  LET from[o \in 1..(Len(text) + 1)] ==
        LET n == nextSQLiteCheckExpression(text, o)
        IN IF ~n.found THEN {} ELSE {n.expr} \cup from[n.next]
  IN { e[1].w : e \in { x \in from[1] : Len(x) = 1 } }

-----------------------------------------------------------------------------
(* Inspecting. *)

Steps ==
  CASE engine \in {"mysql", "mysql57"} -> <<"exists", "columns", "indexes", "foreignKeys", "checks">>
    [] engine = "postgres" -> <<"exists", "primaryKey", "columns", "indexes", "foreignKeys", "checks">>
    [] OTHER -> <<"exists", "columns", "indexes", "foreignKeys", "create">>

NotInspecting == [step |-> 0, pc |-> "idle", rows |-> <<>>, columns |-> <<>>, pk |-> <<>>, indexes |-> {},
                  foreignKeys |-> {}, checks |-> {}]

InspectInit ==
  /\ engine \in {"mysql", "mysql57", "postgres", "sqlite"} /\ spec \in TableSpecs
  /\ BuildCreateTable
  /\ altered = FALSE /\ connections \in 1..MaxConnections /\ freeConnections = connections
  /\ inspection = [i \in Inspectors |-> NotInspecting]

InspectTable(i) ==
  /\ inspection[i].pc = "idle"
  /\ inspection' = [inspection EXCEPT ![i] = [NotInspecting EXCEPT !.pc = "query", !.step = 1]]
  /\ UNCHANGED <<engine, spec, altered, connections, freeConnections>>

Columns == [i \in 1..Len(spec.columns) |-> columnDDL(spec.columns[i])]
\* MySQL's key columns are gathered from the columns, in their order; the others
\* report the order of the key.
scanPrimaryKey ==
  IF engine \in {"mysql", "mysql57"} THEN LET keyed == SelectSeq(Columns, LAMBDA c : c.pk) IN [i \in 1..Len(keyed) |-> keyed[i].name]
  ELSE spec.pk
\* The index of a primary key is passed over by MySQL (its name) and SQLite (its
\* origin); PostgreSQL's definition does not say PRIMARY KEY and it stays.
scanIndexes ==
  spec.indexes \cup (IF altered THEN {[unique |-> FALSE, cols |-> <<"late">>]} ELSE {})
  \cup (IF engine = "postgres" /\ spec.pk # <<>> THEN {[unique |-> TRUE, cols |-> spec.pk]} ELSE {})
\* Rows of one key are gathered by its name (SQLite: its number); PostgreSQL joins
\* every column of a key with every one it refers to.
appendForeignKey(fk) ==
  LET n == Len(fk.cols) IN
  IF engine # "postgres" THEN fk
  ELSE [fk EXCEPT !.cols = [k \in 1..(n * n) |-> fk.cols[1 + (k - 1) \div n]],
                  !.targets = [k \in 1..(n * n) |-> fk.targets[1 + ((k - 1) % n)]]]
referentialAction(action) == IF action = "" THEN "NO ACTION" ELSE action
scanForeignKeys == { [appendForeignKey(spec.foreignKeys[k]) EXCEPT !.onDelete = referentialAction(@)] : k \in DOMAIN spec.foreignKeys }

\* What a query reads, at the moment it is executed.
Reads(i, step) ==
  LET s == inspection[i] IN
  CASE step = "columns" -> [s EXCEPT !.columns = Columns, !.pk = IF engine = "postgres" THEN @ ELSE scanPrimaryKey]
    [] step = "primaryKey" -> [s EXCEPT !.pk = scanPrimaryKey]
    [] step = "indexes" /\ engine # "sqlite" -> [s EXCEPT !.indexes = scanIndexes]
    [] step = "indexes" /\ engine = "sqlite" -> [s EXCEPT !.rows = SetToSeq(scanIndexes)]
    [] step = "foreignKeys" -> [s EXCEPT !.foreignKeys = scanForeignKeys]
    [] step = "checks" -> [s EXCEPT !.checks = { <<engine, e>> : e \in ToSet(spec.checks) }]  \* rewritten by the server
    [] step = "create" -> [s EXCEPT !.checks = parseCreateTableChecks(CreateText)]
    [] OTHER -> s

\* QueryContext takes a connection and waits for one if there is none; an error
\* ends the inspection, and what it holds is closed.
queryRows(i) ==
  /\ inspection[i].pc = "query" /\ freeConnections > 0
  /\ \/ inspection' = [inspection EXCEPT ![i] = [Reads(i, Steps[inspection[i].step]) EXCEPT !.pc = "rows"]]
        /\ freeConnections' = freeConnections - 1
     \/ inspection' = [inspection EXCEPT ![i].pc = "failed"] /\ UNCHANGED freeConnections
  /\ UNCHANGED <<engine, spec, altered, connections>>

\* The rows are read to their end, Close gives the connection back.
closeRows(i) ==
  /\ inspection[i].pc = "rows" /\ inspection[i].rows = <<>>
  /\ freeConnections' = freeConnections + 1
  /\ inspection' = [inspection EXCEPT ![i] =
       IF @.step = Len(Steps) THEN [@ EXCEPT !.pc = "done"] ELSE [@ EXCEPT !.step = inspection[i].step + 1, !.pc = "query"]]
  /\ UNCHANGED <<engine, spec, altered, connections>>

\* Reading the rows fails: the deferred Close runs all the same.
RowsFail(i) ==
  /\ inspection[i].pc = "rows"
  /\ freeConnections' = freeConnections + 1
  /\ inspection' = [inspection EXCEPT ![i].pc = "failed", ![i].rows = <<>>]
  /\ UNCHANGED <<engine, spec, altered, connections>>

\* Fault: a failed query of an index leaves the list of indexes open.
NestedFailLeaks(i) == UNCHANGED freeConnections
NestedFail(i) == freeConnections' = freeConnections + 1

\* loadSQLiteIndex: another query, on another connection, for each row of the list.
loadSQLiteIndex(i) ==
  /\ inspection[i].pc = "rows" /\ inspection[i].rows # <<>> /\ freeConnections > 0
  /\ \/ /\ inspection' = [inspection EXCEPT ![i].pc = "nested"]
        /\ freeConnections' = freeConnections - 1
     \/ /\ inspection' = [inspection EXCEPT ![i].pc = "failed", ![i].rows = <<>>]
        /\ NestedFail(i)
  /\ UNCHANGED <<engine, spec, altered, connections>>
inspectIndexColumns(i) ==
  /\ inspection[i].pc = "nested"
  /\ inspection' = [inspection EXCEPT ![i].pc = "rows", ![i].indexes = @ \cup {Head(inspection[i].rows)}, ![i].rows = Tail(@)]
  /\ freeConnections' = freeConnections + 1
  /\ UNCHANGED <<engine, spec, altered, connections>>

\* Another session adds an index.
AlterTable == /\ ~altered /\ altered' = TRUE /\ UNCHANGED <<engine, spec, connections, freeConnections, inspection>>

InspectNext ==
  \/ AlterTable
  \/ \E i \in Inspectors :
       InspectTable(i) \/ queryRows(i) \/ closeRows(i) \/ RowsFail(i) \/ loadSQLiteIndex(i) \/ inspectIndexColumns(i)

InspectSpec == InspectInit /\ [][InspectNext]_inspectVars

-----------------------------------------------------------------------------
(* Properties. *)

\* Connections an inspection holds.
HeldBy(i) == CASE inspection[i].pc = "rows" -> 1 [] inspection[i].pc = "nested" -> 2 [] OTHER -> 0

\* Every caller that is not finished waits for a connection.
AllWait == freeConnections = 0 /\ \A i \in Inspectors : inspection[i].pc = "query" \/ (inspection[i].pc = "rows" /\ inspection[i].rows # <<>>)

\* Connections are never lost, whatever fails; and callers block each other for good
\* only in SQLite's nested queries, when at least as many callers list indexes as
\* there are connections.
ConnectionsReturned ==
  /\ \A i \in Inspectors : inspection[i].pc \in {"done", "failed"} => HeldBy(i) = 0
  /\ (\A i \in Inspectors : inspection[i].pc \in {"idle", "done", "failed"}) => freeConnections = connections
  /\ AllWait => engine = "sqlite"

\* A table that was created from its declaration shows no difference when it is
\* inspected: the column types normalise to the same, keys, indexes, foreign keys and
\* checks are found.  Known exceptions: UNSIGNED on a MySQL that reports display
\* widths, a MySQL key that is not in column order, PostgreSQL foreign keys of several
\* columns, and SQLite checks of a table with CHECK in its name (the text of checks is
\* compared for SQLite only, which alone keeps it as it was written).
CreatedShowsNoDifference ==
  \A i \in Inspectors :
    LET s == inspection[i] IN
    s.pc = "done" =>
      /\ \A k \in DOMAIN spec.columns :
           LET c == spec.columns[k] IN
           /\ (engine = "mysql57" /\ c.kind \in {"uint", "uint64"})
              \/ NormalizeType(s.columns[k].type) = NormalizeType(DeclaredType(c.kind))
           /\ s.columns[k].pk \/ s.columns[k].nullable = c.nullable
      /\ s.pk = spec.pk \/ (engine \in {"mysql", "mysql57"} /\ ToSet(s.pk) = ToSet(spec.pk))
      /\ spec.indexes \subseteq s.indexes
      /\ (engine = "postgres" /\ \E fk \in ToSet(spec.foreignKeys) : Len(fk.cols) > 1)
         \/ { [fk EXCEPT !.onDelete = referentialAction(@)] : fk \in ToSet(spec.foreignKeys) } = s.foreignKeys
      /\ engine = "sqlite" /\ ~spec.checkInName => ToSet(spec.checks) \subseteq s.checks
      /\ ~altered => [unique |-> FALSE, cols |-> <<"late">>] \notin s.indexes

InspectExact == ConnectionsReturned /\ CreatedShowsNoDifference
=============================================================================
