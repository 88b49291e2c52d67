--------------------------- MODULE DbSchemaMigrate ---------------------------
(***************************************************************************)
(* dbx/schemamigrate: AutoMigrate compares the table a program declares    *)
(* with the one in the database, refuses if anything but additions would   *)
(* be needed, executes the additions, in a transaction when the session    *)
(* can begin one, validates again and commits.  The comparison is Atlas's  *)
(* for the dialects it knows and the package's own ("legacy") for others.  *)
(* Instances of different versions of a program may migrate at once.       *)
(* A table is a set of items [kind, name, def]; the item of kind "table"   *)
(* stands for its existence.                                               *)
(***************************************************************************)
EXTENDS Integers, FiniteSets, Sequences, SequencesExt

CONSTANTS
  SchemaItems,    \* the items a declared or existing table may have
  Migrators,      \* program instances calling AutoMigrate
  TableItem       \* the item for the table itself

ItemKinds == {"table", "column", "index", "foreign_key", "check", "primary_key", "attr"}
ASSUME SchemaConstants ==
  /\ IsFiniteSet(SchemaItems) /\ SchemaItems \cup {TableItem} \subseteq [kind : ItemKinds, name : STRING, def : Nat]
  /\ TableItem.kind = "table" /\ \A x \in SchemaItems : x.kind # "table"

VARIABLES
  backend,        \* "atlas" or "legacy", by the dialect of the session
  unbuildable,    \* kinds of change the dialect or the driver has no statement for
  transactional,  \* the session has BeginTx
  db,             \* items of the table, as committed
  initially,         \* ghost: the items there at the start
  migrator,       \* what each instance is doing
  compiledCache   \* compiledSchemaCache: fingerprint -> declared table compiled for it

schemaVars == <<backend, unbuildable, transactional, db, initially, migrator, compiledCache>>

Same(x, y) == x.kind = y.kind /\ x.name = y.name
Declarable == { S \in SUBSET SchemaItems : S # {} /\ \A x, y \in S : Same(x, y) => x = y }

SchemaInit ==
  /\ backend \in {"atlas", "legacy"} /\ unbuildable \in {{}, {"foreign_key"}} /\ transactional \in BOOLEAN
  /\ db \in {{}} \cup { S \cup {TableItem} : S \in { T \in Declarable : Cardinality(T) = 1 } } /\ initially = db
  /\ migrator \in [Migrators -> { [pc |-> "idle", spec |-> S, plan |-> <<>>, own |-> {}, gone |-> {}] :
                                    S \in { T \in Declarable : Cardinality(T) = 2 /\ \E x \in T : x.kind = "column" } }]
  /\ compiledCache = {}

-----------------------------------------------------------------------------
(* Comparing. *)

\* What the session sees: committed items and, in a transaction, its own.
Seen(m) == (db \ migrator[m].gone) \cup migrator[m].own

\* driver.SchemaDiff, external: changes that lead from the table found to the declared one.
SchemaDiff(spec, found) ==
  IF TableItem \notin found THEN {[op |-> "add_table", item |-> TableItem]}
  ELSE    { [op |-> "add", item |-> x] : x \in { y \in spec : ~\E z \in found : Same(y, z) } }
     \cup { [op |-> "modify", item |-> x] : x \in { y \in spec : \E z \in found : Same(y, z) /\ y # z } }
     \cup { [op |-> "drop", item |-> z] : z \in { y \in found \ {TableItem} : ~\E x \in spec : Same(x, y) } }

\* The handlers of the report know columns, indexes, foreign keys, checks and the
\* primary key; any other change to a table, as of its attributes, is passed over.
atlasApplyTableChangeToDiff(change) == change.item.kind # "attr"
atlasApplyChangeToReport(changes) ==
  { c.item.name : c \in { d \in changes : d.op = "add_table" \/ atlasApplyTableChangeToDiff(d) } }

\* Fault: a changed item counts as safe like a new one.
ExecutableIfModified(change) ==
  change.op \in {"add", "modify"} /\ change.item.kind \in {"column", "index", "foreign_key", "check"}

atlasIsExecutableTableChange(change) ==
  change.op = "add" /\ change.item.kind \in {"column", "index", "foreign_key", "check"}

KindOrder(k) == CASE k = "table" -> 0 [] k = "column" -> 1 [] k = "index" -> 2 [] k = "foreign_key" -> 3 [] OTHER -> 4
InOrder(S) ==
  CHOOSE q \in [1..Cardinality(S) -> S] :
    \A i, j \in 1..Cardinality(S) : i < j => q[i] # q[j] /\ KindOrder(q[i].item.kind) <= KindOrder(q[j].item.kind)

\* Statements for a new table: the table with everything but its indexes, then those.
CreateActions(spec) ==
  LET rest == { x \in spec : x.kind # "index" }
  IN <<[adds |-> {TableItem} \cup rest, replaces |-> FALSE, executable |-> TRUE]>>
     \o [i \in 1..Cardinality(spec \ rest) |-> [adds |-> {SetToSeq(spec \ rest)[i]}, replaces |-> FALSE, executable |-> TRUE]]

\* Safe changes become statements, unless the driver knows none (ErrNoPlan); the
\* others become actions to be taken by hand, after them.
atlasPlanActions(spec, changes) ==
  LET safe == { c \in changes : atlasIsExecutableTableChange(c) /\ c.item.kind \notin unbuildable }
      manual == { c \in changes : c.op # "add_table" /\ ~atlasIsExecutableTableChange(c) }
  IN IF \E c \in changes : c.op = "add_table" THEN CreateActions(spec)
     ELSE [i \in 1..Cardinality(safe) |-> [adds |-> {InOrder(safe)[i].item}, replaces |-> InOrder(safe)[i].op # "add", executable |-> TRUE]]
          \o [i \in 1..Cardinality(manual) |-> [adds |-> {}, replaces |-> FALSE, executable |-> FALSE]]

\* Columns are compared by name; indexes, foreign keys and checks by what they
\* say, whatever they are called; the primary key as a whole, also one too many.
\* Other items of the existing table are not looked at.
legacyMissing(spec, found) ==
  { x \in spec : IF x.kind = "column" THEN ~\E y \in found : Same(x, y)
                 ELSE x.kind \in {"index", "foreign_key", "check"} /\ ~\E y \in found : y.kind = x.kind /\ y.def = x.def }
columnDiffIssues(spec, found) == { x \in spec : x.kind = "column" /\ \E y \in found : Same(x, y) /\ x.def # y.def }
primaryKeyIssues(spec, found) ==
  { x.def : x \in { y \in spec : y.kind = "primary_key" } } # { x.def : x \in { y \in found : y.kind = "primary_key" } }

legacyReport(spec, found) ==
  IF TableItem \notin found THEN {TableItem.name}
  ELSE { x.name : x \in legacyMissing(spec, found) \cup columnDiffIssues(spec, found) }
       \cup (IF primaryKeyIssues(spec, found) THEN {"primary_key"} ELSE {})

buildLegacyMigrationActions(spec, found) ==
  LET missing == { [op |-> "add", item |-> x] : x \in legacyMissing(spec, found) }
      byHand == Cardinality(columnDiffIssues(spec, found)) + (IF primaryKeyIssues(spec, found) THEN 1 ELSE 0)
  IN IF TableItem \notin found THEN CreateActions(spec)
     ELSE [i \in 1..Cardinality(missing) |->
             [adds |-> {InOrder(missing)[i].item}, replaces |-> FALSE, executable |-> InOrder(missing)[i].item.kind \notin unbuildable]]
          \o [i \in 1..byHand |-> [adds |-> {}, replaces |-> FALSE, executable |-> FALSE]]

\* compiledSchemaCache: the key covers the definitions of the table, but of a
\* foreign key not its name, so a table compiled for another declaration may be used.
schemaFingerprint(spec) ==
  <<{ IF x.kind = "foreign_key" THEN [x EXCEPT !.name = ""] ELSE x : x \in spec }, Cardinality(spec)>>
Compiled(spec) ==
  LET hits == { c \in compiledCache : schemaFingerprint(c) = schemaFingerprint(spec) }
  IN IF hits = {} THEN spec ELSE CHOOSE c \in hits : TRUE

PlanSchemaChanges(spec, found) ==
  IF backend = "atlas" THEN atlasPlanActions(Compiled(spec), SchemaDiff(Compiled(spec), found))
  ELSE buildLegacyMigrationActions(spec, found)
ValidateSchemas(spec, found) ==
  IF backend = "atlas" THEN atlasApplyChangeToReport(SchemaDiff(Compiled(spec), found))
  ELSE legacyReport(spec, found)
HasManualActions(plan) == \E i \in DOMAIN plan : ~plan[i].executable

-----------------------------------------------------------------------------
(* AutoMigrate. *)

Moves(m, to) == migrator' = [migrator EXCEPT ![m].pc = to]

\* The plan; with anything to do by hand AutoMigrate stops at it.
autoMigrate(m) ==
  /\ migrator[m].pc = "idle"
  /\ LET plan == PlanSchemaChanges(migrator[m].spec, db)
     IN migrator' = [migrator EXCEPT ![m].plan = plan,
                       ![m].pc = IF HasManualActions(plan) THEN "drift" ELSE "exec"]
  /\ compiledCache' = IF backend = "atlas" THEN compiledCache \cup {Compiled(migrator[m].spec)} ELSE compiledCache
  /\ UNCHANGED <<backend, unbuildable, transactional, db, initially>>

\* One statement: an item of that name must not be there yet, unless the statement
\* replaces it.
executeMigrationActions(m) ==
  LET next == Head(migrator[m].plan)
      old == { y \in Seen(m) : next.replaces /\ \E x \in next.adds : Same(x, y) } IN
  /\ migrator[m].pc = "exec" /\ migrator[m].plan # <<>>
  /\ ~\E x \in next.adds, y \in Seen(m) \ old : Same(x, y)
  /\ IF transactional
     THEN db' = db /\ migrator' = [migrator EXCEPT ![m].plan = Tail(@), ![m].own = (@ \ old) \cup next.adds, ![m].gone = @ \cup old]
     ELSE db' = (db \ old) \cup next.adds /\ migrator' = [migrator EXCEPT ![m].plan = Tail(@)]
  /\ UNCHANGED <<backend, unbuildable, transactional, initially, compiledCache>>

\* A statement or the commit fails, or the instance dies: a transaction is rolled back.
MigrationFails(m) ==
  /\ migrator[m].pc \in {"exec", "validated"}
  /\ migrator' = [migrator EXCEPT ![m].pc = "failed", ![m].own = {}, ![m].gone = {}]
  /\ UNCHANGED <<backend, unbuildable, transactional, db, initially, compiledCache>>

\* The tables are compared again, through the same session.
validateAppliedMigration(m) ==
  /\ migrator[m].pc = "exec" /\ migrator[m].plan = <<>>
  /\ IF ValidateSchemas(migrator[m].spec, Seen(m)) = {} THEN Moves(m, "validated")
     ELSE migrator' = [migrator EXCEPT ![m].pc = "drift", ![m].own = {}, ![m].gone = {}]
  /\ UNCHANGED <<backend, unbuildable, transactional, db, initially, compiledCache>>

\* Commit, unless another transaction has committed an item of the same name.
finalizeMigration(m) ==
  /\ migrator[m].pc = "validated"
  /\ ~\E x \in migrator[m].own, y \in db \ migrator[m].gone : Same(x, y)
  /\ db' = (db \ migrator[m].gone) \cup migrator[m].own
  /\ migrator' = [migrator EXCEPT ![m].pc = "done", ![m].own = {}, ![m].gone = {}]
  /\ UNCHANGED <<backend, unbuildable, transactional, initially, compiledCache>>

SchemaNext ==
  \E m \in Migrators :
    \/ autoMigrate(m) \/ executeMigrationActions(m) \/ validateAppliedMigration(m)
    \/ finalizeMigration(m) \/ MigrationFails(m)

SchemaSpec == SchemaInit /\ [][SchemaNext]_schemaVars

-----------------------------------------------------------------------------
(* Properties. *)

\* What was in the table is there as it was; nothing has two definitions.
NeverDestroys == initially \subseteq db /\ \A x, y \in db : Same(x, y) => x = y

\* An instance that was told its migration succeeded finds its columns as declared
\* and, by definition, its indexes, keys and checks; what it is told does not
\* depend on statements the driver could not make.
Satisfied(m) ==
  \A x \in migrator[m].spec : x.kind # "attr" =>
    \E y \in db : y.kind = x.kind /\ y.def = x.def /\ (x.kind = "column" => y.name = x.name)
DoneMeansSatisfied == \A m \in Migrators : migrator[m].pc = "done" => Satisfied(m)

\* An instance that failed or met drift in a session with transactions has left
\* nothing behind: every new item was declared by an instance that succeeded.
AllOrNothing ==
  transactional => \A x \in db \ initially :
    \E m \in Migrators : migrator[m].pc = "done" /\ (x = TableItem \/ \E y \in migrator[m].spec : y.kind = x.kind /\ y.def = x.def)

\* Validation reports a difference exactly when the plan has something to do,
\* except for a change only the planner knows (attributes) or nobody can state.
ReportMatchesPlan ==
  \A m \in Migrators :
    LET spec == migrator[m].spec
        known == \A x \in spec \cup db : x.kind # "attr" /\ x.kind \notin unbuildable
    IN known => (ValidateSchemas(spec, db) = {} <=> PlanSchemaChanges(spec, db) = <<>>)

SchemasExact == NeverDestroys /\ DoneMeansSatisfied /\ AllOrNothing /\ ReportMatchesPlan
=============================================================================
