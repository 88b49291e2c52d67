------------------------------ MODULE DbMigrate ------------------------------
(***************************************************************************)
(* dbx/migrate: Runner applies the versioned and the repeatable SQL files  *)
(* of a directory, and migrations written in Go, and keeps a history table *)
(* through which goose decides what is pending.  Several processes may run *)
(* it against one database: nothing locks them out.  A run may fail or die *)
(* between any two statements; whether the statements of a migration are   *)
(* undone with its transaction depends on the database (txDDL).            *)
(***************************************************************************)
EXTENDS Integers, FiniteSets, Sequences

CONSTANTS
  FileNames,        \* names in the directory: [prefix, version, desc], version 0 if absent
  GoMigrations,     \* migrations given to UpGo: [version, desc]
  Contents,         \* what a file may contain
  NoFile,           \* the file is not there
  Runners,          \* processes that may run migrations
  AllowOutOfOrder,  \* RunnerOptions.AllowOutOfOrder
  MaxFileEdits,     \* bound on changes to the directory
  MaxMigrateRuns    \* bound on runs started

ASSUME MigrateConstants ==
  /\ AllowOutOfOrder \in BOOLEAN /\ {MaxFileEdits, MaxMigrateRuns} \subseteq Nat
  /\ NoFile \notin Contents /\ Contents # {}
  /\ IsFiniteSet(FileNames) /\ IsFiniteSet(GoMigrations) /\ \A x \in FileNames \cup GoMigrations : x.version \in Nat

VARIABLES
  files,       \* the directory: name -> content or NoFile
  fileEdits,   \* number of changes made to it
  history,     \* the rows of the history table
  executed,    \* ghost: the migrations executed, in order, with the row each one has to leave
  txDDL,       \* the database undoes schema changes with their transaction
  runs,        \* what each runner is doing
  started,     \* number of runs started
  overlapped,  \* ghost: two runs were in progress at once
  tornDDL      \* ghost: a migration without transaction was interrupted

migrateVars == <<files, fileEdits, history, executed, txDDL, runs, started, overlapped, tornDDL>>

Resting == [pc |-> "resting", loaded |-> {}, todo |-> <<>>, mode |-> "sql"]

MigrateInit ==
  /\ files \in { [n \in FileNames |-> IF n \in S THEN CHOOSE c \in Contents : TRUE ELSE NoFile] :
                   S \in { T \in SUBSET FileNames : Cardinality(T) = 2 } }
  /\ fileEdits = 0 /\ history = {} /\ executed = <<>> /\ txDDL \in BOOLEAN
  /\ runs = [r \in Runners |-> Resting] /\ started = 0 /\ overlapped = FALSE /\ tornDDL = FALSE

-----------------------------------------------------------------------------
(* Reading the directory. *)

\* Files are paired by version and description alone: an undo file goes with its
\* versioned file, and a repeatable file with the same key makes the pair repeatable
\* while the versioned file, later in the directory, supplies the statements.
fileListKeys == { [version |-> n.version, desc |-> n.desc] : n \in { m \in FileNames : files[m] # NoFile } }
Content(prefix, key) ==
  LET here == { n \in FileNames : n.prefix = prefix /\ n.version = key.version /\ n.desc = key.desc /\ files[n] # NoFile }
  IN IF here = {} THEN NoFile ELSE files[CHOOSE n \in here : TRUE]
List ==
  { [version |-> k.version, desc |-> k.desc, repeatable |-> Content("R", k) # NoFile,
     up |-> IF Content("V", k) # NoFile THEN Content("V", k) ELSE Content("R", k),
     down |-> Content("U", k)] : k \in fileListKeys }

\* A pair without statements to apply is passed over; the checksum covers kind,
\* version, description and both files, so it stands for the record itself.
loadSQLMigrations ==
  { [kind |-> IF i.repeatable THEN "repeatable" ELSE "sql", version |-> i.version, desc |-> i.desc,
     sum |-> <<i.up, i.down>>] : i \in { j \in List : j.up # NoFile } }
goMigrations ==
  { [kind |-> "go", version |-> g.version, desc |-> g.desc, sum |-> <<>>] : g \in GoMigrations }

Versioned(loaded) == { x \in loaded : x.kind # "repeatable" }
Repeatables(loaded) == { x \in loaded : x.kind = "repeatable" }
\* parseNumericVersion refuses a version that is no positive number, and goose two
\* migrations of one version.
EngineRefuses(loaded) ==
  \/ \E x \in Versioned(loaded) : x.version < 1
  \/ \E x, y \in Versioned(loaded) : x # y /\ x.version = y.version

-----------------------------------------------------------------------------
(* The history table, read and written by historyStore. *)

SameMigration(x, y) == x.kind = y.kind /\ x.version = y.version /\ x.desc = y.desc
IndexedRecord(rows, x) == { y \in rows : SameMigration(x, y) }

\* ListMigrations: rows of the migrations given, recognised by kind and description.
ListMigrations(loaded) == { x \in Versioned(loaded) : IndexedRecord(history, x) # {} }
GetLatestVersion(loaded) ==
  LET vs == { x.version : x \in ListMigrations(loaded) }
  IN IF vs = {} THEN 0 ELSE CHOOSE v \in vs : \A w \in vs : w <= v

\* goose: what is not applied, in the order of versions; a version below the
\* latest applied one is an error unless out-of-order migrations are allowed.
Unapplied(loaded) == Versioned(loaded) \ ListMigrations(loaded)
MissingVersions(loaded) == { x \in Unapplied(loaded) : x.version < GetLatestVersion(loaded) }
ByVersion(S) ==
  CHOOSE q \in [1..Cardinality(S) -> S] :
    \A i, j \in 1..Cardinality(S) : i < j => q[i] # q[j] /\ q[i].version <= q[j].version

\* Fault: the old row of a migration is not deleted first.
replaceAppliedRecordAdds(rows, x) == rows \cup {x}

replaceAppliedRecord(rows, x) == { y \in rows : ~SameMigration(x, y) } \cup {x}

\* A repeatable is applied when it is new or its checksum differs from the recorded one.
shouldApplyRepeatableMigration(rows, x) == x \notin IndexedRecord(rows, x)

PendingVersioned(loaded) == IF MissingVersions(loaded) # {} /\ ~AllowOutOfOrder THEN {} ELSE Unapplied(loaded)
pendingRepeatableMigrations(loaded) == { x \in Repeatables(loaded) : shouldApplyRepeatableMigration(history, x) }

-----------------------------------------------------------------------------
(* Actions. *)

Active == { r \in Runners : runs[r].pc # "resting" }

\* The directory changes under the runners.
EditFiles(n, c) ==
  /\ fileEdits < MaxFileEdits /\ files[n] # c
  /\ files' = [files EXCEPT ![n] = c] /\ fileEdits' = fileEdits + 1
  /\ UNCHANGED <<history, executed, txDDL, runs, started, overlapped, tornDDL>>

\* UpSQL or UpGo loads its migrations and makes the engine; nothing happens if
\* the engine refuses them.
newRunnerEngine(r, mode) ==
  LET loaded == IF mode = "go" THEN goMigrations ELSE loadSQLMigrations
  IN /\ started < MaxMigrateRuns /\ started' = started + 1
     /\ runs[r].pc = "resting" /\ loaded # {} /\ ~EngineRefuses(loaded)
     /\ runs' = [runs EXCEPT ![r] = [pc |-> "loaded", loaded |-> loaded, todo |-> <<>>, mode |-> mode]]
     /\ overlapped' = (overlapped \/ Active # {})
     /\ UNCHANGED <<files, fileEdits, history, executed, txDDL, tornDDL>>

\* Up lists the history and fixes what it will apply.
engineUp(r) ==
  /\ runs[r].pc = "loaded"
  /\ runs' = [runs EXCEPT ![r] =
       IF MissingVersions(runs[r].loaded) # {} /\ ~AllowOutOfOrder THEN Resting
       ELSE [@ EXCEPT !.pc = "versioned", !.todo = ByVersion(Unapplied(runs[r].loaded))]]
  /\ UNCHANGED <<files, fileEdits, history, executed, txDDL, started, overlapped, tornDDL>>

\* The statements and the row of one migration, committed together.
Applied(r, x) ==
  /\ history' = replaceAppliedRecord(history, x)
  /\ executed' = Append(executed, x)
  /\ runs' = [runs EXCEPT ![r].todo = Tail(@)]
  /\ UNCHANGED <<files, fileEdits, txDDL, started, overlapped, tornDDL>>
\* The transaction of a versioned migration run by goose.
runTxSQL(r) ==
  /\ runs[r].pc = "versioned" /\ runs[r].todo # <<>>
  /\ Applied(r, Head(runs[r].todo))
applySQLMigration(r) ==
  /\ runs[r].pc = "repeatables" /\ runs[r].todo # <<>>
  /\ Applied(r, Head(runs[r].todo))

\* After the versioned files UpSQL reads the history once, and decides by it on
\* every repeatable.
appliedIndex(r) ==
  /\ runs[r].pc = "versioned" /\ runs[r].todo = <<>> /\ runs[r].mode = "sql"
  /\ runs' = [runs EXCEPT ![r].pc = "repeatables",
       ![r].todo = ByVersion({ x \in Repeatables(runs[r].loaded) : shouldApplyRepeatableMigration(history, x) })]
  /\ UNCHANGED <<files, fileEdits, history, executed, txDDL, started, overlapped, tornDDL>>

\* The run fails, or its process dies, with a migration under way: the row is not
\* written, and the statements are undone only if the database can.
RunFails(r) ==
  /\ runs[r].pc \in {"versioned", "repeatables"} /\ runs[r].todo # <<>>
  /\ runs' = [runs EXCEPT ![r] = Resting]
  /\ \/ UNCHANGED <<executed, tornDDL>>
     \/ ~txDDL /\ executed' = Append(executed, Head(runs[r].todo)) /\ tornDDL' = TRUE
  /\ UNCHANGED <<files, fileEdits, history, txDDL, started, overlapped>>

\* The report: every migration applied is looked up in the history again.
AtEnd(r) == runs[r].todo = <<>> /\ runs[r].pc = IF runs[r].mode = "go" THEN "versioned" ELSE "repeatables"
UpReturns(r) ==
  /\ AtEnd(r)
  /\ runs' = [runs EXCEPT ![r] = Resting]
  /\ UNCHANGED <<files, fileEdits, history, executed, txDDL, started, overlapped, tornDDL>>

MigrateNext ==
  \/ \E n \in FileNames, c \in Contents \cup {NoFile} : EditFiles(n, c)
  \/ \E r \in Runners, mode \in {"sql", "go"} : newRunnerEngine(r, mode)
  \/ \E r \in Runners : engineUp(r) \/ runTxSQL(r) \/ appliedIndex(r) \/ applySQLMigration(r) \/ RunFails(r) \/ UpReturns(r)

MigrateSpec == MigrateInit /\ [][MigrateNext]_migrateVars

-----------------------------------------------------------------------------
(* Properties. *)

Times(x) == Cardinality({ i \in DOMAIN executed : SameMigration(executed[i], x) })
LastOf(x) == executed[CHOOSE i \in DOMAIN executed :
  SameMigration(executed[i], x) /\ \A j \in DOMAIN executed : SameMigration(executed[j], x) => j <= i]

\* The history tells what was executed: one row for a migration, with the content
\* executed last; with transactional DDL also nothing executed without its row.
HistoryTrue ==
  /\ \A x, y \in history : SameMigration(x, y) => x = y
  /\ \A x \in history : Times(x) > 0 /\ (tornDDL \/ LastOf(x) = x)
  /\ txDDL => \A i \in DOMAIN executed : IndexedRecord(history, executed[i]) # {}

\* A versioned migration is executed once, whatever happens to files and runs, as
\* long as runs do not overlap and none was cut off in a database that cannot undo it.
OnceUnlessOverlapped ==
  ~overlapped /\ ~tornDDL => \A i \in DOMAIN executed : executed[i].kind # "repeatable" => Times(executed[i]) = 1

\* A repeatable is not executed twice with the same content, under the same conditions.
RepeatedOnlyIfChanged ==
  ~overlapped /\ ~tornDDL =>
    \A i, j \in DOMAIN executed :
      i < j /\ executed[i] = executed[j] =>
        \E k \in i..j : SameMigration(executed[k], executed[i]) /\ executed[k] # executed[i]

\* A run alone that comes to its end has brought the database up to the files it
\* loaded: nothing of them is pending, and PendingSQL agrees.
UpToDate ==
  \A r \in Runners :
    AtEnd(r) /\ ~overlapped /\ ~tornDDL =>
      /\ Unapplied(runs[r].loaded) = {}
      /\ pendingRepeatableMigrations(runs[r].loaded) = {}
      /\ \A x \in Repeatables(runs[r].loaded) : Times(x) > 0 /\ LastOf(x) = x

\* What UpSQL and UpGo promise about the database and their own history, together.
MigrationsExact == HistoryTrue /\ OnceUnlessOverlapped /\ RepeatedOnlyIfChanged /\ UpToDate
=============================================================================
