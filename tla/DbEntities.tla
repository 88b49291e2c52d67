----------------------------- MODULE DbEntities ------------------------------
(***************************************************************************)
(* dbx/schema, column, mapper and codec: how a schema's declarations bind  *)
(* to columns (and bind again under an alias), what table they derive, and *)
(* how an entity becomes the values of a statement and a row becomes an    *)
(* entity again, through codecs and a cache of scan plans that readers     *)
(* share.                                                                  *)
(***************************************************************************)
EXTENDS Integers, Sequences, FiniteSets, SequencesExt

CONSTANTS
  Scanners,     \* goroutines that scan rows with one mapper
  Instants,     \* times and other values of a field, in the finest unit; 0 is the zero value
  UnitOf,       \* codec -> the unit it keeps (1: everything)
  Null          \* a nil pointer, and NULL

ASSUME EntityConstants ==
  /\ Instants \subseteq Nat /\ 0 \in Instants /\ Null \notin Nat
  /\ "text" \in DOMAIN UnitOf /\ \A c \in DOMAIN UnitOf : UnitOf[c] \in Nat \ {0}

-----------------------------------------------------------------------------
(* Binding a column.  A declaration: the tag's pk and auto, the options     *)
(* given to New, and the strategy of the option or of IDColumn's marker.    *)

Strategies == {"unset", "db_auto", "snowflake", "uuid"}
IDDeclarations ==
  [goType : {"int64", "string", "int32"}, tagPk : BOOLEAN, tagAuto : BOOLEAN,
   optPk : BOOLEAN, optAuto : BOOLEAN, strategy : Strategies, marker : BOOLEAN]

inferIDStrategyFromType(t) == IF t = "int64" THEN "db_auto" ELSE IF t = "string" THEN "uuid" ELSE "unset"
\* What the column's type allows, and what a strategy makes of AutoIncrement.
validateIDStrategy(m) ==
  CASE m.strategy = "unset" -> m
    [] m.strategy = "db_auto" -> [m EXCEPT !.auto = TRUE]
    [] m.strategy = "snowflake" /\ m.goType = "int64" -> [m EXCEPT !.auto = FALSE]
    [] m.strategy = "uuid" /\ m.goType = "string" -> [m EXCEPT !.auto = FALSE]
    [] OTHER -> [m EXCEPT !.strategy = "refused"]
normalizeIDPolicy(m) ==
  IF ~m.pk THEN m
  ELSE validateIDStrategy(IF m.strategy = "unset" THEN [m EXCEPT !.strategy = inferIDStrategyFromType(m.goType)] ELSE m)

\* Only the tag is normalised: a strategy of an option or a marker is not in it.
resolveColumnMeta(d) ==
  normalizeIDPolicy([goType |-> d.goType, pk |-> d.tagPk, auto |-> d.tagAuto, strategy |-> "unset"])
NewColumn(d) == [goType |-> d.goType, pk |-> d.optPk, auto |-> d.optAuto, strategy |-> IF d.marker THEN "unset" ELSE d.strategy]
\* Fault: AutoIncrement stays when the strategy speaks against it.
mergeColumnFlagsOr(c, b) == [c EXCEPT !.pk = @ \/ b.pk, !.auto = @ \/ b.auto]

\* The flags are merged before the strategy is.
mergeColumnFlags(c, b) ==
  [c EXCEPT !.pk = @ \/ b.pk, !.auto = IF c.strategy = "unset" THEN @ \/ b.auto ELSE c.strategy = "db_auto"]
finalizeColumnIDAndUUID(c, b) == [c EXCEPT !.strategy = IF @ = "unset" THEN b.strategy ELSE @]
BindColumn(c, d) ==
  LET b == resolveColumnMeta(d)
      own == IF d.marker /\ d.strategy # "unset" THEN [c EXCEPT !.pk = TRUE, !.strategy = d.strategy] ELSE c
  IN finalizeColumnIDAndUUID(mergeColumnFlags(own, b), b)

-----------------------------------------------------------------------------
(* The table a schema derives.  A column "a" with flags and a reference,    *)
(* explicit indexes on it, and relations from it.                           *)

IndexKey(unique, cols) == <<unique, cols>>
shouldDeriveColumnIndex(s) == ~s.pk /\ (s.unique \/ s.indexed)
\* A declared index and a derived one of the same key are one; the name is the derived one.
deriveIndexes(s) ==
  LET derived == IF shouldDeriveColumnIndex(s) THEN {<<IndexKey(s.unique, <<"a">>), "derived">>} ELSE {}
      named == { <<IndexKey(u, <<"a">>), "named">> : u \in s.named }
  IN derived \cup { i \in named : \A d \in derived : d[1] # i[1] }
derivePrimaryKey(s) == IF s.composite THEN <<"a", "b">> ELSE IF s.pk THEN <<"a">> ELSE <<>>
\* A reference of the column stands before every relation over it; relations of one
\* target are one key.
deriveForeignKeys(s) ==
  IF s.ref # "none" THEN {<<s.ref, s.onDelete>>}
  ELSE { <<s.rels[i].target, "no action">> : i \in { j \in DOMAIN s.rels : s.rels[j].kind = "belongs_to" /\ s.rels[j].target # "none" } }
Relations == [kind : {"belongs_to", "has_many"}, target : {"none", "u", "v"}]
SchemaDeclarations ==
  [pk : BOOLEAN, composite : BOOLEAN, unique : BOOLEAN, indexed : BOOLEAN, named : SUBSET BOOLEAN,
   ref : {"none", "u"}, onDelete : {"cascade"}, rels : {<<r, s>> : r, s \in Relations}]

-----------------------------------------------------------------------------
(* Fields and codecs.  A field is [col, codec, ptr (its type is a pointer), *)
(* emb (it lies in an embedded pointer), ins, upd].                         *)

Codecs == DOMAIN UnitOf
Layouts == [codec : Codecs, ptr : BOOLEAN, emb : BOOLEAN, ins : BOOLEAN, upd : BOOLEAN]
Refused == -1  \* no value: the codec's error
ZeroOf(f) == IF f.ptr THEN Null ELSE 0

\* A nil goes in as NULL; the text codec takes no pointer that does not marshal itself.
CodecEncode(f, v) ==
  IF v = Null THEN Null ELSE IF f.codec = "text" /\ f.ptr THEN Refused ELSE v \div UnitOf[f.codec]
\* Fault: NULL leaves a zero value behind, for pointers too.
resetFieldValueZero(f) == 0

resetFieldValue(f) == ZeroOf(f)
assignDecodedValue(f, v) == v * UnitOf[f.codec]
CodecDecode(f, src) == IF src = Null THEN resetFieldValue(f) ELSE assignDecodedValue(f, src)

\* Reading through a nil embedded pointer gives the zero value of the field.
walkFieldValue(e, f) == IF f.emb /\ ~e.emb THEN ZeroOf(f) ELSE e.val
boundFieldValue(e, f) == CodecEncode(f, walkFieldValue(e, f))

-----------------------------------------------------------------------------
VARIABLES
  decl, col,    \* a declared id column, and as it is bound
  rebound,      \* as it is bound again by Alias
  schemaDecl, layout,
  made,         \* the entity in memory: [id, val, emb]
  rowOf,        \* its row: [id, val] or <<>>
  lastWrite,    \* "none", "inserted", "updated" or "refused"
  plans,        \* scan plans by signature of the result's columns
  scanning      \* what each reader does

entitiesVars == <<decl, col, rebound, schemaDecl, layout, made, rowOf, lastWrite, plans, scanning>>

PlainID == [goType |-> "int64", tagPk |-> TRUE, tagAuto |-> FALSE, optPk |-> FALSE, optAuto |-> FALSE, strategy |-> "unset", marker |-> FALSE]
PlainSchema == [pk |-> FALSE, composite |-> FALSE, unique |-> FALSE, indexed |-> FALSE, named |-> {}, ref |-> "none", onDelete |-> "cascade", rels |-> <<>>]
PlainLayout == [codec |-> "text", ptr |-> FALSE, emb |-> FALSE, ins |-> TRUE, upd |-> TRUE]
NotScanning == [pc |-> "idle", sig |-> <<>>, plan |-> <<>>, got |-> <<>>, of |-> <<>>]

EntitiesInit ==
  /\ \/ decl \in IDDeclarations /\ schemaDecl = PlainSchema /\ layout = PlainLayout
     \/ decl = PlainID /\ schemaDecl \in SchemaDeclarations /\ layout = PlainLayout
     \/ decl = PlainID /\ schemaDecl = PlainSchema /\ layout \in Layouts
  /\ col = BindColumn(NewColumn(decl), decl) /\ rebound = col
  /\ made = [id |-> "zero", val |-> 0, emb |-> TRUE] /\ rowOf = <<>> /\ lastWrite = "none"
  /\ plans = <<>> /\ scanning = [r \in Scanners |-> NotScanning]

AliasSchema ==
  /\ rebound = col /\ lastWrite = "none"
  /\ rebound' = BindColumn(col, decl)
  /\ UNCHANGED <<decl, col, schemaDecl, layout, made, rowOf, lastWrite, plans, scanning>>

-----------------------------------------------------------------------------
(* Statements of the mapper. *)

Bound == col.strategy # "refused"
insertsID == ~col.pk \/ (col.strategy # "db_auto" /\ ~col.auto)
shouldGenerateID == col.pk /\ col.strategy \in {"snowflake", "uuid"}
\* An int64 converts to a string, as the character of that number.
setGeneratedValue ==
  CASE col.strategy = "snowflake" /\ col.goType = "string" -> "replacement character"
    [] col.strategy = "snowflake" /\ col.goType = "int32" -> "wrapped"
    [] col.strategy = "uuid" /\ col.goType # "string" -> "refused"
    [] OTHER -> "generated"
ensureGeneratedID(e) == IF shouldGenerateID /\ e.id = "zero" THEN setGeneratedValue ELSE e.id

EntityValues == [id : {"zero", "given"}, val : IF layout.ptr THEN Instants \cup {Null} ELSE Instants, emb : BOOLEAN]

\* The id goes into the entity when it is generated, before anything else can fail.
InsertAssignments(e) ==
  LET id == IF insertsID THEN ensureGeneratedID(e) ELSE e.id
      val == IF layout.ins THEN boundFieldValue(e, layout) ELSE Null
      fails == id = "refused" \/ val = Refused
  IN /\ Bound /\ lastWrite = "none" /\ (layout.emb \/ e.emb)
     /\ made' = [e EXCEPT !.id = IF id = "refused" THEN @ ELSE id]
     /\ lastWrite' = IF fails THEN "refused" ELSE "inserted"
     /\ rowOf' = IF fails THEN <<>> ELSE <<[id |-> IF insertsID THEN id ELSE "counted", val |-> val]>>
     /\ UNCHANGED <<decl, col, rebound, schemaDecl, layout, plans, scanning>>

\* The primary key and what counts up by itself are not assigned.
UpdateAssignments(val) ==
  LET e == [made EXCEPT !.val = val]
      to == boundFieldValue(e, layout)
  IN /\ lastWrite = "inserted" /\ layout.upd /\ (val = Null => layout.ptr)
     /\ made' = e
     /\ lastWrite' = IF to = Refused THEN "refused" ELSE "updated"
     /\ rowOf' = IF to = Refused THEN rowOf ELSE <<[rowOf[1] EXCEPT !.val = to]>>
     /\ UNCHANGED <<decl, col, rebound, schemaDecl, layout, plans, scanning>>

-----------------------------------------------------------------------------
(* Scanning. *)

resolveFieldByResultColumn(c) == IF c = "other" THEN "unmapped" ELSE "val"
Signatures == {<<"val">>, <<"t.val">>, <<"val", "other">>}
newScanPlan(sig) == [i \in DOMAIN sig |-> resolveFieldByResultColumn(sig[i])]

\* Look for the plan of these columns and build it if there is none; a column no
\* field is mapped to refuses the scan.
ScanPlan(r, sig) ==
  /\ scanning[r].pc = "idle" /\ rowOf # <<>>
  /\ LET plan == IF sig \in DOMAIN plans THEN plans[sig] ELSE newScanPlan(sig)
     IN scanning' = [scanning EXCEPT ![r] =
          IF "unmapped" \in { plan[i] : i \in DOMAIN plan } THEN NotScanning
          ELSE [NotScanning EXCEPT !.pc = IF sig \in DOMAIN plans THEN "planned" ELSE "built", !.sig = sig, !.plan = plan]]
  /\ UNCHANGED <<decl, col, rebound, schemaDecl, layout, made, rowOf, lastWrite, plans>>
\* Look again, and keep the plan that is there first.
StorePlan(r) ==
  LET sig == scanning[r].sig IN
  /\ scanning[r].pc = "built"
  /\ plans' = IF sig \in DOMAIN plans THEN plans ELSE [x \in DOMAIN plans \cup {sig} |-> IF x = sig THEN scanning[r].plan ELSE plans[x]]
  /\ scanning' = [scanning EXCEPT ![r].pc = "planned", ![r].plan = plans'[sig]]
  /\ UNCHANGED <<decl, col, rebound, schemaDecl, layout, made, rowOf, lastWrite>>
\* A new entity per row; embedded pointers on the way to a field are allocated.
ScanRow(r) ==
  /\ scanning[r].pc = "planned"
  /\ scanning' = [scanning EXCEPT ![r].pc = "done", ![r].of = rowOf,
       ![r].got = <<[val |-> CodecDecode(layout, rowOf[1].val), emb |-> TRUE]>>]
  /\ UNCHANGED <<decl, col, rebound, schemaDecl, layout, made, rowOf, lastWrite, plans>>

EntitiesNext ==
  \/ AliasSchema
  \/ \E e \in EntityValues : InsertAssignments(e)
  \/ \E v \in Instants \cup {Null} : UpdateAssignments(v)
  \/ \E r \in Scanners :
       \/ \E sig \in Signatures : decl = PlainID /\ schemaDecl = PlainSchema /\ ScanPlan(r, sig)
       \/ StorePlan(r) \/ ScanRow(r)

EntitiesSpec == EntitiesInit /\ [][EntitiesNext]_entitiesVars

-----------------------------------------------------------------------------
(* Properties. *)

\* A schema under an alias has the columns it has: binding again changes nothing,
\* but for AutoIncrement() on a key whose strategy comes from its type.
AutoOnTypedKey == decl.strategy = "unset" /\ decl.tagPk /\ decl.goType = "string" /\ decl.optAuto
AliasKeepsColumns == ~AutoOnTypedKey => rebound = col

\* An inserted entity knows its row, unless the database counts: its id is the id
\* of the row, given or generated, and it is a real one if the type can hold it;
\* no id is generated for a column the statement leaves out.
InsertedIDKnown ==
  lastWrite = "inserted" =>
    /\ insertsID => made.id = rowOf[1].id
    /\ shouldGenerateID => insertsID \/ AutoOnTypedKey
    /\ shouldGenerateID /\ insertsID => made.id \in {"given", "generated"} \/ (col.strategy = "snowflake" /\ col.goType # "int64")

\* A unique column is unique in the database, one index serves one key, and every
\* relation over a column that has no reference of its own is a foreign key.
DerivedTableExact ==
  LET s == schemaDecl
      keys == deriveIndexes(s)
  IN /\ s.unique => derivePrimaryKey(s) = <<"a">> \/ <<TRUE, <<"a">>>> \in { i[1] : i \in keys } \/ s.pk
     /\ \A i, j \in keys : i[1] = j[1] => i = j
     /\ \A u \in s.named : \E i \in keys : i[1] = IndexKey(u, <<"a">>)
     /\ s.ref # "none" => deriveForeignKeys(s) = {<<s.ref, s.onDelete>>}
     /\ Cardinality(deriveForeignKeys(s)) <= 2

\* What was written is read again, to the unit its codec keeps: nil stays nil, and
\* a nil embedded struct comes back allocated, with the field's zero value.
RowsRoundTrip ==
  \A r \in Scanners :
    scanning[r].pc = "done" /\ scanning[r].of = rowOf /\ layout.ins /\ lastWrite # "refused" =>
      LET v == IF layout.emb /\ ~made.emb THEN ZeroOf(layout) ELSE made.val
      IN scanning[r].got[1].val = IF v = Null THEN Null ELSE (v \div UnitOf[layout.codec]) * UnitOf[layout.codec]

\* A plan is the plan of its columns, whichever reader stored it.
PlansFit == \A sig \in DOMAIN plans : plans[sig] = newScanPlan(sig)

EntitiesExact == AliasKeepsColumns /\ InsertedIDKnown /\ DerivedTableExact /\ RowsRoundTrip /\ PlansFit
=============================================================================
