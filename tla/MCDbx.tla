------------------------------- MODULE MCDbx --------------------------------
(***************************************************************************)
(* The parts of dbx in one model: part says which of them the behaviour is *)
(* about, the others keep their initial state. They share no state, so     *)
(* each is checked as if alone.                                            *)
(***************************************************************************)
EXTENDS DbMigrate, DbSchemaMigrate, DbTemplates, DbStatements, DbInspect,
        DbRuntime, DbRelations, DbRepository, DbEntities

VARIABLE part

Parts == {"migrate", "schema", "template", "params", "query", "mutation", "inspect",
          "runtime", "ids", "relations", "repository", "entities"}

(* Migration files: two versions and a repeatable one, and a Go migration.  *)
MCFileNames ==
  {[prefix |-> "V", version |-> 1, desc |-> "a"], [prefix |-> "V", version |-> 2, desc |-> "a"],
   [prefix |-> "R", version |-> 0, desc |-> "a"]}
MCGoMigrations == {[version |-> 1, desc |-> "a"]}

(* Schema items: a column in two forms, an index, a foreign key, the key.   *)
Item(k, n, d) == [kind |-> k, name |-> n, def |-> d]
MCSchemaItems ==
  {Item("column", "a", 1), Item("column", "a", 2), Item("index", "i", 1),
   Item("foreign_key", "f", 1), Item("primary_key", "p", 1)}
MCTableItem == Item("table", "t", 0)

(* Templates: every text of up to three lexemes, and longer ones.           *)
Lexemes == {"word", "and", "comma", "list", "param"} \cup Directives
MCSharedTexts == {<<"where", "if", "and", "param", "end", "end">>, <<"param">>, <<"if", "word">>}
MCTemplateTexts ==
  UNION { [1..n -> Lexemes] : n \in 0..3 } \cup MCSharedTexts \cup
  {<<"set", "if", "param", "comma", "end", "if", "param", "comma", "end", "end">>,
   <<"where", "and", "if", "word", "end", "list", "end">>,
   <<"if", "where", "and", "cast", "end", "set", "comma", "end", "end">>}
MCParamValues ==
  {[kind |-> "scalar", items |-> <<>>], [kind |-> "list", items |-> <<>>], [kind |-> "list", items |-> <<7, 8>>]}

(* Tables to inspect: one of each Go kind; a composite key and reference;   *)
(* one without a key.                                                       *)
InspectedTable(ks, pk, ix, fks, cks, named) ==
  [columns |-> [i \in 1..Len(ks) |->
     [name |-> IF i <= 3 THEN <<"id", "b", "checked">>[i] ELSE ks[i], kind |-> ks[i], nullable |-> i > 1, auto |-> i = 1]],
   pk |-> pk, indexes |-> ix, foreignKeys |-> fks, checks |-> cks, checkInName |-> named]
OneIndex == {[unique |-> TRUE, cols |-> <<"b">>]}
MCTableSpecs ==
  {InspectedTable(<<"int64", "string", "bool", "int", "uint", "uint64", "float32", "float64", "time", "bytes">>, <<"id">>, {},
                  <<[cols |-> <<"b">>, targets |-> <<"x">>, onDelete |-> ""]>>, <<"e1", "e2">>, FALSE),
   InspectedTable(<<"int64", "string">>, <<"b", "id">>, OneIndex,
                  <<[cols |-> <<"id", "b">>, targets |-> <<"x", "y">>, onDelete |-> "CASCADE"]>>, <<"e1">>, TRUE),
   InspectedTable(<<"int", "uint">>, <<>>, OneIndex, <<>>, <<>>, FALSE)}

(* Related rows: targets by reference, and a join table with loose ends.    *)
Target(i, k) == [id |-> i, ref |-> k]
Pair(s, t) == [source |-> s, target |-> t]
MCSourceLists == {<<1, 2, 1, 0, 3>>, <<0>>}
MCRelTables ==
  {[targets |-> {Target(1, 1), Target(2, 1), Target(3, 2)}, joins |-> {Pair(1, 2), Pair(1, 3), Pair(2, 3), Pair(3, 9)}],
   [targets |-> {Target(1, 3), Target(2, 0)}, joins |-> {Pair(1, 1), Pair(2, 0)}]}

MCUnitOf == [text |-> 1, json |-> 1, unix |-> 4, unixMilli |-> 2, rfc3339 |-> 4]

-----------------------------------------------------------------------------
\* The parts a behaviour is not about start in one of their initial states.
NotAbout ==
  /\ part # "migrate" => files = [n \in MCFileNames |-> IF n.prefix = "V" THEN CHOOSE c \in Contents : TRUE ELSE NoFile] /\ txDDL = TRUE
  /\ part # "schema" => /\ backend = "atlas" /\ unbuildable = {} /\ transactional = TRUE /\ db = {}
                        /\ migrator = [m \in Migrators |-> [pc |-> "idle", plan |-> <<>>, own |-> {}, gone |-> {},
                                         spec |-> {Item("column", "a", 1), Item("index", "i", 1)}]]
  /\ part # "template" => param = Missing /\ user = [u \in TemplateUsers |-> [pc |-> "call", text |-> <<>>, template |-> compileTemplate(<<>>)]]
  /\ part # "params" => fields = <<>>
  /\ part # "mutation" => /\ dialect = "other"
                          /\ stmt = [kind |-> "delete", columns |-> <<>>, rows |-> <<>>, upsert |-> NoUpsert, where |-> FALSE, returning |-> FALSE]
  /\ part # "inspect" => engine = "mysql" /\ spec = InspectedTable(<<"int", "uint">>, <<>>, OneIndex, <<>>, <<>>, FALSE) /\ connections = 1
  /\ part # "ids" => nodeOf = [h \in Hosts |-> 1]
  /\ part # "relations" => targetRows = {Target(1, 3), Target(2, 0)} /\ sameType = TRUE
  /\ part # "repository" => idStrategy = "snowflake"
  /\ part # "entities" => decl = PlainID /\ schemaDecl = PlainSchema /\ layout = PlainLayout

Init ==
  /\ part \in Parts /\ NotAbout
  /\ MigrateInit /\ SchemaInit /\ TemplateInit /\ ParamsInit /\ QueryInit /\ MutationInit /\ InspectInit
  /\ RuntimeInit /\ IdsInit /\ RelationsInit /\ RepositoryInit /\ EntitiesInit

Next ==
  /\ UNCHANGED part
  /\ IF part = "migrate" THEN MigrateNext ELSE UNCHANGED migrateVars
  /\ IF part = "schema" THEN SchemaNext ELSE UNCHANGED schemaVars
  /\ IF part = "template" THEN TemplateNext ELSE UNCHANGED templateVars
  /\ IF part = "params" THEN ParamsNext ELSE UNCHANGED paramsVars
  /\ IF part = "query" THEN QueryNext ELSE UNCHANGED queryVars
  /\ IF part = "mutation" THEN MutationNext ELSE UNCHANGED mutationVars
  /\ IF part = "inspect" THEN InspectNext ELSE UNCHANGED inspectVars
  /\ IF part = "runtime" THEN RuntimeNext ELSE UNCHANGED runtimeVars
  /\ IF part = "ids" THEN IdsNext ELSE UNCHANGED idsVars
  /\ IF part = "relations" THEN RelationsNext ELSE UNCHANGED relationsVars
  /\ IF part = "repository" THEN RepositoryNext ELSE UNCHANGED repositoryVars
  /\ IF part = "entities" THEN EntitiesNext ELSE UNCHANGED entitiesVars

Spec ==
  Init /\ [][Next]_<<part, migrateVars, schemaVars, templateVars, paramsVars, queryVars, mutationVars, inspectVars,
                    runtimeVars, idsVars, relationsVars, repositoryVars, entitiesVars>>

-----------------------------------------------------------------------------
\* What the database holds is what was asked of it: a declared schema applied whole or
\* not at all, an inspected table the table that was created, every statement of a
\* template or the query builder with its arguments in the order of its placeholders,
\* and entities, repositories and relations that give back the rows of the tables.
DbContentsExact ==
  CASE part = "schema" -> SchemasExact
    [] part = "inspect" -> InspectExact
    [] part = "template" -> TemplatesExact
    [] part = "params" -> ConditionsSeeWhatBinds
    [] part = "query" -> QueriesExact
    [] part = "mutation" -> MutationsExact
    [] part = "relations" -> RelationsExact
    [] part = "repository" -> RepositoryExact
    [] part = "entities" -> EntitiesExact
    [] OTHER -> TRUE
=============================================================================
