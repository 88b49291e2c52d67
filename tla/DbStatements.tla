--------------------------- MODULE DbStatements ----------------------------
(***************************************************************************)
(* dbx/querydsl: statements that are built by calls and rendered for a     *)
(* dialect.                                                                *)
(***************************************************************************)
EXTENDS Integers, FiniteSets, Sequences, SequencesExt

(***************************************************************************)
(* dbx/querydsl and dbx/column: queries are built call by call, shared,    *)
(* cloned, and rendered for a dialect.  Rendering writes SQL into a buffer *)
(* and collects the arguments as it meets them; with positional dialects   *)
(* the database pairs the k-th "?" with the k-th argument, so what is      *)
(* rendered into a string first must be written in the same order.         *)
(* A rendered query is a sequence of pieces [t, n]; n numbers the binds.   *)
(***************************************************************************)

CONSTANTS
  PredicateShapes,   \* among "inEmpty", "case", "sub", "mix"
  MaxBuilderCalls,   \* bound: builder calls on the two queries together
  NilList

VARIABLES
  lists,      \* the lists queries refer to: id -> contents
  query,      \* "q" and its clone "c": fields and, for list fields, ids
  told,       \* ghost: what the calls on each query have asked for, in order of calls
  calls       \* builder calls so far; also makes the bound values distinct

queryVars == <<lists, query, told, calls>>

ListFields == {"items", "ctes", "joins", "groups", "orders", "unions"}
P(t) == [t |-> t, n |-> 0]

-----------------------------------------------------------------------------
(* Operands, predicates and plain subqueries as values. *)

Col == [op |-> "col"]
Val(v) == [op |-> "value", v |-> v]
Eq(l, r) == [op |-> "eq", left |-> l, right |-> r]
SubSelect(p) == [where |-> p]

\* The predicate of a shape, whose values are told apart by k.
Shape(shape, k) ==
  CASE shape = "inEmpty" -> Eq(Col, [op |-> "list", vs |-> <<>>])
    [] shape = "case" -> Eq([op |-> "case", when |-> Eq(Col, Val(<<k, 1>>)), then |-> Val(<<k, 2>>), else |-> Val(<<k, 3>>)],
                            Val(<<k, 4>>))
    [] shape = "sub" -> Eq([op |-> "sub", query |-> SubSelect(Eq(Col, Val(<<k, 1>>)))], Val(<<k, 2>>))
    [] shape = "mix" ->
         [op |-> "and", kids |-> << [op |-> "isNull", left |-> [op |-> "agg", expr |-> Val(<<k, 1>>)]],
                                    [op |-> "not", kid |-> Eq(Val(<<k, 2>>), [op |-> "list", vs |-> <<<<k, 3>>, <<k, 4>>>>])],
                                    [op |-> "exists", query |-> SubSelect(Eq(Val(<<k, 5>>), Val(<<k, 6>>)))] >>]

-----------------------------------------------------------------------------
(* The rendering state: buf, args; text is the string an operand came to. *)

NewState == [buf |-> <<>>, args |-> <<>>, text |-> <<>>, err |-> FALSE]
WriteString(s, pieces) == [s EXCEPT !.buf = @ \o pieces]
Bind(s, v) == [s EXCEPT !.args = Append(@, v), !.text = <<[t |-> "bind", n |-> Len(s.args) + 1]>>]
FailRender(s) == [s EXCEPT !.err = TRUE]

\* IN needs a member.
renderAnySliceOperand(s, vs) ==
  IF vs = <<>> THEN FailRender(s)
  ELSE [s EXCEPT !.args = @ \o vs,
                 !.text = <<P("(")>> \o [i \in 1..Len(vs) |-> [t |-> "bind", n |-> Len(s.args) + i]] \o <<P(")")>>]

RECURSIVE RenderPredicate(_, _)
RECURSIVE RenderOperandValue(_, _)
RECURSIVE renderPlainSelect(_, _)

\* Something rendered on the side: the buffer is put away and comes back afterwards.
Aside(s, after) == [after EXCEPT !.buf = s.buf, !.text = after.buf]
RenderPredicateValue(s, p) == Aside(s, RenderPredicate([s EXCEPT !.buf = <<>>], p))
SubqueryRenderOperand(s, q) ==
  LET r == Aside(s, renderPlainSelect([s EXCEPT !.buf = <<>>], q))
  IN [r EXCEPT !.text = <<P("(")>> \o @ \o <<P(")")>>]

\* CASE WHEN p THEN v ELSE e END, collected piece by piece.
CaseRenderOperand(s, c) ==
  LET w == RenderPredicateValue(s, c.when)
      t == RenderOperandValue(w, c.then)
      e == RenderOperandValue(t, c.else)
  IN [e EXCEPT !.text = <<P("CASE"), P("WHEN")>> \o w.text \o <<P("THEN")>> \o t.text \o <<P("ELSE")>> \o e.text \o <<P("END")>>]

AggregateRenderOperand(s, x) ==
  LET r == RenderOperandValue(s, x) IN [r EXCEPT !.text = <<P("AGG"), P("(")>> \o @ \o <<P(")")>>]

RenderOperandValue(s, x) ==
  CASE x.op = "col" -> [s EXCEPT !.text = <<P("col")>>]
    [] x.op = "value" -> Bind(s, x.v)
    [] x.op = "list" -> renderAnySliceOperand(s, x.vs)
    [] x.op = "sub" -> SubqueryRenderOperand(s, x.query)
    [] x.op = "case" -> CaseRenderOperand(s, x)
    [] x.op = "agg" -> AggregateRenderOperand(s, x.expr)

\* Fault: the right operand is rendered first, so its arguments come first.
comparisonRightFirst(s, p) ==
  LET r == RenderOperandValue(s, p.right)
      l == RenderOperandValue(r, p.left)
  IN WriteString(l, l.text \o <<P("=")>> \o r.text)

\* The left operand is written before the right one is rendered.
comparisonRenderPredicate(s, p) ==
  LET l == RenderOperandValue(s, p.left)
      r == RenderOperandValue(WriteString(l, l.text), p.right)
  IN WriteString(r, <<P("=")>> \o r.text)

logicalRenderPredicate(s, kids) ==
  LET Put(acc, i) == RenderPredicate(WriteString(acc, IF i = 1 THEN <<>> ELSE <<P("AND")>>), kids[i])
      all == FoldLeft(Put, WriteString(s, <<P("(")>>), [i \in 1..Len(kids) |-> i])
  IN IF kids = <<>> THEN FailRender(s) ELSE WriteString(all, <<P(")")>>)

notRenderPredicate(s, kid) == WriteString(RenderPredicate(WriteString(s, <<P("NOT"), P("(")>>), kid), <<P(")")>>)
existsRenderPredicate(s, q) == WriteString(renderPlainSelect(WriteString(s, <<P("EXISTS"), P("(")>>), q), <<P(")")>>)

RenderPredicate(s, p) ==
  CASE p.op = "eq" -> comparisonRenderPredicate(s, p)
    [] p.op = "isNull" -> LET l == RenderOperandValue(s, p.left) IN WriteString(l, l.text \o <<P("ISNULL")>>)
    [] p.op = "and" -> logicalRenderPredicate(s, p.kids)
    [] p.op = "not" -> notRenderPredicate(s, p.kid)
    [] p.op = "exists" -> existsRenderPredicate(s, p.query)

\* A subquery, CTE or union member that has only items, FROM and WHERE.
renderPlainSelect(s, q) ==
  RenderPredicate(WriteString(s, <<P("SELECT"), P("col"), P("FROM"), P("table"), P("WHERE")>>), q.where)

-----------------------------------------------------------------------------
(* The select statement, clause by clause. *)

Of(q, f) == IF query[q][f] = NilList THEN <<>> ELSE lists[query[q][f]]

\* A clause: what it begins with, its elements, each preceded by first or next and
\* followed by after. An element is rendered as an operand, a predicate or a plain
\* select, by what it has.
Clause(lead, elements, first, next, after) ==
  [lead |-> lead, elements |-> elements, first |-> first, next |-> next, after |-> after]
Word(w) == Clause(<<P(w)>>, <<>>, <<>>, <<>>, <<>>)
Element(s, e) ==
  CASE e.as = "operand" -> LET r == RenderOperandValue(s, e.x) IN WriteString(r, r.text)
    [] e.as = "predicate" -> RenderPredicate(s, e.x)
    [] e.as = "select" -> renderPlainSelect(s, e.x)
renderEach(s, c) ==
  FoldLeft(LAMBDA acc, i : WriteString(Element(WriteString(acc, IF i = 1 THEN c.first ELSE c.next), c.elements[i]), c.after),
           WriteString(s, c.lead), [i \in 1..Len(c.elements) |-> i])
renderClauses(s, clauses) == FoldLeft(renderEach, s, clauses)

renderCTEs(q) == Clause(<<>>, Of(q, "ctes"), <<P("WITH"), P("AS"), P("(")>>, <<P(","), P("AS"), P("(")>>, <<P(")")>>)
renderSelectItems(q) == Clause(<<P("SELECT")>>, Of(q, "items"), <<>>, <<P(",")>>, <<>>)
renderSelectJoins(q) == Clause(<<P("FROM"), P("table")>>, Of(q, "joins"), <<P("JOIN"), P("ON")>>, <<P("JOIN"), P("ON")>>, <<>>)
renderSelectWhere(p) == Clause(<<>>, IF p = NilList THEN <<>> ELSE <<[as |-> "predicate", x |-> p]>>, <<P("WHERE")>>, <<>>, <<>>)
renderSelectGroupBy(q) == Clause(<<>>, Of(q, "groups"), <<P("GROUP BY")>>, <<P(",")>>, <<>>)
renderSelectHaving(p) == Clause(<<>>, IF p = NilList THEN <<>> ELSE <<[as |-> "predicate", x |-> p]>>, <<P("HAVING")>>, <<>>, <<>>)
renderUnions(q) == Clause(<<>>, Of(q, "unions"), <<P("UNION")>>, <<P("UNION")>>, <<>>)

renderSelectQueryWithoutTail(q) ==
  <<renderSelectItems(q), renderSelectJoins(q), renderSelectWhere(query[q].where),
    renderSelectGroupBy(q), renderSelectHaving(query[q].having)>>
renderSelectTail(q) ==
  <<Clause(<<>>, Of(q, "orders"), <<P("ORDER BY")>>, <<P(",")>>, <<>>)>>
  \o (IF query[q].limit = 0 THEN <<>> ELSE <<Word("LIMIT")>>)

\* The tail of a query with unions follows the last of them.
renderSelectStatement(q) ==
  <<renderCTEs(q)>> \o renderSelectQueryWithoutTail(q) \o <<renderUnions(q)>> \o renderSelectTail(q)

\* INSERT ... SELECT renders the source without its CTEs and unions.
renderInsertSource(q) == renderSelectQueryWithoutTail(q) \o renderSelectTail(q)

SelectBuild(q) == IF Of(q, "items") = <<>> THEN FailRender(NewState) ELSE renderClauses(NewState, renderSelectStatement(q))

-----------------------------------------------------------------------------
(* Builders: each changes the query in place. *)

Fresh == Len(lists) + 1
NoQuery == [f \in ListFields |-> NilList] @@ [where |-> NilList, having |-> NilList, limit |-> 0]
NothingTold == [f \in ListFields |-> <<>>] @@ [where |-> NilList, having |-> NilList, limit |-> 0]

QueryInit ==
  /\ lists = << <<[as |-> "operand", x |-> Col]>> >>
  /\ query = [q \in {"q"} |-> [NoQuery EXCEPT !.items = 1]]
  /\ told = [q \in {"q"} |-> [NothingTold EXCEPT !.items = lists[1]]]
  /\ calls = 0

\* mergeList: a nil list becomes a copy of the new one, another is extended in place.
mergeList(q, f, e) ==
  /\ lists' = IF query[q][f] = NilList THEN Append(lists, <<e>>) ELSE [lists EXCEPT ![query[q][f]] = Append(@, e)]
  /\ query' = IF query[q][f] = NilList THEN [query EXCEPT ![q][f] = Fresh] ELSE query
  /\ told' = [told EXCEPT ![q][f] = Append(@, e)]

\* OrderBy, GroupBy, Join.On, With, Union, items
AddTo(q, f) ==
  \E shape \in PredicateShapes :
    LET p == Shape(shape, calls)
        e == CASE f = "joins" -> [as |-> "predicate", x |-> p]
               [] f \in {"ctes", "unions"} -> [as |-> "select", x |-> SubSelect(p)]
               [] OTHER -> [as |-> "operand", x |-> [op |-> "case", when |-> p, then |-> Val(<<calls, 8>>), else |-> Val(<<calls, 9>>)]]
    IN mergeList(q, f, e)

\* Where and Having replace the predicate, Limit the limit.
SetPredicate(q, f) ==
  /\ \E shape \in PredicateShapes :
       query' = [query EXCEPT ![q][f] = Shape(shape, calls)] /\ told' = [told EXCEPT ![q][f] = Shape(shape, calls)]
  /\ UNCHANGED lists
SetLimit(q) == query' = [query EXCEPT ![q].limit = 1] /\ told' = [told EXCEPT ![q].limit = 1] /\ UNCHANGED lists

\* Fault: the clone goes on using the order list of the original.
SharingOrders(orig) == [f \in {"orders"} |-> orig[f]] @@ [f \in ListFields \ {"orders"} |-> NilList]

\* Lists of the original a clone shares: none.
ClonedFields(orig) == [f \in ListFields |-> NilList]

Clone ==
  LET orig == query["q"]
      shared == ClonedFields(orig)
      copied == SetToSeq({ f \in ListFields : orig[f] # NilList /\ shared[f] = NilList })
      Id(f) == Len(lists) + CHOOSE i \in 1..Len(copied) : copied[i] = f
  IN /\ "c" \notin DOMAIN query
     /\ lists' = lists \o [i \in 1..Len(copied) |-> lists[orig[copied[i]]]]
     /\ query' = [q \in {"q", "c"} |-> IF q = "q" THEN orig
                    ELSE [f \in DOMAIN orig |-> IF f \in ListFields /\ orig[f] # NilList
                                                THEN (IF shared[f] # NilList THEN shared[f] ELSE Id(f)) ELSE orig[f]]]
     /\ told' = [q \in {"q", "c"} |-> told["q"]]

QueryNext ==
  /\ calls < MaxBuilderCalls /\ calls' = calls + 1
  /\ \/ \E q \in DOMAIN query : \/ \E f \in ListFields : AddTo(q, f)
                                \/ \E f \in {"where", "having"} : SetPredicate(q, f)
                                \/ SetLimit(q)
     \/ Clone

-----------------------------------------------------------------------------
(* Properties. *)

\* Values of an operand, predicate or list in the order a reader of the SQL meets them.
RECURSIVE ValuesOf(_)
ValuesOf(x) ==
  CASE x.op = "col" -> <<>>
    [] x.op = "value" -> <<x.v>>
    [] x.op = "list" -> x.vs
    [] x.op \in {"sub", "exists"} -> ValuesOf(x.query.where)
    [] x.op = "case" -> ValuesOf(x.when) \o ValuesOf(x.then) \o ValuesOf(x.else)
    [] x.op = "agg" -> ValuesOf(x.expr)
    [] x.op = "eq" -> ValuesOf(x.left) \o ValuesOf(x.right)
    [] x.op = "isNull" -> ValuesOf(x.left)
    [] x.op = "and" -> FlattenSeq([i \in 1..Len(x.kids) |-> ValuesOf(x.kids[i])])
    [] x.op = "not" -> ValuesOf(x.kid)
ValuesIn(list) == FlattenSeq([i \in 1..Len(list) |-> IF list[i].as = "select" THEN ValuesOf(list[i].x.where) ELSE ValuesOf(list[i].x)])
ValuesAt(p) == IF p = NilList THEN <<>> ELSE ValuesOf(p)

\* A query that builds has its binds numbered in the order they are written, and the
\* arguments are those the calls gave, in the order of the SQL clauses, not of the
\* calls: whatever nests, whatever was rendered on the side, and whatever was
\* called on the query's clone meanwhile.
QueryArgsInOrder ==
  \A q \in DOMAIN query :
    LET s == SelectBuild(q)
        w == told[q]
        expected == ValuesIn(w.ctes) \o ValuesIn(w.items) \o ValuesIn(w.joins) \o ValuesAt(w.where) \o ValuesIn(w.groups)
                    \o ValuesAt(w.having) \o ValuesIn(w.unions) \o ValuesIn(w.orders)
    IN ~s.err => /\ s.args = expected
                 /\ SelectSeq(s.buf, LAMBDA x : x.t = "bind") = [i \in 1..Len(s.args) |-> [t |-> "bind", n |-> i]]

\* Parentheses close in order.
Balanced(buf) ==
  LET Opened(i) == Cardinality({ k \in 1..i : buf[k].t = "(" }) - Cardinality({ k \in 1..i : buf[k].t = ")" })
  IN (\A i \in 1..Len(buf) : Opened(i) >= 0) /\ Opened(Len(buf)) = 0
QueriesBalanced == \A q \in DOMAIN query : ~SelectBuild(q).err => Balanced(SelectBuild(q).buf)

\* The source of an insert is the query it was given, if that has no CTE and no union.
InsertSourceComplete ==
  \A q \in DOMAIN query :
    Of(q, "ctes") = <<>> /\ Of(q, "unions") = <<>> =>
      renderClauses(NewState, renderInsertSource(q)) = renderClauses(NewState, renderSelectStatement(q))

QueriesExact == QueryArgsInOrder /\ QueriesBalanced /\ InsertSourceComplete

-----------------------------------------------------------------------------
(***************************************************************************)
(* dbx/querydsl, statements that change data: INSERT with rows, upsert and *)
(* RETURNING as far as the dialect has them, UPDATE and DELETE.  A row is  *)
(* a sequence of assignments [col, x]; rows may list columns in different  *)
(* orders, the statement lists them once.                                  *)
(***************************************************************************)

CONSTANTS MutColumns, MaxInsertRows

VARIABLES
  stmt,      \* the statement being built
  dialect    \* "postgres" (SQLite alike), "mysql", "other"

mutationVars == <<stmt, dialect>>

DefaultQueryFeatures ==
  CASE dialect = "postgres" -> [upsert |-> "on_conflict", excluded |-> "excluded", returning |-> TRUE, ignore |-> FALSE]
    [] dialect = "mysql" -> [upsert |-> "on_duplicate_key", excluded |-> "values", returning |-> FALSE, ignore |-> TRUE]
    [] OTHER -> [upsert |-> "", excluded |-> "", returning |-> FALSE, ignore |-> FALSE]

NoUpsert == [targets |-> <<>>, nothing |-> FALSE, assigns |-> <<>>, set |-> FALSE]
MutationInit ==
  /\ dialect \in {"postgres", "mysql", "other"}
  /\ stmt \in [kind : {"insert", "update", "delete"}, columns : {<<>>} \cup { <<c, d>> : c, d \in MutColumns },
               rows : {<<>>}, upsert : {NoUpsert}, where : BOOLEAN, returning : BOOLEAN]
  /\ stmt.kind # "insert" => stmt.columns = <<>>
  /\ \A i, j \in DOMAIN stmt.columns : stmt.columns[i] = stmt.columns[j] => i = j

-----------------------------------------------------------------------------
(* INSERT. *)

\* Values adds a row; nil assignments are left out before.
ValuesGrid ==
  /\ stmt.kind = "insert" /\ Len(stmt.rows) < MaxInsertRows
  /\ \E cols \in { s \in SeqOf(MutColumns, 2) : s # <<>> } :
       stmt' = [stmt EXCEPT !.rows = Append(@, [i \in 1..Len(cols) |-> [col |-> cols[i], x |-> <<Len(stmt.rows) + 1, i>>]])]
  /\ UNCHANGED dialect

\* Update's Set adds assignments.
SetAssignment ==
  /\ stmt.kind = "update" /\ Len(stmt.rows) < MaxInsertRows
  /\ \E c \in MutColumns : stmt' = [stmt EXCEPT !.rows = Append(@, <<[col |-> c, x |-> <<Len(stmt.rows) + 1, 1>>]>>)]
  /\ UNCHANGED dialect

\* OnConflict, then DoNothing or DoUpdateSet, which start from the targets alone.
OnConflict ==
  /\ stmt.kind = "insert" /\ stmt.upsert = NoUpsert
  /\ \E targets \in {<<>>} \cup { <<c>> : c \in MutColumns } :
       \/ stmt' = [stmt EXCEPT !.upsert = [NoUpsert EXCEPT !.set = TRUE, !.targets = targets, !.nothing = TRUE]]
       \/ \E n \in 0..1, c \in MutColumns :
            stmt' = [stmt EXCEPT !.upsert = [NoUpsert EXCEPT !.set = TRUE, !.targets = targets,
                       !.assigns = [i \in 1..n |-> [col |-> c, x |-> "excluded"]]]]
  /\ UNCHANGED dialect

MutationNext == ValuesGrid \/ SetAssignment \/ OnConflict

resolveInsertColumns ==
  IF stmt.columns # <<>> THEN stmt.columns ELSE [i \in 1..Len(stmt.rows[1]) |-> stmt.rows[1][i].col]

\* Fault: the values stay in the order in which the row lists them.
orderInsertRowAsGiven(columns, row) == [ok |-> Len(row) = Len(columns), row |-> [i \in 1..Len(row) |-> row[i].x]]

\* A row in the order of the columns: the last assignment to a column counts, one
\* to a column the statement does not list is left out, a missing one is an error.
orderInsertRow(columns, row) ==
  LET At(c) == { i \in DOMAIN row : row[i].col = c }
      Latest(c) == row[CHOOSE i \in At(c) : \A j \in At(c) : j <= i].x
  IN IF \E i \in DOMAIN columns : At(columns[i]) = {} THEN [ok |-> FALSE, row |-> <<>>]
     ELSE [ok |-> TRUE, row |-> [i \in 1..Len(columns) |-> Latest(columns[i])]]

\* What is wrong with the upsert for this dialect.
renderUpsert ==
  LET u == stmt.upsert IN
  IF ~u.set THEN TRUE
  ELSE CASE DefaultQueryFeatures.upsert = "on_conflict" -> u.nothing \/ (u.assigns # <<>> /\ u.targets # <<>>)
         [] DefaultQueryFeatures.upsert = "on_duplicate_key" -> u.nothing \/ u.assigns # <<>>
         [] OTHER -> FALSE
\* Dialects without RETURNING refuse it.
renderReturning == stmt.returning => DefaultQueryFeatures.returning
\* "Ignore" is a prefix of the statement where the dialect has no DO NOTHING.
insertStatementPrefix == IF DefaultQueryFeatures.ignore /\ stmt.upsert.nothing THEN "INSERT IGNORE INTO" ELSE "INSERT INTO"
OnConflictClause == stmt.upsert.set /\ ~(DefaultQueryFeatures.upsert = "on_duplicate_key" /\ stmt.upsert.nothing)

NoStatement == [ok |-> FALSE, columns |-> <<>>, rows |-> <<>>, args |-> <<>>]
InsertBuild ==
  LET columns == resolveInsertColumns
      ordered == [r \in 1..Len(stmt.rows) |-> orderInsertRow(columns, stmt.rows[r])]
      rows == [r \in 1..Len(stmt.rows) |-> ordered[r].row]
  IN IF stmt.rows = <<>> \/ ~renderUpsert \/ ~renderReturning THEN NoStatement
     ELSE IF \E r \in DOMAIN ordered : ~ordered[r].ok THEN NoStatement
     ELSE [ok |-> TRUE, columns |-> columns, rows |-> rows, args |-> FlattenSeq(rows)]

\* UPDATE needs an assignment, DELETE nothing; a nil predicate means every row.
WhereArgs == IF stmt.where THEN <<<<"where", 1>>>> ELSE <<>>
UpdateBuild ==
  IF stmt.rows = <<>> \/ ~renderReturning THEN NoStatement
  ELSE [NoStatement EXCEPT !.ok = TRUE, !.rows = stmt.rows,
                           !.args = [i \in 1..Len(stmt.rows) |-> stmt.rows[i][1].x] \o WhereArgs]
DeleteBuild == IF ~renderReturning THEN NoStatement ELSE [NoStatement EXCEPT !.ok = TRUE, !.args = WhereArgs]
StatementBuild == CASE stmt.kind = "insert" -> InsertBuild [] stmt.kind = "update" -> UpdateBuild [] OTHER -> DeleteBuild

-----------------------------------------------------------------------------
(* Properties. *)

\* Values of a row that were given for column c.
Given(r, c) == { stmt.rows[r][i].x : i \in { j \in DOMAIN stmt.rows[r] : stmt.rows[r][j].col = c } }

\* Every value of an insert that is built stands in the column it was given for, in
\* its own row, whatever order the rows list their columns in; and if every row gives
\* exactly the columns of the statement, each once, every value is there.
InsertValuesInColumns ==
  LET b == InsertBuild
      w == Len(b.columns)
      exact == \A r \in DOMAIN stmt.rows : \A c \in MutColumns : Cardinality(Given(r, c)) = (IF c \in ToSet(b.columns) THEN 1 ELSE 0)
  IN (stmt.kind = "insert" /\ b.ok) =>
       /\ Len(b.args) = w * Len(stmt.rows)
       /\ \A r \in DOMAIN stmt.rows, c \in 1..w : b.args[(r - 1) * w + c] \in Given(r, b.columns[c])
       /\ exact => { b.args[i] : i \in DOMAIN b.args } = UNION { Given(r, c) : r \in DOMAIN stmt.rows, c \in MutColumns }

\* A statement built for a dialect uses nothing the dialect lacks: an upsert that is
\* to do nothing says so once, as a prefix or as a clause; and an insert that leaves
\* existing rows alone does so in every dialect that builds it.
UpsertSaidOnce ==
  (stmt.kind = "insert" /\ StatementBuild.ok) =>
    /\ stmt.returning => dialect = "postgres"
    /\ stmt.upsert.set => (dialect # "other" /\ (OnConflictClause <=> insertStatementPrefix = "INSERT INTO"))

MutationsExact == InsertValuesInColumns /\ UpsertSaidOnce
=============================================================================
