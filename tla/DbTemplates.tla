--------------------------- MODULE DbTemplates -----------------------------
(***************************************************************************)
(* dbx/sqltmplx: SQL templates, from their text to a statement with its    *)
(* arguments.                                                              *)
(***************************************************************************)
EXTENDS Integers, FiniteSets, Sequences, SequencesExt

(***************************************************************************)
(* dbx/sqltmplx: SQL templates with comments as directives.  A template    *)
(* text is a sequence of lexemes; a run of text between directives becomes *)
(* a text node, the blocks nest, and rendering replaces each placeholder   *)
(* comment and the sample literal behind it by a bind variable.            *)
(* The engine keeps compiled templates in a bounded cache that goroutines  *)
(* look up, miss, and fill without a lock around the three.                *)
(***************************************************************************)

CONSTANTS
  TemplateTexts,   \* sequences of lexemes
  SharedTexts,     \* the texts among them that goroutines alternate between
  ParamValues,     \* values of the one parameter the placeholders name, or Missing
  Missing,
  TemplateUsers,   \* goroutines
  CacheSize        \* templateCacheSize

VARIABLES
  param,           \* the parameter object
  templateCache,   \* texts whose compiled template is cached, least recent first
  user             \* goroutine -> what it renders and how far it is

templateVars == <<param, templateCache, user>>

Directives == {"if", "ifRaw", "where", "set", "end"}
NoError == "none"
Piece(kind) == [kind |-> kind, n |-> 0]

-----------------------------------------------------------------------------
(* Compiling: runs of text and directives become a tree. *)

\* Text between directives is one token, comments that are no directives included.
ScanList(text) ==
  LET Put(tokens, x) ==
        IF x \in Directives THEN Append(tokens, <<x>>)
        ELSE IF tokens # <<>> /\ Head(Last(tokens)) \notin Directives
             THEN Append(Front(tokens), Append(Last(tokens), x))
             ELSE Append(tokens, <<x>>)
  IN FoldLeft(Put, <<>>, text)

Frame(kind) == [kind |-> kind, out |-> <<>>]
AppendNode(stack, node) == [stack EXCEPT ![Len(stack)].out = Append(@, node)]

\* Fault: an end directive that closes nothing is passed over.
popFrameQuiet(s) ==
  IF Len(s.stack) = 1 THEN s
  ELSE [s EXCEPT !.stack = AppendNode(Front(s.stack), [kind |-> Last(s.stack).kind, text |-> <<>>, body |-> Last(s.stack).out])]

\* An end closes the innermost block; without one it is an error, and so is a
\* block that is open at the end.
popFrame(s) ==
  IF Len(s.stack) = 1 THEN [s EXCEPT !.err = "unexpectedEnd"]
  ELSE LET top == Last(s.stack) IN
       [s EXCEPT !.stack = AppendNode(Front(s.stack), [kind |-> top.kind, text |-> <<>>, body |-> top.out])]

consumeToken(s, token) ==
  IF s.err # NoError THEN s
  ELSE IF Head(token) \notin Directives
       THEN [s EXCEPT !.stack = AppendNode(s.stack, [kind |-> "text", text |-> token, body |-> <<>>])]
  ELSE IF Head(token) = "end" THEN popFrame(s)
  ELSE [s EXCEPT !.stack = Append(s.stack, Frame(Head(token)))]

BuildList(tokens) ==
  LET s == FoldLeft(consumeToken, [stack |-> <<Frame("root")>>, err |-> NoError], tokens)
  IN IF s.err # NoError THEN [nodes |-> <<>>, err |-> s.err]
     ELSE IF Len(s.stack) # 1 THEN [nodes |-> <<>>, err |-> "unclosedBlock"]
     ELSE [nodes |-> s.stack[1].out, err |-> NoError]

compileTemplate(text) == BuildList(ScanList(text))

-----------------------------------------------------------------------------
(* Rendering. *)

\* The state of one rendering: pieces of the query, arguments, binds handed out.
newState == [out |-> <<>>, args |-> <<>>, bindN |-> 0, err |-> NoError]
Fails(st, e) == [st EXCEPT !.err = e]

\* A parameter for a list sample must be a list with members, each is bound.
bindSpreadParam(st, value) ==
  IF value.kind # "list" THEN Fails(st, "spreadParamType")
  ELSE IF value.items = <<>> THEN Fails(st, "spreadParamEmpty")
  ELSE [st EXCEPT !.bindN = @ + Len(value.items), !.args = @ \o value.items,
                  !.out = @ \o [i \in 1..Len(value.items) |-> [kind |-> "bind", n |-> st.bindN + i]]]

bindParam(st, spread) ==
  IF param = Missing THEN Fails(st, "parameterNotFound")
  ELSE IF spread THEN bindSpreadParam(st, param)
  ELSE [st EXCEPT !.bindN = @ + 1, !.args = Append(@, param),
                  !.out = Append(@, [kind |-> "bind", n |-> st.bindN + 1])]

\* Where the sample literal behind a placeholder ends: a parenthesised list, a
\* literal, or an identifier with the parentheses behind it, then casts.
skipExprSuffixes(run, i) ==
  CHOOSE j \in i..Len(run) + 1 :
    (\A k \in i..j - 1 : run[k] = "cast") /\ (j <= Len(run) => run[j] # "cast")
skipPlaceholderSample(run, i) ==
  IF run[i] = "and"
  THEN skipExprSuffixes(run, CHOOSE j \in i + 1..Len(run) + 1 :
         (\A k \in i + 1..j - 1 : run[k] = "list") /\ (j <= Len(run) => run[j] # "list"))
  ELSE skipExprSuffixes(run, i + 1)

\* One placeholder comment: it needs a sample behind it in the same text.
bindCommentPlaceholder(run, i, st) ==
  IF i = Len(run) THEN [st |-> Fails(st, "missingTestLiteral"), next |-> i + 1]
  ELSE LET bound == bindParam(st, run[i + 1] = "list") IN
       IF bound.err = NoError /\ run[i + 1] = "comma"
       THEN [st |-> Fails(st, "emptyScalarLiteral"), next |-> i + 1]
       ELSE [st |-> bound, next |-> IF bound.err = NoError THEN skipPlaceholderSample(run, i + 1) ELSE i + 1]

RECURSIVE bindText(_, _, _)
bindText(run, i, st) ==
  IF i > Len(run) \/ st.err # NoError THEN st
  ELSE IF run[i] = "param"
       THEN LET b == bindCommentPlaceholder(run, i, st) IN bindText(run, b.next, b.st)
       ELSE bindText(run, i + 1, [st EXCEPT !.out = Append(@, Piece(run[i]))])

\* The expressions: present(p), or p itself, which is no boolean. blank compares
\* the value, boxed in an interface, with nil: an empty string or list is present.
isPresent(value) == value # Missing
evalIf(kind, st) == IF kind = "ifRaw" THEN "notBool" ELSE IF isPresent(param) THEN "yes" ELSE "no"

cleanupWhere(pieces) ==
  LET rest == IF pieces # <<>> /\ Head(pieces).kind = "and" THEN Tail(pieces) ELSE pieces
  IN IF rest = <<>> THEN <<>> ELSE <<Piece("WHERE")>> \o rest
cleanupSet(pieces) ==
  LET rest == IF pieces # <<>> /\ Last(pieces).kind = "comma" THEN Front(pieces) ELSE pieces
  IN IF rest = <<>> THEN <<>> ELSE <<Piece("SET")>> \o rest

RECURSIVE renderNodes(_, _)
renderNode(node, st) ==
  IF node.kind = "text" THEN bindText(node.text, 1, st)
  ELSE IF node.kind \in {"if", "ifRaw"}
  THEN LET holds == evalIf(node.kind, st) IN
       IF holds = "notBool" THEN Fails(st, "ifExpressionNotBool")
       ELSE IF holds = "yes" THEN renderNodes(node.body, st) ELSE st
  ELSE LET inner == renderNodes(node.body, [st EXCEPT !.out = <<>>])
           cleaned == IF node.kind = "where" THEN cleanupWhere(inner.out) ELSE cleanupSet(inner.out)
       IN [inner EXCEPT !.out = st.out \o cleaned]
renderNodes(nodes, st) ==
  FoldLeft(LAMBDA s, node : IF s.err # NoError THEN s ELSE renderNode(node, s), st, nodes)

Render(template) == renderNodes(template.nodes, newState)

-----------------------------------------------------------------------------
(* The engine's cache. *)

TemplateInit ==
  /\ param \in ParamValues \cup {Missing} /\ templateCache = <<>>
  /\ \E t \in TemplateTexts : user = [u \in TemplateUsers |-> [pc |-> "call", text |-> t, template |-> compileTemplate(<<>>)]]

Cached(text) == text \in ToSet(templateCache)
CacheSet(text) ==
  LET others == SelectSeq(templateCache, LAMBDA t : t # text)
  IN Append(IF Len(others) >= CacheSize THEN Tail(others) ELSE others, text)

\* Compile: a hit returns what is there (Peek does not refresh its place).
CompileNamed(u) ==
  /\ user[u].pc = "call"
  /\ user' = [user EXCEPT ![u].pc = IF Cached(user[u].text) THEN "render" ELSE "compile",
                          ![u].template = IF Cached(user[u].text) THEN compileTemplate(user[u].text) ELSE @]
  /\ UNCHANGED <<param, templateCache>>

\* A miss compiles, looks again and stores; a text that does not compile is not stored.
CompileMiss(u) ==
  /\ user[u].pc = "compile"
  /\ LET t == compileTemplate(user[u].text) IN
     /\ user' = [user EXCEPT ![u].pc = IF t.err = NoError THEN "render" ELSE "failed", ![u].template = t]
     /\ templateCache' = IF t.err # NoError \/ CacheSize = 0 \/ Cached(user[u].text) THEN templateCache
                         ELSE CacheSet(user[u].text)
  /\ UNCHANGED param

\* Render, then validate with the dialect's parser if there is one.
TemplateRender(u) ==
  /\ user[u].pc = "render"
  /\ user' = [user EXCEPT ![u].pc = IF Render(user[u].template).err = NoError THEN "done" ELSE "failed"]
  /\ UNCHANGED <<param, templateCache>>

\* The caller renders its next template.
RenderAnother(u) ==
  /\ user[u].pc \in {"done", "failed"} /\ user[u].text \in SharedTexts
  /\ \E t \in SharedTexts : user' = [user EXCEPT ![u].pc = "call", ![u].text = t]
  /\ UNCHANGED <<param, templateCache>>

TemplateNext == \E u \in TemplateUsers : CompileNamed(u) \/ CompileMiss(u) \/ TemplateRender(u) \/ RenderAnother(u)

-----------------------------------------------------------------------------
(* Properties. *)

Depth(text, i) ==
  Cardinality({ k \in 1..i : text[k] \in Directives \ {"end"} })
    - Cardinality({ k \in 1..i : text[k] = "end" })

\* A template compiles exactly when its blocks are balanced.
BalancedIffCompiles ==
  \A u \in TemplateUsers :
    LET t == user[u].text IN
    (compileTemplate(t).err = NoError) <=> (\A i \in 1..Len(t) : Depth(t, i) >= 0) /\ Depth(t, Len(t)) = 0

\* The template a goroutine renders is the one its own text compiles to, whatever
\* others put in or pushed out of the cache; the cache keeps to its size and holds
\* nothing twice and nothing that does not compile.
OwnTemplate ==
  /\ \A u \in TemplateUsers : user[u].pc \in {"render", "done"} => user[u].template = compileTemplate(user[u].text)
  /\ Len(templateCache) <= CacheSize /\ IsInjective(templateCache)
  /\ \A t \in ToSet(templateCache) : compileTemplate(t).err = NoError

\* Bind variables number the arguments in order: the database matches them by position.
BindsMatchArgs ==
  \A u \in TemplateUsers :
    LET r == Render(user[u].template)
        binds == SelectSeq(r.out, LAMBDA x : x.kind = "bind")
    IN user[u].pc = "done" =>
         r.bindN = Len(r.args) /\ binds = [i \in 1..Len(r.args) |-> [kind |-> "bind", n |-> i]]

\* A text every block of which lists its operands as a template should: in a where
\* "and x" each, in a set "x ," each, a condition around a whole one or several.
Unit(kind, text, i) ==
  IF kind = "where" THEN i < Len(text) /\ text[i] = "and" /\ text[i + 1] = "word"
  ELSE i < Len(text) /\ text[i] = "word" /\ text[i + 1] = "comma"
WellWritten(kind, body) ==
  \A i \in 1..Len(body) :
    body[i] \in {"if", "end"} \/ Unit(kind, body, i) \/ (i > 1 /\ Unit(kind, body, i - 1))
\* What a condition that holds contributes: everything but the directives.
Operands(body) == Cardinality({ i \in 1..Len(body) : body[i] = "word" /\ (isPresent(param) \/ Depth(body, i) = 0) })

\* A where or set block around such a body renders as its operands with the
\* connective between them, none before the first or after the last; with no
\* operand left the keyword goes as well.
BlocksWellFormed ==
  \A u \in TemplateUsers :
    LET t == user[u].text
        body == SubSeq(t, 2, Len(t) - 1)
        n == Operands(body)
        glue == IF t[1] = "where" THEN "and" ELSE "comma"
        kinds == [i \in 1..Len(Render(user[u].template).out) |-> Render(user[u].template).out[i].kind]
    IN (/\ user[u].pc = "done" /\ Len(t) > 1 /\ t[1] \in {"where", "set"} /\ Last(t) = "end"
        /\ \A i \in 1..Len(body) : Depth(body, i) >= 0
        /\ WellWritten(t[1], body)) =>
         kinds = IF n = 0 THEN <<>>
                 ELSE <<IF t[1] = "where" THEN "WHERE" ELSE "SET">>
                      \o [i \in 1..2 * n - 1 |-> IF i % 2 = 1 THEN "word" ELSE glue]

TemplatesExact == BalancedIffCompiles /\ OwnTemplate /\ BindsMatchArgs /\ BlocksWellFormed

-----------------------------------------------------------------------------
(***************************************************************************)
(* dbx/sqltmplx/render: how a template finds its parameters.  Conditions   *)
(* are evaluated in an environment built once, placeholders look a name up *)
(* in the object itself; both see a struct under its field names and tags  *)
(* and under parameters laid over it (WithParam, WithPage).  A name is     *)
(* [word, upper]: two spellings of a word differ in case only.             *)
(***************************************************************************)

CONSTANTS ParamWords, MaxOverlays

VARIABLES
  fields,      \* exported fields of the parameter struct: [name, alias], alias may be NoAlias
  overlays     \* names of the parameters laid over it, innermost first

paramsVars == <<fields, overlays>>

ParamNames == [word : ParamWords, upper : BOOLEAN]
NoAlias == [word |-> "", upper |-> FALSE]
ToLower(n) == [n EXCEPT !.upper = FALSE]

Fields == [name : { n \in ParamNames : n.upper }, alias : ParamNames \cup {NoAlias}]
ParamsInit ==
  /\ fields \in UNION { [1..k -> Fields] : k \in 0..2 } /\ overlays = <<>>
  /\ \A i, j \in DOMAIN fields : fields[i].name = fields[j].name => i = j

\* The value of field i, and of the overlay in layer i.
FieldValue(i) == <<"field", i>>
OverlayValue(i) == <<"overlay", i>>
NotFound == <<"none", 0>>

\* buildStructMetadata enters the spellings of field after field, so a later field
\* takes over the spellings it shares with an earlier one.
lookupKeys(f) == {f.name, ToLower(f.name)} \cup (IF f.alias = NoAlias THEN {} ELSE {f.alias, ToLower(f.alias)})
fieldEnvKeys(f) == {f.name, ToLower(f.name)} \cup (IF f.alias = NoAlias THEN {} ELSE {f.alias})

LastWith(S) == IF S = {} THEN NotFound ELSE FieldValue(CHOOSE i \in S : \A j \in S : j <= i)
buildStructMetadata(n) == LastWith({ i \in DOMAIN fields : n \in lookupKeys(fields[i]) })

\* A name is tried as written, then folded.
lookupStructField(n) ==
  IF buildStructMetadata(n) # NotFound THEN buildStructMetadata(n) ELSE buildStructMetadata(ToLower(n))
structEnv(n) == LastWith({ i \in DOMAIN fields : n \in fieldEnvKeys(fields[i]) })

\* Fault: an overlay is looked up under the name as it was given.
LookupAsGiven(n) ==
  LET hits == { i \in DOMAIN overlays : overlays[i] = n }
  IN IF hits = {} THEN lookupStructField(n) ELSE OverlayValue(CHOOSE i \in hits : \A j \in hits : j <= i)

\* paramOverlay: the outermost layer that has the folded name answers.
LookupSQLTemplateParam(n) ==
  LET hits == { i \in DOMAIN overlays : ToLower(overlays[i]) = ToLower(n) }
  IN IF hits = {} THEN lookupStructField(n) ELSE OverlayValue(CHOOSE i \in hits : \A j \in hits : j <= i)

\* Its environment has the parameter under its folded name and the name as given.
SQLTemplateParamEnv(n) ==
  LET hits == { i \in DOMAIN overlays : n \in {overlays[i], ToLower(overlays[i])} }
  IN IF hits = {} THEN structEnv(n) ELSE OverlayValue(CHOOSE i \in hits : \A j \in hits : j <= i)

WithParam(n) == Len(overlays) < MaxOverlays /\ overlays' = Append(overlays, n) /\ UNCHANGED fields
ParamsNext == \E n \in ParamNames : WithParam(n)

-----------------------------------------------------------------------------
\* Spellings the program uses for a word; with several it depends on the spelling
\* which of them a name means.
Spellings(w) ==
  { n \in ParamNames : n.word = w /\ (n \in ToSet(overlays) \/ \E i \in DOMAIN fields : n \in {fields[i].name, fields[i].alias}) }
OneField(w) == Cardinality({ i \in DOMAIN fields : w \in {fields[i].name.word, fields[i].alias.word} }) <= 1

\* What a condition sees under a name is what a placeholder binds under it, unless
\* the program spells it in two ways or gives it to two fields: a block guarded by
\* present(x) never fails for want of x, and binds the x that was tested.
ConditionsSeeWhatBinds ==
  \A n \in ParamNames :
    Cardinality(Spellings(n.word)) = 1 /\ OneField(n.word) /\ SQLTemplateParamEnv(n) # NotFound =>
      LookupSQLTemplateParam(n) = SQLTemplateParamEnv(n)
=============================================================================
