----------------------------- MODULE HttpRoutes -----------------------------
(***************************************************************************)
(* httpx: the Server's route tables, the matcher for paths with            *)
(* parameters, and the freezing of the configuration by Listen.            *)
(*                                                                         *)
(* Registrations hold openAPIMu from the check to the last table, readers  *)
(* and the checks of the other configuration calls do not take it.  All    *)
(* routes have one method, since every method has a matcher of its own.    *)
(***************************************************************************)
EXTENDS Integers, Sequences, FiniteSets, SequencesExt

CONSTANTS
  Segments,   \* segments of paths
  Paths,      \* paths that are registered: sequences of segments, parameters named by Params
  Params,     \* segments in braces
  Queries,    \* paths of requests
  Definers,   \* goroutines that register routes
  MaxRoutes   \* bound: registrations, and changes of the document

\* "*" is the edge of the trie that stands for parameters, "none" is no definer.
ASSUME RoutesAssumption ==
  /\ Paths \subseteq Seq(Segments) /\ Queries \subseteq Seq(Segments)
  /\ "*" \notin Segments /\ "none" \notin Definers /\ MaxRoutes \in Nat

VARIABLES
  routeExact,  \* Server.routeExact: the paths in it
  nodes,       \* the matcher's trie: minSeq and routes of the node a path leads to
  routes,      \* Server.routes
  sequence,    \* Server.routeSequence
  frozen,      \* Server.frozen
  mu,          \* who holds openAPIMu: a definer, or "none"
  adding,      \* what each definer does, and with which path
  configuring, \* whether a ConfigureOpenAPI has passed its check and is not done
  document,    \* how often the OpenAPI document was changed
  fixed        \* routes and document at the freeze; whether a ConfigureOpenAPI was under way

tableVars == <<routeExact, nodes, routes, sequence>>
routeVars == <<tableVars, frozen, mu, adding, configuring, document, fixed>>

NoFix == [routes |-> <<>>, document |-> 0, raced |-> TRUE]

RoutesInit ==
  /\ routeExact = {} /\ nodes = << >> /\ routes = <<>> /\ sequence = 0
  /\ frozen = FALSE /\ mu = "none" /\ adding = [d \in Definers |-> [at |-> "idle", path |-> <<>>]]
  /\ configuring = FALSE /\ document = 0 /\ fixed = NoFix

-----------------------------------------------------------------------------
(* routeMatcher.  A node is the path of its edges, parameters being one edge. *)

Param == "*"
Edge(s) == IF s \in Params THEN Param ELSE s
NodeOf(p) == [i \in DOMAIN p |-> Edge(p[i])]
isParameterizedRoute(p) == \E i \in DOMAIN p : p[i] \in Params

\* Fault: a node keeps the sequence number of the last route below it.
recordLastSeq(n, seq) == seq

\* recordMinSeq: the least sequence number of the routes at and below a node.
recordMinSeq(n, seq) == IF n \in DOMAIN nodes THEN nodes[n].minSeq ELSE seq

\* Add, under the matcher's lock: the nodes on the way are made and numbered.
AddToMatcher(p, seq) ==
  LET end == NodeOf(p)
      way == {SubSeq(end, 1, k) : k \in 0..Len(end)}
      Old(n) == IF n \in DOMAIN nodes THEN nodes[n].routes ELSE <<>>
  IN nodes' = [n \in DOMAIN nodes \cup way |->
       IF n \in way
         THEN [minSeq |-> recordMinSeq(n, seq),
               routes |-> IF n = end THEN Append(Old(n), [seq |-> seq, path |-> p]) ELSE Old(n)]
         ELSE nodes[n]]

NoMatch == [seq |-> 0, path |-> <<"none">>]

\* orderedRouteChildren: the child with the older route first.
orderedRouteChildren(a, b) ==
  IF a \notin DOMAIN nodes THEN <<b, a>>
  ELSE IF b \notin DOMAIN nodes \/ nodes[a].minSeq <= nodes[b].minSeq THEN <<a, b>> ELSE <<b, a>>

\* match at a depth, given what the nodes one deeper lead to: the second child is tried
\* unless all of it is younger than what the first one found.
matchLevel(q, k, below) ==
  [n \in {m \in DOMAIN nodes : Len(m) = Len(q) - k} |->
    IF k = 0 THEN (IF nodes[n].routes = <<>> THEN NoMatch ELSE Head(nodes[n].routes))
    ELSE LET pair == orderedRouteChildren(Append(n, q[Len(n) + 1]), Append(n, Param))
             Try(m) == IF m \in DOMAIN below THEN below[m] ELSE NoMatch
             first == Try(pair[1])
             second == Try(pair[2])
         IN IF first = NoMatch THEN second
            ELSE IF pair[2] \in DOMAIN nodes /\ nodes[pair[2]].minSeq < first.seq
                    /\ second # NoMatch /\ second.seq < first.seq THEN second
            ELSE first]

\* Match: from the ends of the paths of that length to the root.
Match(q) ==
  LET Deep[k \in 0..Len(q)] == matchLevel(q, k, IF k = 0 THEN << >> ELSE Deep[k - 1])
  IN IF nodes = << >> THEN NoMatch ELSE Deep[Len(q)][<<>>]

\* matchRoute: the exact table, then the matcher.
matchRoute(q) == IF q \in routeExact THEN q ELSE Match(q).path

-----------------------------------------------------------------------------
(* registerTyped and registerSSE. *)

validateRouteRegistration(p) == ~frozen /\ p \notin routeExact

\* The lock is taken and the registration checked; an error releases it again.
BeginRoute(d, p) ==
  /\ adding[d].at = "idle" /\ mu = "none" /\ Len(routes) < MaxRoutes
  /\ validateRouteRegistration(p)
  /\ mu' = d /\ adding' = [adding EXCEPT ![d] = [at |-> "checked", path |-> p]]
  /\ UNCHANGED <<tableVars, frozen, configuring, document, fixed>>

\* addRoute, table after table.
addRouteExact(d) ==
  /\ adding[d].at = "checked"
  /\ routeExact' = routeExact \cup {adding[d].path} /\ document' = document + 1
  /\ adding' = [adding EXCEPT ![d].at = "exact"]
  /\ UNCHANGED <<nodes, routes, sequence, frozen, mu, configuring, fixed>>

\* Only routes with parameters are numbered and go into the matcher.
addRouteMatcher(d) ==
  /\ adding[d].at = "exact"
  /\ IF isParameterizedRoute(adding[d].path)
       THEN sequence' = sequence + 1 /\ AddToMatcher(adding[d].path, sequence + 1)
       ELSE UNCHANGED <<sequence, nodes>>
  /\ adding' = [adding EXCEPT ![d].at = "matcher"]
  /\ UNCHANGED <<routeExact, routes, frozen, mu, configuring, document, fixed>>

\* routesByMethod and routes; the deferred Unlock.
addRoute(d) ==
  /\ adding[d].at = "matcher"
  /\ routes' = Append(routes, adding[d].path)
  /\ adding' = [adding EXCEPT ![d] = [at |-> "idle", path |-> <<>>]] /\ mu' = "none"
  /\ UNCHANGED <<routeExact, nodes, sequence, frozen, configuring, document, fixed>>

\* huma.Register panics: the deferred Unlock runs, and no table knows the route.
RegisterPanics(d) ==
  /\ adding[d].at = "checked"
  /\ adding' = [adding EXCEPT ![d] = [at |-> "idle", path |-> <<>>]] /\ mu' = "none"
  /\ UNCHANGED <<tableVars, frozen, configuring, document, fixed>>

-----------------------------------------------------------------------------
\* Fault: Listen freezes without the lock.
freezeUnlocked ==
  /\ ~frozen
  /\ frozen' = TRUE /\ fixed' = [routes |-> routes, document |-> document, raced |-> configuring]
  /\ UNCHANGED <<tableVars, mu, adding, configuring, document>>

\* freezeConfiguration, called by Listen and ListenAndServeContext.
freezeConfiguration ==
  /\ ~frozen /\ mu = "none"
  /\ frozen' = TRUE /\ fixed' = [routes |-> routes, document |-> document, raced |-> configuring]
  /\ UNCHANGED <<tableVars, mu, adding, configuring, document>>

\* ConfigureOpenAPI and what calls it: allowConfigMutation reads frozen, the document is
\* changed later, under the lock.
allowConfigMutation ==
  /\ ~configuring /\ ~frozen /\ document < MaxRoutes + 1
  /\ configuring' = TRUE
  /\ UNCHANGED <<tableVars, frozen, mu, adding, document, fixed>>

ConfigureOpenAPI ==
  /\ configuring /\ mu = "none"
  /\ document' = document + 1 /\ configuring' = FALSE
  /\ UNCHANGED <<tableVars, frozen, mu, adding, fixed>>

RoutesNext ==
  \/ freezeConfiguration \/ allowConfigMutation \/ ConfigureOpenAPI
  \/ \E d \in Definers :
       \/ \E p \in Paths : BeginRoute(d, p)
       \/ addRouteExact(d) \/ addRouteMatcher(d) \/ addRoute(d) \/ RegisterPanics(d)

-----------------------------------------------------------------------------
(* Properties. *)

Fits(p, q) == Len(p) = Len(q) /\ \A i \in DOMAIN q : p[i] = q[i] \/ p[i] \in Params
Position(p) == CHOOSE i \in DOMAIN routes : routes[i] = p

\* MatchRoute finds the route that was registered with exactly this path, or else the
\* first registered one with parameters that fits, whatever the order of registrations
\* has made of the trie; and nothing if none fits.
MatchesFirst ==
  mu = "none" => \A q \in Queries :
    LET fitting == {p \in Range(routes) : Fits(p, q)}
        m == matchRoute(q)
    IN IF fitting = {} THEN m = NoMatch.path
       ELSE m \in fitting /\ (m # q => \A p \in fitting : p # q /\ Position(m) <= Position(p))

\* Between registrations the tables hold the same routes, each once.
TablesAgree == mu = "none" => routeExact = Range(routes) /\ IsInjective(routes)

\* Once Listen has frozen the configuration no route is added, and the document changes
\* no more, except by a call that had passed its check before.
FrozenStays ==
  frozen => /\ routes = fixed.routes
            /\ document # fixed.document => fixed.raced /\ document = fixed.document + 1

\* The route a request is given, and what Routes and the document say about it.
RoutesExact == MatchesFirst /\ TablesAgree /\ FrozenStays

-----------------------------------------------------------------------------
(***************************************************************************)
(* httpx: what runs for a request of a typed route: the policies of the    *)
(* route around the validation, the panic recovery and the handler.        *)
(*                                                                         *)
(* A resource is its version, which a handler of a PUT increments.  A      *)
(* result is an output with its Content-Type, or an error: an httpx.Error  *)
(* or a huma.StatusError with a code, or one of unknown type, which may    *)
(* wrap context.DeadlineExceeded.                                          *)
(***************************************************************************)

CONSTANTS
  Visits,      \* requests
  MaxPolicies  \* bound: policies of a route

ASSUME HandlerAssumption == MaxPolicies \in Nat

\* The policies with a Wrap; "header" sets a default Content-Type, "user" is one of the
\* application.
Policies == {"timeout", "conditional", "header", "user"}

VARIABLES
  route,     \* the route's method and policies, and Server.panicRecover
  resource,  \* version of the resource
  visit      \* the requests

handlerVars == <<route, resource, visit>>

Page(type)    == [out |-> TRUE, type |-> type, err |-> "nil", code |-> 0]
Err(e, code)  == [out |-> FALSE, type |-> "unset", err |-> e, code |-> code]
NoResult      == [out |-> FALSE, type |-> "unset", err |-> "nil", code |-> 0]
Unknown       == {Err("plain", 0), Err("deadline", 0)}
UserErrors    == Unknown \cup {Err("httpx", 404), Err("status", 404)}

NoVisit ==
  [at |-> "down", depth |-> 0, names |-> 0, expired |-> {}, result |-> NoResult,
   wrote |-> 0, raced |-> FALSE, checked |-> FALSE, status |-> 0]

\* A request with or without a condition, which names a version: If-None-Match for a
\* GET, If-Match for a PUT.
HandlerInit ==
  /\ route \in [method : {"GET", "PUT"}, recover : BOOLEAN,
                policies : UNION {[1..n -> Policies] : n \in 0..MaxPolicies}]
  /\ resource = 1
  /\ visit \in [Visits -> {[NoVisit EXCEPT !.names = n] : n \in {0, 1}}]

PolicyAt(d) == route.policies[d]
Now(v, f) == visit' = [visit EXCEPT ![v] = f] /\ UNCHANGED route
\* A policy or the handler at a depth returns to the one around it.
Returns(v, d, res) == Now(v, [visit[v] EXCEPT !.at = "up", !.depth = d, !.result = res]) /\ UNCHANGED resource
\* A panic that nobody in httpx recovers: the connection is dropped.
Unwinds(v) == Now(v, [visit[v] EXCEPT !.at = "dropped"]) /\ UNCHANGED resource
Descend(v, f) == Now(v, [f EXCEPT !.depth = @ + 1]) /\ UNCHANGED resource

-----------------------------------------------------------------------------
(* Down through the policies, the first one being the outermost. *)

\* Fault: If-Match is taken for If-None-Match.
PreconditionEqual(v) == resource = visit[v].names

\* huma's ConditionalParams.PreconditionFailed.
PreconditionFailed(v) ==
  IF route.method = "GET" THEN resource = visit[v].names ELSE resource # visit[v].names

\* conditionalRequestHandler: the state is read and compared, and read again by whoever
\* handles the request.
Conditional(v) ==
  IF visit[v].names = 0 THEN Descend(v, visit[v])
  ELSE \/ \E e \in UserErrors : Returns(v, visit[v].depth, e)
       \/ IF PreconditionFailed(v)
            THEN Returns(v, visit[v].depth, Err("status", IF route.method = "GET" THEN 304 ELSE 412))
            ELSE Descend(v, [visit[v] EXCEPT !.checked = TRUE, !.raced = FALSE])

UserPolicy(v) ==
  \/ Descend(v, visit[v]) \/ Unwinds(v)
  \/ \E e \in UserErrors : Returns(v, visit[v].depth, e)

\* applyWrappers: every Wrap that is not nil.
EnterPolicy(v) ==
  /\ visit[v].at = "down" /\ visit[v].depth < Len(route.policies)
  /\ CASE PolicyAt(visit[v].depth + 1) = "conditional" -> Conditional(v)
       [] PolicyAt(visit[v].depth + 1) = "user"        -> UserPolicy(v)
       [] OTHER                                     -> Descend(v, visit[v])

\* The deadline of a timeout policy passes while its next runs.
Expire(v) ==
  /\ visit[v].at \in {"down", "up"}
  /\ \E d \in 1..visit[v].depth :
       PolicyAt(d) = "timeout" /\ d \notin visit[v].expired
       /\ Now(v, [visit[v] EXCEPT !.expired = @ \cup {d}])
  /\ UNCHANGED resource

-----------------------------------------------------------------------------
(* withInputValidation. *)

validateTypedInput(v) ==
  /\ visit[v].at = "down" /\ visit[v].depth = Len(route.policies)
  /\ Now(v, [visit[v] EXCEPT !.at = "up", !.result = Err("status", 400)])
  /\ UNCHANGED resource

\* convertTypedHandlerError: what is not known becomes a 500, a deadline too.
convertTypedHandlerError(e) == IF e.err \in {"httpx", "status"} THEN Err("status", e.code) ELSE Err("status", 500)

\* The handler ends, after it has written or before.
Handle(v, wrote, then) ==
  /\ visit[v].at = "down" /\ visit[v].depth = Len(route.policies)
  /\ wrote => route.method = "PUT"
  /\ resource' = IF wrote THEN resource + 1 ELSE resource
  /\ visit' = [u \in Visits |->
       IF u = v THEN [then EXCEPT !.wrote = IF wrote THEN resource ELSE 0]
       ELSE [visit[u] EXCEPT !.raced = @ \/ wrote]]
  /\ UNCHANGED route

\* Fault: a panic is passed on whatever the server was told.
recoverNever(v) == [visit[v] EXCEPT !.at = "dropped"]

\* The deferred recover around validation and handler.
recoverTypedHandlerPanic(v) ==
  IF route.recover THEN [visit[v] EXCEPT !.at = "up", !.result = Err("status", 500)]
  ELSE [visit[v] EXCEPT !.at = "dropped"]

invokeTypedHandler(v) ==
  \/ \E type \in {"unset", "own"} :
       Handle(v, route.method = "PUT", [visit[v] EXCEPT !.at = "up", !.result = Page(type)])
  \/ \E wrote \in BOOLEAN :
       \/ \E e \in UserErrors : Handle(v, wrote, [visit[v] EXCEPT !.at = "up", !.result = convertTypedHandlerError(e)])
       \/ Handle(v, wrote, recoverTypedHandlerPanic(v))

-----------------------------------------------------------------------------
(* Up again. *)

\* A context ends with the ones around it.
Expired(v, d) == \E e \in visit[v].expired : e <= d

\* Fault: an answer that came is given, late or not.
afterTimeoutLate(v, d, res) == IF res.err = "deadline" THEN Err("status", 504) ELSE res

\* PolicyTimeout, after next has returned.
afterTimeout(v, d, res) == IF res.err = "deadline" \/ Expired(v, d) THEN Err("status", 504) ELSE res

\* setHeaderField of PolicyImageResponse and PolicyHTMLResponse.
setHeaderField(res) == IF res.out /\ res.type = "unset" THEN [res EXCEPT !.type = "default"] ELSE res

LeavePolicy(v) ==
  /\ visit[v].at = "up" /\ visit[v].depth > 0
  /\ LET d == visit[v].depth
         res == visit[v].result
     IN Returns(v, d - 1, CASE PolicyAt(d) = "timeout" -> afterTimeout(v, d, res)
                           [] PolicyAt(d) = "header"  -> setHeaderField(res)
                           [] OTHER                -> res)

\* huma answers: a StatusError with its code, any other error with 500.
HumaAnswers(v) ==
  /\ visit[v].at = "up" /\ visit[v].depth = 0
  /\ Now(v, [visit[v] EXCEPT !.at = "answered",
        !.status = CASE visit[v].result.err = "nil"    -> 200
                     [] visit[v].result.err = "status" -> visit[v].result.code
                     [] OTHER                          -> 500])
  /\ UNCHANGED resource

HandlerNext ==
  \E v \in Visits :
    EnterPolicy(v) \/ Expire(v) \/ validateTypedInput(v) \/ invokeTypedHandler(v) \/ LeavePolicy(v) \/ HumaAnswers(v)

-----------------------------------------------------------------------------
(* Properties. *)

Uses(policy) == \E d \in DOMAIN route.policies : route.policies[d] = policy

\* Once the deadline of a timeout policy has passed the client is told 504, also when the
\* answer came after all, with what it wrote; and is told so for no other reason than a
\* deadline, which the handler's own error no longer is when a policy sees it.
TimeoutTold ==
  \A v \in Visits : visit[v].at = "answered" =>
    /\ visit[v].expired # {} => visit[v].status = 504
    /\ visit[v].status = 504 => Uses("timeout") /\ (visit[v].expired # {} \/ Uses("conditional") \/ Uses("user"))

\* A write under a condition is made on the version it names, unless another request
\* wrote between the check and the handler; refused requests write nothing; and what is
\* answered with 200 was written exactly once.
ConditionHolds ==
  \A v \in Visits :
    /\ visit[v].wrote > 0 /\ visit[v].names > 0 /\ Uses("conditional") =>
         visit[v].checked /\ (visit[v].wrote = visit[v].names \/ visit[v].raced)
    /\ visit[v].status \in {304, 400, 412} => visit[v].wrote = 0
    /\ visit[v].status = 200 /\ route.method = "PUT" => visit[v].wrote > 0

\* With panicRecover only a panic of a policy, which wraps the recovery, drops the
\* connection.
PanicsContained ==
  \A v \in Visits : visit[v].at = "dropped" /\ route.recover => Uses("user") /\ visit[v].wrote = 0

\* A page leaves with a Content-Type when a policy has a default for it.
PagesTyped ==
  \A v \in Visits : visit[v].status = 200 /\ Uses("header") => visit[v].result.type # "unset"

\* How a request of a typed route is answered, whatever its policies and its handler do.
HandlerExact == TimeoutTold /\ ConditionHolds /\ PanicsContained /\ PagesTyped
=============================================================================
