----------------------------- MODULE WebProofs ------------------------------
(***************************************************************************)
(* The httpx route tables, matcher and handlers, and the configx loader,   *)
(* proved for every set of paths, definers, requests, sources and          *)
(* arguments.                                                              *)
(***************************************************************************)
EXTENDS AppProofs

-----------------------------------------------------------------------------
(* httpx: the route tables. *)

RouteEntry == [seq : Nat, path : Paths]
AddingAt == {"idle", "checked", "exact", "matcher"}

RoutesTyped ==
  /\ routeExact \subseteq Paths /\ routes \in Seq(Paths) /\ sequence \in Nat
  /\ frozen \in BOOLEAN /\ configuring \in BOOLEAN /\ document \in Nat
  /\ mu \in Definers \cup {"none"}
  /\ adding \in [Definers -> [at : AddingAt, path : Paths \cup {<<>>}]]

RegisteredPaths == {routes[i] : i \in 1..Len(routes)}
RoutesDistinct == \A i, j \in 1..Len(routes) : routes[i] = routes[j] => i = j

\* Who is not idle holds the lock; the tables differ only by the path of who does.
Locked ==
  /\ \A d \in Definers : adding[d].at # "idle" <=> mu = d
  /\ frozen => mu = "none"
  /\ mu = "none" => routeExact = RegisteredPaths
  /\ \A d \in Definers : mu = d =>
       /\ adding[d].path \in Paths /\ adding[d].path \notin RegisteredPaths
       /\ routeExact = IF adding[d].at = "checked" THEN RegisteredPaths ELSE RegisteredPaths \cup {adding[d].path}

\* What the freeze has seen.
FreezeInv ==
  frozen =>
    /\ routes = fixed.routes
    /\ \/ document = fixed.document /\ (configuring => fixed.raced)
       \/ document = fixed.document + 1 /\ fixed.raced /\ ~configuring

TablesInv == RoutesTyped /\ RoutesDistinct /\ Locked /\ FreezeInv

LEMMA RegisteredGrows ==
  ASSUME routes \in Seq(Paths), RoutesDistinct, NEW p \in Paths, p \notin RegisteredPaths, routes' = Append(routes, p)
  PROVE  routes' \in Seq(Paths) /\ RoutesDistinct' /\ RegisteredPaths' = RegisteredPaths \cup {p}
  <1>1. /\ routes' \in Seq(Paths) /\ Len(routes') = Len(routes) + 1 /\ Len(routes) \in Nat
        /\ \A i \in 1..Len(routes) : routes'[i] = routes[i]
        /\ routes'[Len(routes) + 1] = p
    OBVIOUS
  <1>2. 1..Len(routes') = 1..Len(routes) \cup {Len(routes) + 1}
    BY <1>1
  <1>3. RegisteredPaths' = RegisteredPaths \cup {p}
    BY <1>1, <1>2 DEF RegisteredPaths
  <1>4. RoutesDistinct'
    BY <1>1, <1>2 DEF RoutesDistinct, RegisteredPaths
  <1> QED BY <1>1, <1>3, <1>4

LEMMA TablesStart == RoutesInit => TablesInv
  <1> SUFFICES ASSUME RoutesInit PROVE TablesInv  OBVIOUS
  <1>1. routes = <<>> /\ Len(routes) = 0 /\ RegisteredPaths = {}
    BY DEF RoutesInit, RegisteredPaths
  <1>2. RoutesTyped
    <2>1. frozen \in BOOLEAN /\ configuring \in BOOLEAN
      BY DEF RoutesInit
    <2>2. adding \in [Definers -> [at : AddingAt, path : Paths \cup {<<>>}]]
      BY DEF RoutesInit, AddingAt
    <2>3. routes \in Seq(Paths) /\ sequence \in Nat /\ document \in Nat
      BY <1>1 DEF RoutesInit
    <2> QED BY <2>1, <2>2, <2>3 DEF RoutesInit, RoutesTyped
  <1>3. RoutesDistinct /\ FreezeInv
    BY <1>1 DEF RoutesDistinct, FreezeInv, RoutesInit
  <1>4. Locked
    BY <1>1, RoutesAssumption DEF Locked, RoutesInit
  <1> QED BY <1>2, <1>3, <1>4 DEF TablesInv

\* Only a definer at work changes tables, and with the lock held.
LEMMA TablesStep == TablesInv /\ [RoutesNext]_routeVars => TablesInv'
  <1> SUFFICES ASSUME TablesInv, [RoutesNext]_routeVars PROVE TablesInv'  OBVIOUS
  <1> USE RoutesAssumption
  <1>0. RoutesTyped /\ RoutesDistinct /\ Locked /\ FreezeInv
    BY DEF TablesInv
  <1>1. CASE freezeConfiguration
    <2>1. UNCHANGED <<routeExact, routes, sequence, mu, adding, configuring, document>> /\ frozen' = TRUE /\ mu = "none"
          /\ fixed' = [routes |-> routes, document |-> document, raced |-> configuring]
      BY <1>1 DEF freezeConfiguration, tableVars
    <2>2. fixed'.routes = routes /\ fixed'.document = document /\ fixed'.raced = configuring
      BY <2>1
    <2>3. RoutesTyped' /\ RoutesDistinct'
      BY <1>0, <2>1 DEF RoutesTyped, RoutesDistinct
    <2>4. Locked'
      BY <1>0, <2>1 DEF Locked, RegisteredPaths
    <2>5. FreezeInv'
      BY <1>0, <2>1, <2>2 DEF FreezeInv, RoutesTyped
    <2> QED BY <2>3, <2>4, <2>5 DEF TablesInv
  <1>2. CASE allowConfigMutation
    <2>1. UNCHANGED <<routeExact, routes, sequence, mu, adding, frozen, document, fixed>> /\ configuring' = TRUE /\ frozen = FALSE
      BY <1>0, <1>2 DEF allowConfigMutation, tableVars, RoutesTyped
    <2>3. RoutesTyped' /\ RoutesDistinct'
      BY <1>0, <2>1 DEF RoutesTyped, RoutesDistinct
    <2>4. Locked' /\ FreezeInv'
      BY <1>0, <2>1 DEF Locked, RegisteredPaths, FreezeInv
    <2> QED BY <2>3, <2>4 DEF TablesInv
  <1>3. CASE ConfigureOpenAPI
    <2>1. /\ UNCHANGED <<routeExact, routes, sequence, mu, adding, frozen, fixed>> /\ configuring = TRUE /\ configuring' = FALSE
          /\ document' = document + 1
      BY <1>0, <1>3 DEF ConfigureOpenAPI, tableVars, RoutesTyped
    <2>2. configuring' \in BOOLEAN
      BY <2>1
    <2>6. document' \in Nat
      BY <1>0, <2>1 DEF RoutesTyped
    <2>3. RoutesTyped' /\ RoutesDistinct'
      BY <1>0, <2>1, <2>2, <2>6 DEF RoutesTyped, RoutesDistinct
    <2>4. Locked'
      BY <1>0, <2>1 DEF Locked, RegisteredPaths
    <2>5. FreezeInv'
      BY <1>0, <2>1 DEF FreezeInv
    <2> QED BY <2>3, <2>4, <2>5 DEF TablesInv
  <1>4. ASSUME NEW d \in Definers, NEW p \in Paths, BeginRoute(d, p) PROVE TablesInv'
    <2>1. /\ UNCHANGED <<routeExact, routes, sequence, frozen, configuring, document, fixed>>
          /\ mu = "none" /\ mu' = d /\ adding[d].at = "idle" /\ p \notin routeExact /\ frozen = FALSE
          /\ adding' = [adding EXCEPT ![d] = [at |-> "checked", path |-> p]]
      BY <1>0, <1>4 DEF BeginRoute, validateRouteRegistration, tableVars, RoutesTyped
    <2>2. PICK r : r = [at |-> "checked", path |-> p]  OBVIOUS
    <2>3. r \in [at : AddingAt, path : Paths \cup {<<>>}] /\ r.at = "checked" /\ r.path = p
      BY <2>2 DEF AddingAt
    <2>4. \A e \in Definers : adding'[e] = IF e = d THEN r ELSE adding[e]
      BY <1>0, <2>1, <2>2 DEF RoutesTyped
    <2>5. RoutesTyped'
      BY <1>0, <2>1, <2>2, <2>3 DEF RoutesTyped
    <2>6. RoutesDistinct' /\ FreezeInv'
      BY <1>0, <2>1 DEF RoutesDistinct, FreezeInv
    <2>7. RegisteredPaths' = RegisteredPaths
      BY <2>1 DEF RegisteredPaths
    <2>8. Locked'
      BY <1>0, <2>1, <2>3, <2>4, <2>7 DEF Locked
    <2> QED BY <2>5, <2>6, <2>8 DEF TablesInv
  <1>5. ASSUME NEW d \in Definers, addRouteExact(d) PROVE TablesInv'
    <2>1. /\ UNCHANGED <<routes, sequence, frozen, configuring, fixed, mu>>
          /\ adding[d].at = "checked" /\ routeExact' = routeExact \cup {adding[d].path} /\ document' = document + 1
          /\ adding' = [adding EXCEPT ![d].at = "exact"]
      BY <1>5 DEF addRouteExact
    <2>2. PICK r : r = [adding[d] EXCEPT !.at = "exact"]  OBVIOUS
    <2>3. r \in [at : AddingAt, path : Paths \cup {<<>>}] /\ r.at = "exact" /\ r.path = adding[d].path
      BY <1>0, <2>2 DEF AddingAt, RoutesTyped
    <2>4. \A e \in Definers : adding'[e] = IF e = d THEN r ELSE adding[e]
      BY <1>0, <2>1, <2>2 DEF RoutesTyped
    <2>5. mu = d /\ adding[d].path \in Paths /\ adding[d].path \notin RegisteredPaths /\ routeExact = RegisteredPaths /\ frozen = FALSE
      BY <1>0, <2>1 DEF Locked, RoutesTyped
    <2>6. RoutesTyped'
      BY <1>0, <2>1, <2>2, <2>3, <2>5 DEF RoutesTyped
    <2>7. RoutesDistinct' /\ FreezeInv' /\ RegisteredPaths' = RegisteredPaths
      BY <1>0, <2>1, <2>5 DEF RoutesDistinct, FreezeInv, RegisteredPaths
    <2>8. Locked'
      BY <1>0, <2>1, <2>3, <2>4, <2>5, <2>7 DEF Locked
    <2> QED BY <2>6, <2>7, <2>8 DEF TablesInv
  <1>6. ASSUME NEW d \in Definers, addRouteMatcher(d) PROVE TablesInv'
    <2>1. /\ UNCHANGED <<routeExact, routes, frozen, configuring, document, fixed, mu>> /\ sequence' \in Nat
          /\ adding[d].at = "exact" /\ adding' = [adding EXCEPT ![d].at = "matcher"]
      BY <1>0, <1>6 DEF addRouteMatcher, RoutesTyped
    <2>2. PICK r : r = [adding[d] EXCEPT !.at = "matcher"]  OBVIOUS
    <2>3. r \in [at : AddingAt, path : Paths \cup {<<>>}] /\ r.at = "matcher" /\ r.path = adding[d].path
      BY <1>0, <2>2 DEF AddingAt, RoutesTyped
    <2>4. \A e \in Definers : adding'[e] = IF e = d THEN r ELSE adding[e]
      BY <1>0, <2>1, <2>2 DEF RoutesTyped
    <2>5. mu = d
      BY <1>0, <2>1 DEF Locked
    <2>6. RoutesTyped'
      BY <1>0, <2>1, <2>2, <2>3 DEF RoutesTyped
    <2>7. RoutesDistinct' /\ FreezeInv' /\ RegisteredPaths' = RegisteredPaths
      BY <1>0, <2>1 DEF RoutesDistinct, FreezeInv, RegisteredPaths
    <2>8. Locked'
      BY <1>0, <2>1, <2>3, <2>4, <2>5, <2>7 DEF Locked
    <2> QED BY <2>6, <2>7, <2>8 DEF TablesInv
  <1>7. ASSUME NEW d \in Definers, addRoute(d) \/ RegisterPanics(d) PROVE TablesInv'
    <2>1. /\ UNCHANGED <<routeExact, sequence, frozen, configuring, document, fixed>> /\ mu' = "none"
          /\ adding' = [adding EXCEPT ![d] = [at |-> "idle", path |-> <<>>]]
          /\ \/ adding[d].at = "matcher" /\ routes' = Append(routes, adding[d].path)
             \/ adding[d].at = "checked" /\ routes' = routes
      BY <1>7 DEF addRoute, RegisterPanics, tableVars
    <2>2. PICK r : r = [at |-> "idle", path |-> <<>>]  OBVIOUS
    <2>3. r \in [at : AddingAt, path : Paths \cup {<<>>}] /\ r.at = "idle"
      BY <2>2 DEF AddingAt
    <2>4. \A e \in Definers : adding'[e] = IF e = d THEN r ELSE adding[e]
      BY <1>0, <2>1, <2>2 DEF RoutesTyped
    <2>5. /\ mu = d /\ adding[d].path \in Paths /\ adding[d].path \notin RegisteredPaths /\ frozen = FALSE
          /\ routeExact = IF adding[d].at = "checked" THEN RegisteredPaths ELSE RegisteredPaths \cup {adding[d].path}
      BY <1>0, <2>1 DEF Locked, RoutesTyped
    <2>6. routes' \in Seq(Paths) /\ RoutesDistinct' /\ RegisteredPaths' = routeExact
      <3>1. CASE adding[d].at = "matcher" /\ routes' = Append(routes, adding[d].path)
        BY <1>0, <2>5, <3>1, RegisteredGrows DEF RoutesTyped
      <3>2. CASE adding[d].at = "checked" /\ routes' = routes
        BY <1>0, <2>5, <3>2 DEF RoutesTyped, RoutesDistinct, RegisteredPaths
      <3> QED BY <2>1, <3>1, <3>2
    <2>7. RoutesTyped'
      BY <1>0, <2>1, <2>2, <2>3, <2>6 DEF RoutesTyped
    <2>8. Locked'
      BY <1>0, <2>1, <2>3, <2>4, <2>5, <2>6 DEF Locked
    <2>9. FreezeInv'
      BY <2>1, <2>5 DEF FreezeInv
    <2> QED BY <2>6, <2>7, <2>8, <2>9 DEF TablesInv
  <1>8. CASE UNCHANGED routeVars
    <2>1. UNCHANGED <<routeExact, routes, sequence, frozen, configuring, document, fixed, mu, adding>>
      BY <1>8 DEF routeVars, tableVars
    <2> QED BY <1>0, <2>1 DEF TablesInv, RoutesTyped, RoutesDistinct, Locked, FreezeInv, RegisteredPaths
  <1> QED BY <1>1, <1>2, <1>3, <1>4, <1>5, <1>6, <1>7, <1>8 DEF RoutesNext

-----------------------------------------------------------------------------
(* The matcher: what it holds. *)

\* A route of the matcher, at the node its path leads to.
EntryAt(n, e) == n \in DOMAIN nodes /\ \E j \in 1..Len(nodes[n].routes) : nodes[n].routes[j] = e
InMatcher(e) == \E n \in DOMAIN nodes : EntryAt(n, e)

NodesTyped ==
  /\ \A n \in DOMAIN nodes :
       n \in Seq(Segments \cup {Param}) /\ nodes[n].minSeq \in 0..sequence /\ nodes[n].routes \in Seq(RouteEntry)
  /\ nodes # << >> => << >> \in DOMAIN nodes

\* A route is at its own node, and no node on the way to it claims that all below it is
\* younger.
Placed(n, e) ==
  /\ NodeOf(e.path) = n /\ isParameterizedRoute(e.path) /\ 0 < e.seq /\ e.seq <= sequence
  /\ \A lvl \in 0..Len(n) : SubSeq(n, 1, lvl) \in DOMAIN nodes /\ nodes[SubSeq(n, 1, lvl)].minSeq <= e.seq

NodesOrdered ==
  \A n \in DOMAIN nodes :
    /\ \A i, j \in 1..Len(nodes[n].routes) : i <= j => nodes[n].routes[i].seq <= nodes[n].routes[j].seq
    /\ \A j \in 1..Len(nodes[n].routes) : Placed(n, nodes[n].routes[j])

\* The matcher holds the routes with parameters, numbered in the order of registration.
NodesHold ==
  /\ \A e : InMatcher(e) =>
       e.path \in RegisteredPaths \/ \E d \in Definers : adding[d].at = "matcher" /\ e.path = adding[d].path
  /\ \A p \in RegisteredPaths : isParameterizedRoute(p) => \E e : InMatcher(e) /\ e.path = p
  /\ \A d \in Definers : adding[d].at = "matcher" /\ isParameterizedRoute(adding[d].path) =>
       /\ \E e : InMatcher(e) /\ e.path = adding[d].path
       /\ \A e, f : InMatcher(e) /\ InMatcher(f) /\ f.path = adding[d].path /\ e.path # f.path => e.seq < f.seq
  /\ \A i, j \in 1..Len(routes) : \A e, f :
       InMatcher(e) /\ InMatcher(f) /\ e.path = routes[i] /\ f.path = routes[j] /\ e.seq <= f.seq => i <= j

MatcherInv == NodesTyped /\ NodesOrdered /\ NodesHold

\* The node of a path.
LEMMA NodeOfPath ==
  ASSUME NEW p \in Seq(Segments)
  PROVE  /\ NodeOf(p) \in Seq(Segments \cup {Param}) /\ Len(NodeOf(p)) = Len(p)
         /\ \A i \in 1..Len(p) : NodeOf(p)[i] = Edge(p[i])
  BY DEF NodeOf, Edge

\* The beginnings of a sequence.
LEMMA Beginnings ==
  ASSUME NEW S, NEW s \in Seq(S), NEW lvl \in 0..Len(s)
  PROVE  /\ SubSeq(s, 1, lvl) \in Seq(S) /\ Len(SubSeq(s, 1, lvl)) = lvl
         /\ \A i \in 1..lvl : SubSeq(s, 1, lvl)[i] = s[i]
  OBVIOUS

LEMMA WholeBeginning ==
  ASSUME NEW S, NEW s \in Seq(S)
  PROVE  SubSeq(s, 1, Len(s)) = s
  <1>1. /\ SubSeq(s, 1, Len(s)) \in Seq(S) /\ Len(SubSeq(s, 1, Len(s))) = Len(s)
        /\ \A i \in 1..Len(s) : SubSeq(s, 1, Len(s))[i] = s[i]
    BY Beginnings
  <1> QED BY <1>1, SeqEqual

LEMMA BeginningOfBeginning ==
  ASSUME NEW S, NEW s \in Seq(S), NEW lvl \in 0..Len(s), NEW j \in 0..lvl
  PROVE  SubSeq(SubSeq(s, 1, lvl), 1, j) = SubSeq(s, 1, j)
  <1>1. PICK t : t = SubSeq(s, 1, lvl)  OBVIOUS
  <1>2. t \in Seq(S) /\ Len(t) = lvl /\ \A i \in 1..lvl : t[i] = s[i]
    BY <1>1, Beginnings
  <1>3. j \in 0..Len(t) /\ j \in 0..Len(s)
    BY <1>2
  <1>4. /\ SubSeq(t, 1, j) \in Seq(S) /\ Len(SubSeq(t, 1, j)) = j
        /\ \A i \in 1..j : SubSeq(t, 1, j)[i] = t[i]
    BY <1>2, <1>3, Beginnings
  <1>5. /\ SubSeq(s, 1, j) \in Seq(S) /\ Len(SubSeq(s, 1, j)) = j
        /\ \A i \in 1..j : SubSeq(s, 1, j)[i] = s[i]
    BY <1>3, Beginnings
  <1>6. \A i \in 1..j : SubSeq(t, 1, j)[i] = SubSeq(s, 1, j)[i]
    BY <1>2, <1>4, <1>5
  <1>7. SubSeq(t, 1, j) = SubSeq(s, 1, j)
    BY <1>4, <1>5, <1>6, SeqEqual
  <1> QED BY <1>1, <1>7

LEMMA MatcherStarts == RoutesInit => MatcherInv
  <1> SUFFICES ASSUME RoutesInit PROVE MatcherInv  OBVIOUS
  <1>1. nodes = << >> /\ DOMAIN nodes = {} /\ routes = <<>> /\ Len(routes) = 0 /\ RegisteredPaths = {}
    BY DEF RoutesInit, RegisteredPaths
  <1>2. \A e : ~InMatcher(e)
    BY <1>1 DEF InMatcher
  <1>3. \A d \in Definers : adding[d].at = "idle"
    BY DEF RoutesInit
  <1>4. NodesTyped /\ NodesOrdered
    BY <1>1 DEF NodesTyped, NodesOrdered
  <1>5. NodesHold
    BY <1>1, <1>2, <1>3 DEF NodesHold
  <1> QED BY <1>4, <1>5 DEF MatcherInv

\* What one registration does to the trie.
LEMMA MatcherGrows ==
  ASSUME NodesTyped, NodesOrdered, sequence \in Nat, sequence' = sequence + 1,
         NEW p \in Paths, isParameterizedRoute(p), AddToMatcher(p, sequence + 1)
  PROVE  /\ NodesTyped' /\ NodesOrdered'
         /\ \A e : InMatcher(e)' <=> InMatcher(e) \/ e = [seq |-> sequence + 1, path |-> p]
  <1> USE RoutesAssumption
  <1>1. PICK end : end = NodeOf(p)  OBVIOUS
  <1>2. end \in Seq(Segments \cup {Param}) /\ Len(end) \in Nat
    BY <1>1, NodeOfPath
  <1>3. PICK way : way = {SubSeq(end, 1, lvl) : lvl \in 0..Len(end)}  OBVIOUS
  <1>4. PICK new : new = [seq |-> sequence + 1, path |-> p]  OBVIOUS
  <1>5. new \in RouteEntry /\ new.seq = sequence + 1 /\ new.path = p
    BY <1>4 DEF RouteEntry
  <1> DEFINE Old(n) == IF n \in DOMAIN nodes THEN nodes[n].routes ELSE <<>>
             Rts(n) == IF n = end THEN Append(Old(n), new) ELSE Old(n)
             Seqn(n) == recordMinSeq(n, sequence + 1)
  <1>6. /\ DOMAIN nodes' = DOMAIN nodes \cup way
        /\ \A n \in DOMAIN nodes' : nodes'[n] = IF n \in way THEN [minSeq |-> Seqn(n), routes |-> Rts(n)] ELSE nodes[n]
    <2>1. nodes' = [n \in DOMAIN nodes \cup way |-> IF n \in way THEN [minSeq |-> Seqn(n), routes |-> Rts(n)] ELSE nodes[n]]
      BY <1>1, <1>3, <1>4 DEF AddToMatcher
    <2> HIDE DEF Rts, Seqn
    <2> QED BY <2>1
  <1>7. \A n : Old(n) \in Seq(RouteEntry)
    BY DEF NodesTyped
  <1>8. \A n : Rts(n) \in Seq(RouteEntry)
    BY <1>5, <1>7
  <1>9. \A n : Seqn(n) \in 0..(sequence + 1)
    BY DEF recordMinSeq, NodesTyped
  <1>10. end \in way /\ << >> \in way
    <2>1. SubSeq(end, 1, Len(end)) = end
      BY <1>2, WholeBeginning
    <2>2. SubSeq(end, 1, 0) = << >>
      OBVIOUS
    <2>3. Len(end) \in 0..Len(end) /\ 0 \in 0..Len(end)
      BY <1>2
    <2> QED BY <1>3, <2>1, <2>2, <2>3
  <1>11. \A n \in way : n \in Seq(Segments \cup {Param})
    BY <1>2, <1>3, Beginnings
  <1>12. \A n \in DOMAIN nodes' :
           /\ nodes'[n].minSeq = IF n \in way THEN Seqn(n) ELSE nodes[n].minSeq
           /\ nodes'[n].routes = IF n \in way THEN Rts(n) ELSE nodes[n].routes
    <2> HIDE DEF Rts, Seqn
    <2> SUFFICES ASSUME NEW n \in DOMAIN nodes'
                 PROVE  /\ nodes'[n].minSeq = IF n \in way THEN Seqn(n) ELSE nodes[n].minSeq
                        /\ nodes'[n].routes = IF n \in way THEN Rts(n) ELSE nodes[n].routes
      OBVIOUS
    <2>1. CASE n \in way
      <3>1. nodes'[n] = [minSeq |-> Seqn(n), routes |-> Rts(n)]
        BY <1>6, <2>1
      <3> QED BY <2>1, <3>1
    <2>2. CASE n \notin way
      BY <1>6, <2>2
    <2> QED BY <2>1, <2>2
  <1>13. NodesTyped'
    <2>1. ASSUME NEW n \in DOMAIN nodes'
          PROVE  n \in Seq(Segments \cup {Param}) /\ nodes'[n].minSeq \in 0..sequence' /\ nodes'[n].routes \in Seq(RouteEntry)
      <3>1. CASE n \in way
        BY <1>8, <1>9, <1>11, <1>12, <3>1
      <3>2. CASE n \notin way
        BY SMTT(40), <1>6, <1>12, <3>2 DEF NodesTyped
      <3> QED BY <3>1, <3>2
    <2>2. << >> \in DOMAIN nodes'
      BY <1>6, <1>10
    <2> QED BY <2>1, <2>2 DEF NodesTyped
  <1>14. \A n \in DOMAIN nodes' : nodes'[n].routes = IF n = end THEN Append(Old(n), new) ELSE Old(n)
    <2>1. ASSUME NEW n \in DOMAIN nodes', n \notin way PROVE n # end /\ n \in DOMAIN nodes
      BY <1>6, <1>10, <2>1
    <2> QED BY <1>12, <2>1
  <1>15. \A n \in DOMAIN nodes : n \in DOMAIN nodes' /\ nodes'[n].minSeq = nodes[n].minSeq
    BY <1>6, <1>12 DEF recordMinSeq
  <1>16. \A n \in way \ DOMAIN nodes : nodes'[n].minSeq = sequence + 1
    BY <1>6, <1>12 DEF recordMinSeq
  <1> HIDE DEF Rts, Seqn
  <1>17. /\ Len(Append(Old(end), new)) = Len(Old(end)) + 1 /\ Len(Old(end)) \in Nat
         /\ \A j \in 1..Len(Old(end)) : Append(Old(end), new)[j] = Old(end)[j]
         /\ Append(Old(end), new)[Len(Old(end)) + 1] = new
    <2> HIDE DEF Old
    <2> QED BY <1>5, <1>7
  <1>18. \A e : EntryAt(end, e)' <=> EntryAt(end, e) \/ e = new
    <2>1. end \in DOMAIN nodes'
      BY <1>6, <1>10
    <2>2. \A e : EntryAt(end, e) <=> \E j \in 1..Len(Old(end)) : Old(end)[j] = e
      BY DEF EntryAt
    <2>5. nodes'[end].routes = Append(Old(end), new)
      BY <1>14, <2>1
    <2>3. 1..Len(nodes'[end].routes) = 1..Len(Old(end)) \cup {Len(Old(end)) + 1}
      <3> HIDE DEF Old
      <3>1. Len(nodes'[end].routes) = Len(Old(end)) + 1 /\ Len(Old(end)) \in Nat
        BY <1>17, <2>5
      <3> QED BY <3>1
    <2>4. \A e : EntryAt(end, e)' <=> \E j \in 1..Len(nodes'[end].routes) : nodes'[end].routes[j] = e
      BY <2>1 DEF EntryAt
    <2> HIDE DEF Old
    <2> QED BY <1>17, <2>2, <2>3, <2>4, <2>5
  <1>19. \A n, e : n # end => (EntryAt(n, e)' <=> EntryAt(n, e))
    BY <1>14, <1>15, <1>6 DEF EntryAt
  <1>20. \A e : InMatcher(e)' <=> InMatcher(e) \/ e = new
    <2>1. ASSUME NEW e, InMatcher(e)' PROVE InMatcher(e) \/ e = new
      <3>1. PICK n : EntryAt(n, e)'
        BY <2>1 DEF InMatcher
      <3>2. EntryAt(n, e) \/ e = new
        BY <1>18, <1>19, <3>1
      <3>3. EntryAt(n, e) => n \in DOMAIN nodes
        BY DEF EntryAt
      <3> QED BY <3>2, <3>3 DEF InMatcher
    <2>2. ASSUME NEW e, InMatcher(e) PROVE InMatcher(e)'
      BY <1>15, <1>18, <1>19, <2>2 DEF InMatcher
    <2>3. InMatcher(new)'
      BY <1>6, <1>10, <1>18 DEF InMatcher
    <2> QED BY <2>1, <2>2, <2>3
  <1>21. ASSUME NEW lvl \in 0..Len(end) PROVE SubSeq(end, 1, lvl) \in DOMAIN nodes' /\ nodes'[SubSeq(end, 1, lvl)].minSeq <= sequence + 1
    <2>1. PICK b : b = SubSeq(end, 1, lvl)  OBVIOUS
    <2>2. b \in way /\ b \in DOMAIN nodes'
      BY <1>3, <1>6, <2>1
    <2>3. CASE b \in DOMAIN nodes
      <3>1. nodes[b].minSeq <= sequence
        BY <2>3 DEF NodesTyped
      <3> QED BY <1>15, <2>1, <2>2, <2>3, <3>1 DEF NodesTyped
    <2>4. CASE b \notin DOMAIN nodes
      BY <1>16, <2>1, <2>2, <2>4
    <2> QED BY <2>3, <2>4
  <1>22. Placed(end, new)'
    BY <1>1, <1>5, <1>21 DEF Placed
  <1>23. ASSUME NEW n, NEW e \in RouteEntry, Placed(n, e) PROVE Placed(n, e)'
    <2>1. ASSUME NEW lvl \in 0..Len(n) PROVE SubSeq(n, 1, lvl) \in DOMAIN nodes' /\ nodes'[SubSeq(n, 1, lvl)].minSeq <= e.seq
      BY <1>15, <1>23 DEF Placed
    <2>2. e.seq <= sequence'
      BY <1>23 DEF Placed, RouteEntry
    <2> QED BY <1>23, <2>1, <2>2 DEF Placed
  <1>24. ASSUME NEW n \in DOMAIN nodes'
         PROVE  /\ \A i, j \in 1..Len(nodes'[n].routes) : i <= j => nodes'[n].routes[i].seq <= nodes'[n].routes[j].seq
                /\ \A j \in 1..Len(nodes'[n].routes) : Placed(n, nodes[n].routes[j])'
    <2>1. /\ \A i, j \in 1..Len(Old(n)) : i <= j => Old(n)[i].seq <= Old(n)[j].seq
          /\ \A j \in 1..Len(Old(n)) : Placed(n, Old(n)[j])
      BY DEF NodesOrdered
    <2>2. \A j \in 1..Len(Old(n)) : Old(n)[j] \in RouteEntry
      BY <1>7
    <2>3. \A j \in 1..Len(Old(n)) : Old(n)[j].seq <= sequence /\ Old(n)[j].seq \in Nat
      BY <2>1, <2>2 DEF Placed, RouteEntry
    <2> HIDE DEF Old
    <2>4. CASE n # end
      <3>1. nodes'[n].routes = Old(n)
        BY <1>14, <2>4
      <3>2. ASSUME NEW j \in 1..Len(nodes'[n].routes) PROVE Placed(n, nodes[n].routes[j])'
        <4>1. PICK e \in RouteEntry : e = nodes'[n].routes[j] /\ Placed(n, e)
          BY <2>1, <2>2, <3>1
        <4>2. Placed(n, e)'
          BY <1>23, <4>1
        <4> QED BY <4>1, <4>2
      <3> QED BY <2>1, <3>1, <3>2
    <2>5. CASE n = end
      <3>1. PICK s : s = nodes'[n].routes  OBVIOUS
      <3>2. /\ Len(s) = Len(Old(n)) + 1 /\ Len(Old(n)) \in Nat /\ s[Len(Old(n)) + 1] = new
            /\ \A j \in 1..Len(Old(n)) : s[j] = Old(n)[j]
        BY <1>14, <1>17, <2>5, <3>1
      <3>3. ASSUME NEW j \in 1..Len(s) PROVE Placed(n, s[j])'
        <4>1. CASE j \in 1..Len(Old(n))
          BY <1>23, <2>1, <2>2, <3>2, <4>1
        <4>2. CASE j = Len(Old(n)) + 1
          BY <1>22, <2>5, <3>2, <4>2
        <4> QED BY <3>2, <4>1, <4>2
      <3>4. ASSUME NEW i \in 1..Len(s), NEW j \in 1..Len(s), i <= j PROVE s[i].seq <= s[j].seq
        <4>1. CASE j \in 1..Len(Old(n))
          BY <2>1, <3>2, <3>4, <4>1
        <4>2. CASE j = Len(Old(n)) + 1 /\ i \in 1..Len(Old(n))
          BY <1>5, <2>3, <3>2, <4>2
        <4>3. CASE j = Len(Old(n)) + 1 /\ i = j
          BY <1>5, <3>2, <4>3
        <4> QED BY <3>2, <3>4, <4>1, <4>2, <4>3
      <3> QED BY <3>1, <3>3, <3>4
    <2> QED BY <2>4, <2>5
  <1>25. NodesOrdered'
    BY <1>24 DEF NodesOrdered
  <1> QED BY <1>4, <1>13, <1>20, <1>25

LEMMA NodesFrame ==
  ASSUME NodesTyped, NodesOrdered, UNCHANGED <<nodes, sequence>>
  PROVE  NodesTyped' /\ NodesOrdered' /\ \A e : InMatcher(e)' <=> InMatcher(e)
  <1>1. NodesTyped'
    BY DEF NodesTyped
  <1>2. ASSUME NEW n \in DOMAIN nodes, NEW e, Placed(n, e) PROVE Placed(n, e)'
    BY <1>2 DEF Placed
  <1>3. NodesOrdered'
    <2>1. ASSUME NEW n \in DOMAIN nodes, NEW j \in 1..Len(nodes[n].routes) PROVE Placed(n, nodes[n].routes[j])'
      <3>1. PICK e : e = nodes[n].routes[j]  OBVIOUS
      <3>2. Placed(n, e)'
        BY <1>2, <3>1 DEF NodesOrdered
      <3> QED BY <3>1, <3>2
    <2> QED BY <2>1 DEF NodesOrdered
  <1>4. \A e : InMatcher(e)' <=> InMatcher(e)
    BY DEF InMatcher, EntryAt
  <1> QED BY <1>1, <1>3, <1>4

\* Only the step with parameters touches the trie, and only the last one the routes.
LEMMA MatcherStep == TablesInv /\ MatcherInv /\ [RoutesNext]_routeVars => MatcherInv'
  <1> SUFFICES ASSUME TablesInv, MatcherInv, [RoutesNext]_routeVars PROVE MatcherInv'  OBVIOUS
  <1> USE RoutesAssumption
  <1>0. RoutesTyped /\ RoutesDistinct /\ Locked /\ NodesTyped /\ NodesOrdered /\ NodesHold
    BY DEF TablesInv, MatcherInv
  <1>1. ASSUME UNCHANGED <<nodes, sequence, routes>>, RegisteredPaths' = RegisteredPaths,
               \A d \in Definers : adding[d].at # "matcher" /\ adding'[d].at # "matcher"
        PROVE  MatcherInv'
    <2>1. NodesTyped' /\ NodesOrdered' /\ \A e : InMatcher(e)' <=> InMatcher(e)
      BY <1>0, <1>1, NodesFrame
    <2>2. NodesHold'
      BY <1>0, <1>1, <2>1 DEF NodesHold
    <2> QED BY <2>1, <2>2 DEF MatcherInv
  <1>2. ASSUME UNCHANGED <<nodes, sequence, routes, adding>> PROVE MatcherInv'
    <2>1. NodesTyped' /\ NodesOrdered' /\ \A e : InMatcher(e)' <=> InMatcher(e)
      BY <1>0, <1>2, NodesFrame
    <2>2. RegisteredPaths' = RegisteredPaths
      BY <1>2 DEF RegisteredPaths
    <2>3. NodesHold'
      BY <1>0, <1>2, <2>1, <2>2 DEF NodesHold
    <2> QED BY <2>1, <2>3 DEF MatcherInv
  <1>3. ASSUME NEW d \in Definers, adding[d].at \in {"idle", "checked"} /\ mu \in {"none", d}, routes' = routes,
               UNCHANGED <<nodes, sequence>>, NEW r, adding' = [adding EXCEPT ![d] = r], r.at # "matcher"
        PROVE  MatcherInv'
    <2>1. RegisteredPaths' = RegisteredPaths
      BY <1>3 DEF RegisteredPaths
    <2>2. \A e \in Definers : adding'[e] = IF e = d THEN r ELSE adding[e]
      BY <1>0, <1>3 DEF RoutesTyped
    <2>3. \A e \in Definers : e # d => adding[e].at = "idle"
      BY <1>0, <1>3 DEF Locked
    <2> QED BY <1>1, <1>3, <2>1, <2>2, <2>3
  <1>4. ASSUME NEW d \in Definers, NEW p \in Paths, BeginRoute(d, p) PROVE MatcherInv'
    <2>1. PICK r : r = [at |-> "checked", path |-> p]  OBVIOUS
    <2>2. r.at # "matcher"
      BY <2>1
    <2>3. UNCHANGED <<nodes, sequence, routes>> /\ adding' = [adding EXCEPT ![d] = r] /\ adding[d].at = "idle" /\ mu = "none"
      BY <1>4, <2>1 DEF BeginRoute, tableVars
    <2> QED BY <1>3, <2>2, <2>3
  <1>5. ASSUME NEW d \in Definers, addRouteExact(d) PROVE MatcherInv'
    <2>1. PICK r : r = [adding[d] EXCEPT !.at = "exact"]  OBVIOUS
    <2>2. r.at # "matcher"
      BY <1>0, <2>1 DEF RoutesTyped
    <2>3. UNCHANGED <<nodes, sequence, routes>> /\ adding' = [adding EXCEPT ![d] = r] /\ adding[d].at = "checked"
      BY <1>5, <2>1 DEF addRouteExact, tableVars
    <2>4. mu = d
      BY <1>0, <2>3 DEF Locked
    <2> QED BY <1>3, <2>2, <2>3, <2>4
  <1>6. ASSUME NEW d \in Definers, RegisterPanics(d) PROVE MatcherInv'
    <2>1. PICK r : r = [at |-> "idle", path |-> <<>>]  OBVIOUS
    <2>2. r.at # "matcher"
      BY <2>1
    <2>3. UNCHANGED <<nodes, sequence, routes>> /\ adding' = [adding EXCEPT ![d] = r] /\ adding[d].at = "checked"
      BY <1>6, <2>1 DEF RegisterPanics, tableVars
    <2>4. mu = d
      BY <1>0, <2>3 DEF Locked
    <2> QED BY <1>3, <2>2, <2>3, <2>4
  <1>7. ASSUME NEW d \in Definers, addRouteMatcher(d) PROVE MatcherInv'
    <2>1. PICK r : r = [adding[d] EXCEPT !.at = "matcher"]  OBVIOUS
    <2>2. adding[d].at = "exact" /\ UNCHANGED routes /\ adding' = [adding EXCEPT ![d] = r]
      BY <1>7, <2>1 DEF addRouteMatcher
    <2>3. r.at = "matcher" /\ r.path = adding[d].path
      BY <1>0, <2>1 DEF RoutesTyped
    <2>4. \A e \in Definers : adding'[e] = IF e = d THEN r ELSE adding[e]
      BY <1>0, <2>2 DEF RoutesTyped
    <2>5. mu = d
      BY <1>0, <2>2 DEF Locked
    <2>6. \A e \in Definers : e # d => adding[e].at = "idle"
      BY <1>0, <2>5 DEF Locked
    <2>7. RegisteredPaths' = RegisteredPaths
      BY <2>2 DEF RegisteredPaths
    <2>8. PICK p \in Paths : p = adding[d].path /\ p \notin RegisteredPaths
      BY <1>0, <2>5 DEF Locked
    <2>9. \A e \in Definers : adding'[e].at = "matcher" <=> e = d
      BY <2>3, <2>4, <2>6
    <2>10. \A e \in Definers : adding[e].at # "matcher"
      BY <2>2, <2>6
    <2>11. CASE ~isParameterizedRoute(p)
      <3>1. UNCHANGED <<nodes, sequence>>
        BY <1>7, <2>8, <2>11 DEF addRouteMatcher
      <3>2. NodesTyped' /\ NodesOrdered' /\ \A e : InMatcher(e)' <=> InMatcher(e)
        BY <1>0, <3>1, NodesFrame
      <3>3. NodesHold'
        BY <1>0, <2>2, <2>3, <2>4, <2>7, <2>8, <2>9, <2>10, <2>11, <3>2 DEF NodesHold
      <3> QED BY <3>2, <3>3 DEF MatcherInv
    <2>12. CASE isParameterizedRoute(p)
      <3>1. sequence' = sequence + 1 /\ AddToMatcher(p, sequence + 1) /\ sequence \in Nat
        BY <1>0, <1>7, <2>8, <2>12 DEF addRouteMatcher, RoutesTyped
      <3>2. PICK new : new = [seq |-> sequence + 1, path |-> p]  OBVIOUS
      <3>3. new.seq = sequence + 1 /\ new.path = p
        BY <3>2
      <3>4. NodesTyped' /\ NodesOrdered' /\ \A e : InMatcher(e)' <=> InMatcher(e) \/ e = new
        BY <1>0, <2>12, <3>1, <3>2, MatcherGrows
      <3>5. ASSUME NEW e, InMatcher(e) PROVE e.path \in RegisteredPaths /\ e.path # p /\ e.seq <= sequence
        <4>1. e.path \in RegisteredPaths
          BY <1>0, <2>10, <3>5 DEF NodesHold
        <4>2. e.seq <= sequence
          BY <1>0, <3>5 DEF InMatcher, EntryAt, NodesOrdered, Placed
        <4> QED BY <2>8, <4>1, <4>2
      <3>6. \A e : InMatcher(e) => e.seq < new.seq
        <4>1. ASSUME NEW e, InMatcher(e) PROVE e \in RouteEntry
          BY <1>0, <4>1 DEF InMatcher, EntryAt, NodesTyped
        <4>2. ASSUME NEW e, InMatcher(e) PROVE e.seq \in Nat
          BY <4>1, <4>2 DEF RouteEntry
        <4> QED BY <3>1, <3>3, <3>5, <4>2
      <3>7. \A e : InMatcher(e)' => e.path \in RegisteredPaths' \/ \E c \in Definers : adding'[c].at = "matcher" /\ e.path = adding'[c].path
        BY <2>3, <2>4, <2>7, <2>8, <3>3, <3>4, <3>5
      <3>8. \A t \in RegisteredPaths' : isParameterizedRoute(t) => \E e : InMatcher(e)' /\ e.path = t
        BY <1>0, <2>7, <3>4 DEF NodesHold
      <3>9. ASSUME NEW c \in Definers, adding'[c].at = "matcher"
            PROVE  /\ \E e : InMatcher(e)' /\ e.path = adding'[c].path
                   /\ \A e, f : InMatcher(e)' /\ InMatcher(f)' /\ f.path = adding'[c].path /\ e.path # f.path => e.seq < f.seq
        <4>1. adding'[c].path = p
          BY <2>3, <2>4, <2>8, <2>9, <3>9
        <4>2. InMatcher(new)'
          BY <3>4
        <4>3. ASSUME NEW e, NEW f, InMatcher(e)', InMatcher(f)', f.path = p, e.path # p PROVE e.seq < f.seq
          <5>1. f = new
            BY <3>4, <3>5, <4>3
          <5>2. InMatcher(e)
            BY <3>3, <3>4, <4>3
          <5> QED BY <3>6, <5>1, <5>2
        <4> QED BY <3>3, <4>1, <4>2, <4>3
      <3>10. ASSUME NEW i \in 1..Len(routes), NEW j \in 1..Len(routes), NEW e, NEW f,
                    InMatcher(e)', InMatcher(f)', e.path = routes[i], f.path = routes[j], e.seq <= f.seq
             PROVE  i <= j
        <4>1. routes[i] \in RegisteredPaths /\ routes[j] \in RegisteredPaths
          BY DEF RegisteredPaths
        <4>2. InMatcher(e) /\ InMatcher(f)
          BY <2>8, <3>3, <3>4, <3>10, <4>1
        <4> QED BY <1>0, <3>10, <4>2 DEF NodesHold
      <3>11. NodesHold'
        BY <2>2, <3>7, <3>8, <3>9, <3>10 DEF NodesHold
      <3> QED BY <3>4, <3>11 DEF MatcherInv
    <2> QED BY <2>11, <2>12
  <1>8. ASSUME NEW d \in Definers, addRoute(d) PROVE MatcherInv'
    <2>1. PICK r : r = [at |-> "idle", path |-> <<>>]  OBVIOUS
    <2>2. adding[d].at = "matcher" /\ UNCHANGED <<nodes, sequence>> /\ adding' = [adding EXCEPT ![d] = r]
          /\ routes' = Append(routes, adding[d].path)
      BY <1>8, <2>1 DEF addRoute
    <2>3. r.at = "idle"
      BY <2>1
    <2>4. \A e \in Definers : adding'[e] = IF e = d THEN r ELSE adding[e]
      BY <1>0, <2>2 DEF RoutesTyped
    <2>5. mu = d
      BY <1>0, <2>2 DEF Locked
    <2>6. \A e \in Definers : e # d => adding[e].at = "idle"
      BY <1>0, <2>5 DEF Locked
    <2>7. PICK p \in Paths : p = adding[d].path /\ p \notin RegisteredPaths
      BY <1>0, <2>5 DEF Locked
    <2>8. RegisteredPaths' = RegisteredPaths \cup {p}
      BY <1>0, <2>2, <2>7, RegisteredGrows DEF RoutesTyped
    <2>9. NodesTyped' /\ NodesOrdered' /\ \A e : InMatcher(e)' <=> InMatcher(e)
      BY <1>0, <2>2, NodesFrame
    <2>10. \A e \in Definers : adding'[e].at # "matcher"
      BY <2>3, <2>4, <2>6
    <2>11. \A e : InMatcher(e) => e.path \in RegisteredPaths \cup {p}
      BY <1>0, <2>6, <2>7 DEF NodesHold
    <2>12. \A t \in RegisteredPaths \cup {p} : isParameterizedRoute(t) => \E e : InMatcher(e) /\ e.path = t
      BY <1>0, <2>2, <2>7 DEF NodesHold
    <2>13. Len(routes') = Len(routes) + 1 /\ Len(routes) \in Nat /\ routes'[Len(routes) + 1] = p
           /\ \A i \in 1..Len(routes) : routes'[i] = routes[i]
      BY <1>0, <2>2, <2>7 DEF RoutesTyped
    <2>14. ASSUME NEW i \in 1..Len(routes'), NEW j \in 1..Len(routes'), NEW e, NEW f,
                  InMatcher(e), InMatcher(f), e.path = routes'[i], f.path = routes'[j], e.seq <= f.seq
           PROVE  i <= j
      <3>1. CASE j = Len(routes) + 1
        BY <2>13, <3>1
      <3>2. CASE j \in 1..Len(routes) /\ i \in 1..Len(routes)
        <4>1. e.path = routes[i] /\ f.path = routes[j]
          BY <2>13, <2>14, <3>2
        <4> QED BY <1>0, <2>14, <3>2, <4>1 DEF NodesHold
      <3>3. CASE j \in 1..Len(routes) /\ i = Len(routes) + 1
        <4>1. e.path = p /\ f.path = routes[j]
          BY <2>13, <2>14, <3>3
        <4>2. f.path \in RegisteredPaths
          BY <3>3, <4>1 DEF RegisteredPaths
        <4>3. f.path # e.path
          BY <2>7, <4>1, <4>2
        <4>4. isParameterizedRoute(p)
          <5>1. PICK n \in DOMAIN nodes : EntryAt(n, e)
            BY <2>14 DEF InMatcher
          <5>2. Placed(n, e)
            BY <1>0, <5>1 DEF EntryAt, NodesOrdered
          <5> QED BY <4>1, <5>2 DEF Placed
        <4>5. f.seq < e.seq
          BY <1>0, <2>2, <2>7, <2>14, <4>1, <4>3, <4>4 DEF NodesHold
        <4>6. e.seq \in Nat /\ f.seq \in Nat
          <5>1. \A x : InMatcher(x) => x \in RouteEntry
            BY <1>0 DEF InMatcher, EntryAt, NodesTyped
          <5> QED BY <2>14, <5>1 DEF RouteEntry
        <4> QED BY <2>14, <4>5, <4>6
      <3> QED BY <2>13, <3>1, <3>2, <3>3
    <2>15. NodesHold'
      BY <2>8, <2>9, <2>10, <2>11, <2>12, <2>14 DEF NodesHold
    <2> QED BY <2>9, <2>15 DEF MatcherInv
  <1>9. CASE freezeConfiguration \/ allowConfigMutation \/ ConfigureOpenAPI \/ UNCHANGED routeVars
    <2>1. UNCHANGED <<nodes, sequence, routes, adding>>
      BY <1>9 DEF freezeConfiguration, allowConfigMutation, ConfigureOpenAPI, routeVars, tableVars
    <2> QED BY <1>2, <2>1
  <1> QED BY <1>4, <1>5, <1>6, <1>7, <1>8, <1>9 DEF RoutesNext

-----------------------------------------------------------------------------
(* The matcher: what it finds. *)

\* The routes below a node that fit the rest of a path, and the oldest of them.
Below(n, q) ==
  {e \in RouteEntry :
     /\ InMatcher(e) /\ Len(e.path) = Len(q)
     /\ \A i \in 1..Len(n) : Edge(e.path[i]) = n[i]
     /\ \A i \in (Len(n) + 1)..Len(q) : e.path[i] = q[i] \/ e.path[i] \in Params}
Oldest(x, S) == IF S = {} THEN x = NoMatch ELSE x \in S /\ \A e \in S : x.seq <= e.seq

LEMMA EntryFacts ==
  ASSUME NodesTyped, NodesOrdered, NEW e, InMatcher(e)
  PROVE  /\ e \in RouteEntry /\ e.seq \in Nat /\ 0 < e.seq /\ e.path \in Seq(Segments) /\ e.path \in Paths
         /\ EntryAt(NodeOf(e.path), e) /\ Placed(NodeOf(e.path), e)
  <1>1. PICK n \in DOMAIN nodes : EntryAt(n, e)
    BY DEF InMatcher
  <1>2. PICK j \in 1..Len(nodes[n].routes) : nodes[n].routes[j] = e
    BY <1>1 DEF EntryAt
  <1>3. e \in RouteEntry /\ Placed(n, e)
    BY <1>2 DEF NodesTyped, NodesOrdered
  <1>4. NodeOf(e.path) = n /\ 0 < e.seq
    BY <1>3 DEF Placed
  <1>5. e.seq \in Nat /\ e.path \in Paths /\ e.path \in Seq(Segments)
    BY <1>3, RoutesAssumption DEF RouteEntry
  <1> QED BY <1>1, <1>3, <1>4, <1>5

LEMMA NoMatchSeq == NoMatch.seq = 0 /\ NoMatch.path = <<"none">>
  BY DEF NoMatch

\* At the end of the path: the first route of the node.
LEMMA LastLevel ==
  ASSUME NodesTyped, NodesOrdered, NEW q \in Seq(Segments), NEW n \in DOMAIN nodes, Len(n) = Len(q)
  PROVE  Oldest(IF nodes[n].routes = <<>> THEN NoMatch ELSE Head(nodes[n].routes), Below(n, q))
  <1>1. n \in Seq(Segments \cup {Param}) /\ nodes[n].routes \in Seq(RouteEntry)
    BY DEF NodesTyped
  <1>2. ASSUME NEW e \in Below(n, q) PROVE EntryAt(n, e)
    <2>1. InMatcher(e) /\ Len(e.path) = Len(q) /\ \A i \in 1..Len(n) : Edge(e.path[i]) = n[i]
      BY DEF Below
    <2>2. e.path \in Seq(Segments) /\ EntryAt(NodeOf(e.path), e)
      BY <2>1, EntryFacts
    <2>3. PICK m : m = NodeOf(e.path)  OBVIOUS
    <2>4. m \in Seq(Segments \cup {Param}) /\ Len(m) = Len(n) /\ \A i \in 1..Len(n) : m[i] = n[i]
      BY <2>1, <2>2, <2>3, NodeOfPath
    <2>5. m = n
      BY <1>1, <2>4, SeqEqual
    <2> QED BY <2>2, <2>3, <2>5
  <1>3. ASSUME NEW e, EntryAt(n, e) PROVE e \in Below(n, q)
    <2>1. InMatcher(e)
      BY <1>3 DEF InMatcher
    <2>2. e \in RouteEntry /\ e.path \in Seq(Segments)
      BY <2>1, EntryFacts
    <2>3. NodeOf(e.path) = n
      BY <1>3 DEF EntryAt, NodesOrdered, Placed
    <2>4. Len(e.path) = Len(n) /\ \A i \in 1..Len(n) : Edge(e.path[i]) = n[i]
      BY <2>2, <2>3, NodeOfPath
    <2>5. \A i \in (Len(n) + 1)..Len(q) : FALSE
      BY <1>1
    <2> QED BY <2>1, <2>2, <2>4, <2>5 DEF Below
  <1>4. PICK s : s = nodes[n].routes  OBVIOUS
  <1>5. CASE s = <<>>
    <2>1. \A e : ~EntryAt(n, e)
      BY <1>4, <1>5 DEF EntryAt
    <2>2. Below(n, q) = {}
      BY <1>2, <2>1
    <2> QED BY <1>4, <1>5, <2>2 DEF Oldest
  <1>6. CASE s # <<>>
    <2>1. 1 \in 1..Len(s) /\ Head(s) = s[1] /\ \A j \in 1..Len(s) : 1 <= j
      BY <1>1, <1>4, <1>6
    <2>2. EntryAt(n, s[1])
      BY <1>4, <2>1 DEF EntryAt
    <2>3. s[1] \in Below(n, q)
      BY <1>3, <2>2
    <2>4. ASSUME NEW e \in Below(n, q) PROVE s[1].seq <= e.seq
      <3>1. PICK j \in 1..Len(s) : s[j] = e
        BY <1>2, <1>4 DEF EntryAt
      <3> QED BY <1>4, <2>1, <3>1 DEF NodesOrdered
    <2> QED BY <1>4, <1>6, <2>1, <2>3, <2>4 DEF Oldest
  <1> QED BY <1>5, <1>6

\* A child of a node: what is below it is below the node, and so for the two children
\* together the other way round.
LEMMA Children2 ==
  ASSUME NodesTyped, NodesOrdered, NEW q \in Seq(Segments), NEW n \in DOMAIN nodes, Len(n) < Len(q)
  PROVE  /\ Below(Append(n, q[Len(n) + 1]), q) \subseteq Below(n, q)
         /\ Below(Append(n, Param), q) \subseteq Below(n, q)
         /\ Below(n, q) \subseteq Below(Append(n, q[Len(n) + 1]), q) \cup Below(Append(n, Param), q)
         /\ Append(n, q[Len(n) + 1]) \notin DOMAIN nodes => Below(Append(n, q[Len(n) + 1]), q) = {}
         /\ Append(n, Param) \notin DOMAIN nodes => Below(Append(n, Param), q) = {}
         /\ Len(Append(n, q[Len(n) + 1])) = Len(n) + 1 /\ Len(Append(n, Param)) = Len(n) + 1
         /\ \A m \in DOMAIN nodes : Len(m) <= Len(q) => \A e \in Below(m, q) : nodes[m].minSeq <= e.seq
  <1>1. n \in Seq(Segments \cup {Param}) /\ Len(n) \in Nat /\ Len(q) \in Nat
    BY DEF NodesTyped
  <1>2. PICK i : i = Len(n) + 1  OBVIOUS
  <1>3. i \in 1..Len(q) /\ q[i] \in Segments /\ q[i] # Param /\ 1..i = 1..Len(n) \cup {i}
        /\ (Len(n) + 1)..Len(q) = {i} \cup (i + 1)..Len(q)
    BY <1>1, <1>2, RoutesAssumption DEF Param
  <1>4. ASSUME NEW x \in Segments \cup {Param}
        PROVE  /\ Append(n, x) \in Seq(Segments \cup {Param}) /\ Len(Append(n, x)) = i
               /\ \A j \in 1..Len(n) : Append(n, x)[j] = n[j]
               /\ Append(n, x)[i] = x
    BY <1>1, <1>2
  <1>5. ASSUME NEW x \in Segments \cup {Param}, NEW e
        PROVE  e \in Below(Append(n, x), q) <=>
                 /\ e \in RouteEntry /\ InMatcher(e) /\ Len(e.path) = Len(q)
                 /\ \A j \in 1..Len(n) : Edge(e.path[j]) = n[j]
                 /\ Edge(e.path[i]) = x
                 /\ \A j \in (i + 1)..Len(q) : e.path[j] = q[j] \/ e.path[j] \in Params
    <2>1. PICK m : m = Append(n, x)  OBVIOUS
    <2>2. Len(m) = i /\ (\A j \in 1..Len(n) : m[j] = n[j]) /\ m[i] = x
      BY <1>4, <2>1
    <2>3. (\A j \in 1..Len(m) : Edge(e.path[j]) = m[j]) <=> (\A j \in 1..Len(n) : Edge(e.path[j]) = n[j]) /\ Edge(e.path[i]) = x
      BY <1>3, <2>2
    <2>4. e \in Below(m, q) <=>
                 /\ e \in RouteEntry /\ InMatcher(e) /\ Len(e.path) = Len(q)
                 /\ \A j \in 1..Len(m) : Edge(e.path[j]) = m[j]
                 /\ \A j \in (i + 1)..Len(q) : e.path[j] = q[j] \/ e.path[j] \in Params
      BY <2>2 DEF Below
    <2> QED BY <2>1, <2>3, <2>4
  <1>6. ASSUME NEW e
        PROVE  e \in Below(n, q) <=>
                 /\ e \in RouteEntry /\ InMatcher(e) /\ Len(e.path) = Len(q)
                 /\ \A j \in 1..Len(n) : Edge(e.path[j]) = n[j]
                 /\ e.path[i] = q[i] \/ e.path[i] \in Params
                 /\ \A j \in (i + 1)..Len(q) : e.path[j] = q[j] \/ e.path[j] \in Params
    BY <1>3 DEF Below
  <1>7. ASSUME NEW e, InMatcher(e), Len(e.path) = Len(q)
        PROVE  (e.path[i] = q[i] \/ e.path[i] \in Params) <=> (Edge(e.path[i]) = q[i] \/ Edge(e.path[i]) = Param)
    <2>1. e.path \in Seq(Segments)
      BY <1>7, EntryFacts
    <2>2. e.path[i] \in Segments /\ e.path[i] # Param
      BY <1>3, <1>7, <2>1, RoutesAssumption DEF Param
    <2> QED BY <1>3, <2>2 DEF Edge
  <1>8. ASSUME NEW x \in Segments \cup {Param}, NEW e \in Below(Append(n, x), q) PROVE Append(n, x) \in DOMAIN nodes
    <2>1. /\ InMatcher(e) /\ Len(e.path) = Len(q) /\ \A j \in 1..Len(n) : Edge(e.path[j]) = n[j]
          /\ Edge(e.path[i]) = x
      BY <1>5
    <2>2. e.path \in Seq(Segments) /\ Placed(NodeOf(e.path), e)
      BY <2>1, EntryFacts
    <2>3. PICK m : m = NodeOf(e.path)  OBVIOUS
    <2>4. m \in Seq(Segments \cup {Param}) /\ Len(m) = Len(q) /\ \A j \in 1..Len(q) : m[j] = Edge(e.path[j])
      BY <2>1, <2>2, <2>3, NodeOfPath
    <2>5. i \in 0..Len(m) /\ 1..i \subseteq 1..Len(q)
      BY <1>1, <1>3, <2>4
    <2>6. SubSeq(m, 1, i) \in DOMAIN nodes
      BY <2>2, <2>3, <2>5 DEF Placed
    <2>7. SubSeq(m, 1, i) \in Seq(Segments \cup {Param}) /\ Len(SubSeq(m, 1, i)) = i /\ \A j \in 1..i : SubSeq(m, 1, i)[j] = m[j]
      BY <2>4, <2>5, Beginnings
    <2>8. \A j \in 1..i : SubSeq(m, 1, i)[j] = Append(n, x)[j]
      BY <1>3, <1>4, <2>1, <2>4, <2>5, <2>7
    <2>9. SubSeq(m, 1, i) = Append(n, x)
      BY <1>4, <2>7, <2>8, SeqEqual
    <2> QED BY <2>6, <2>9
  <1>9. ASSUME NEW m \in DOMAIN nodes, Len(m) <= Len(q), NEW e \in Below(m, q) PROVE nodes[m].minSeq <= e.seq
    <2>1. InMatcher(e) /\ Len(e.path) = Len(q) /\ (\A j \in 1..Len(m) : Edge(e.path[j]) = m[j]) /\ m \in Seq(Segments \cup {Param})
      BY DEF Below, NodesTyped
    <2>2. e.path \in Seq(Segments) /\ Placed(NodeOf(e.path), e)
      BY <2>1, EntryFacts
    <2>3. PICK t : t = NodeOf(e.path)  OBVIOUS
    <2>4. t \in Seq(Segments \cup {Param}) /\ Len(t) = Len(q) /\ \A j \in 1..Len(q) : t[j] = Edge(e.path[j])
      BY <2>1, <2>2, <2>3, NodeOfPath
    <2>5. Len(m) \in 0..Len(t) /\ 1..Len(m) \subseteq 1..Len(q) /\ Len(m) \in Nat
      BY <1>1, <1>9, <2>1, <2>4
    <2>6. SubSeq(t, 1, Len(m)) \in Seq(Segments \cup {Param}) /\ Len(SubSeq(t, 1, Len(m))) = Len(m)
          /\ \A j \in 1..Len(m) : SubSeq(t, 1, Len(m))[j] = t[j]
      BY <2>4, <2>5, Beginnings
    <2>7. \A j \in 1..Len(m) : SubSeq(t, 1, Len(m))[j] = m[j]
      BY <2>1, <2>4, <2>5, <2>6
    <2>8. SubSeq(t, 1, Len(m)) = m
      BY <2>1, <2>6, <2>7, SeqEqual
    <2>9. nodes[SubSeq(t, 1, Len(m))].minSeq <= e.seq
      BY <2>2, <2>3, <2>5 DEF Placed
    <2> QED BY <2>8, <2>9
  <1>10. ASSUME NEW x \in {q[i], Param}, NEW e \in Below(Append(n, x), q) PROVE e \in Below(n, q)
    <2>1. x \in Segments \cup {Param}
      BY <1>3, <1>10
    <2>2. /\ e \in RouteEntry /\ InMatcher(e) /\ Len(e.path) = Len(q) /\ Edge(e.path[i]) = x
          /\ \A j \in 1..Len(n) : Edge(e.path[j]) = n[j]
          /\ \A j \in (i + 1)..Len(q) : e.path[j] = q[j] \/ e.path[j] \in Params
      BY <1>5, <1>10, <2>1
    <2>3. e.path[i] = q[i] \/ e.path[i] \in Params
      BY <1>7, <1>10, <2>2
    <2> QED BY <1>6, <2>2, <2>3
  <1>11. ASSUME NEW e \in Below(n, q) PROVE e \in Below(Append(n, q[i]), q) \/ e \in Below(Append(n, Param), q)
    <2>1. q[i] \in Segments \cup {Param} /\ Param \in Segments \cup {Param}
      BY <1>3
    <2>2. /\ e \in RouteEntry /\ InMatcher(e) /\ Len(e.path) = Len(q)
          /\ \A j \in 1..Len(n) : Edge(e.path[j]) = n[j]
          /\ e.path[i] = q[i] \/ e.path[i] \in Params
          /\ \A j \in (i + 1)..Len(q) : e.path[j] = q[j] \/ e.path[j] \in Params
      BY <1>6, <1>11
    <2>3. Edge(e.path[i]) = q[i] \/ Edge(e.path[i]) = Param
      BY <1>7, <2>2
    <2> QED BY <1>5, <2>1, <2>2, <2>3
  <1>12. ASSUME NEW x \in {q[i], Param}
         PROVE  Len(Append(n, x)) = Len(n) + 1 /\ (Append(n, x) \notin DOMAIN nodes => Below(Append(n, x), q) = {})
    <2>1. x \in Segments \cup {Param}
      BY <1>3, <1>12
    <2> QED BY <1>2, <1>4, <1>8, <2>1
  <1> QED BY <1>2, <1>9, <1>10, <1>11, <1>12

\* The choice between two children, in the order in which they are tried.
LEMMA OlderChild ==
  ASSUME NodesTyped, NodesOrdered, NEW C, NEW D, NEW c, NEW d, NEW first, NEW second,
         \A e \in C \cup D : InMatcher(e),
         Oldest(first, C), Oldest(second, D),
         d \notin DOMAIN nodes => D = {},
         d \in DOMAIN nodes => \A e \in D : nodes[d].minSeq <= e.seq
  PROVE  Oldest(IF first = NoMatch THEN second
                ELSE IF d \in DOMAIN nodes /\ nodes[d].minSeq < first.seq
                        /\ second # NoMatch /\ second.seq < first.seq THEN second
                ELSE first, C \cup D)
  <1>1. \A e \in C \cup D : e.seq \in Nat /\ e # NoMatch
    BY EntryFacts, NoMatchSeq
  <1>2. CASE first = NoMatch
    <2>1. C = {}
      BY <1>1, <1>2 DEF Oldest
    <2> QED BY <1>2, <2>1 DEF Oldest
  <1>3. CASE first # NoMatch /\ D = {}
    <2>1. second = NoMatch
      BY <1>3 DEF Oldest
    <2> QED BY <1>3, <2>1 DEF Oldest
  <1>4. CASE first # NoMatch /\ D # {}
    <2>1. /\ first \in C /\ (\A e \in C : first.seq <= e.seq) /\ second \in D /\ (\A e \in D : second.seq <= e.seq)
          /\ d \in DOMAIN nodes
      BY <1>4 DEF Oldest
    <2>2. first.seq \in Nat /\ second.seq \in Nat /\ second # NoMatch /\ nodes[d].minSeq \in Nat
      BY <1>1, <2>1 DEF NodesTyped
    <2>3. CASE nodes[d].minSeq < first.seq /\ second.seq < first.seq
      <3>1. \A e \in C \cup D : second.seq <= e.seq
        BY <1>1, <2>1, <2>2, <2>3
      <3> QED BY <1>4, <2>1, <2>2, <2>3, <3>1 DEF Oldest
    <2>4. CASE ~(nodes[d].minSeq < first.seq /\ second.seq < first.seq)
      <3>1. \A e \in D : first.seq <= e.seq
        BY <1>1, <2>1, <2>2, <2>4
      <3>2. \A e \in C \cup D : first.seq <= e.seq
        BY <2>1, <3>1
      <3> QED BY <1>4, <2>1, <2>4, <3>2 DEF Oldest
    <2> QED BY <2>3, <2>4
  <1> QED BY <1>2, <1>3, <1>4

\* The nodes at a depth from which lvl segments of q are left, and a level of match.
LevelNodes(q, lvl) == {m \in DOMAIN nodes : Len(m) = Len(q) - lvl}
Correct(q, lvl, f) == DOMAIN f = LevelNodes(q, lvl) /\ \A n \in LevelNodes(q, lvl) : Oldest(f[n], Below(n, q))

LEMMA FirstLevel ==
  ASSUME NodesTyped, NodesOrdered, NEW q \in Seq(Segments), NEW below
  PROVE  Correct(q, 0, matchLevel(q, 0, below))
  <1>1. \A n \in LevelNodes(q, 0) : n \in DOMAIN nodes /\ Len(n) = Len(q)
    BY DEF LevelNodes
  <1>2. DOMAIN matchLevel(q, 0, below) = LevelNodes(q, 0)
    BY DEF matchLevel, LevelNodes
  <1>3. \A n \in LevelNodes(q, 0) : matchLevel(q, 0, below)[n] = IF nodes[n].routes = <<>> THEN NoMatch ELSE Head(nodes[n].routes)
    BY DEF matchLevel, LevelNodes
  <1>4. \A n \in LevelNodes(q, 0) : Oldest(IF nodes[n].routes = <<>> THEN NoMatch ELSE Head(nodes[n].routes), Below(n, q))
    BY <1>1, LastLevel
  <1> QED BY <1>2, <1>3, <1>4 DEF Correct

LEMMA NextLevel ==
  ASSUME NodesTyped, NodesOrdered, NEW q \in Seq(Segments), NEW lvl \in 1..Len(q), NEW below, Correct(q, lvl - 1, below)
  PROVE  Correct(q, lvl, matchLevel(q, lvl, below))
  <1> DEFINE Try(m) == IF m \in DOMAIN below THEN below[m] ELSE NoMatch
             Pair(n) == orderedRouteChildren(Append(n, q[Len(n) + 1]), Append(n, Param))
             Choice(n, c, d) == IF Try(c) = NoMatch THEN Try(d)
                ELSE IF d \in DOMAIN nodes /\ nodes[d].minSeq < Try(c).seq
                        /\ Try(d) # NoMatch /\ Try(d).seq < Try(c).seq THEN Try(d)
                ELSE Try(c)
  <1>1. DOMAIN matchLevel(q, lvl, below) = LevelNodes(q, lvl)
    BY DEF matchLevel, LevelNodes
  <1>2. \A n \in LevelNodes(q, lvl) : matchLevel(q, lvl, below)[n] = Choice(n, Pair(n)[1], Pair(n)[2])
    BY DEF matchLevel, LevelNodes
  <1>3. ASSUME NEW n \in LevelNodes(q, lvl) PROVE Oldest(Choice(n, Pair(n)[1], Pair(n)[2]), Below(n, q))
    <2>1. n \in DOMAIN nodes /\ Len(n) = Len(q) - lvl /\ Len(q) \in Nat /\ Len(n) < Len(q) /\ Len(n) + 1 = Len(q) - (lvl - 1)
          /\ Len(n) + 1 <= Len(q)
      BY DEF LevelNodes
    <2>2. PICK a : a = Append(n, q[Len(n) + 1])  OBVIOUS
    <2>3. PICK b : b = Append(n, Param)  OBVIOUS
    <2>4. /\ Below(a, q) \cup Below(b, q) = Below(n, q)
          /\ a \notin DOMAIN nodes => Below(a, q) = {}
          /\ b \notin DOMAIN nodes => Below(b, q) = {}
          /\ Len(a) = Len(n) + 1 /\ Len(b) = Len(n) + 1
          /\ \A m \in DOMAIN nodes : Len(m) <= Len(q) => \A e \in Below(m, q) : nodes[m].minSeq <= e.seq
      BY <2>1, <2>2, <2>3, Children2
    <2>5. ASSUME NEW m, m = a \/ m = b
          PROVE  /\ Oldest(Try(m), Below(m, q))
                 /\ m \notin DOMAIN nodes => Below(m, q) = {}
                 /\ m \in DOMAIN nodes => \A e \in Below(m, q) : nodes[m].minSeq <= e.seq
      <3>1. m \in DOMAIN below <=> m \in DOMAIN nodes
        BY <2>1, <2>4, <2>5 DEF Correct, LevelNodes
      <3>2. m \notin DOMAIN nodes => Below(m, q) = {}
        BY <2>4, <2>5
      <3>3. m \in DOMAIN nodes => \A e \in Below(m, q) : nodes[m].minSeq <= e.seq
        BY <2>1, <2>4, <2>5
      <3>4. CASE m \in DOMAIN nodes
        <4>1. m \in LevelNodes(q, lvl - 1)
          BY <3>1, <3>4 DEF Correct
        <4> QED BY <3>1, <3>2, <3>3, <3>4, <4>1 DEF Correct
      <3>5. CASE m \notin DOMAIN nodes
        BY <3>1, <3>2, <3>5 DEF Oldest
      <3> QED BY <3>2, <3>3, <3>4, <3>5
    <2>6. ASSUME NEW c, NEW d, (c = a /\ d = b) \/ (c = b /\ d = a) PROVE Oldest(Choice(n, c, d), Below(n, q))
      <3>1. Below(c, q) \cup Below(d, q) = Below(n, q)
        BY <2>4, <2>6
      <3>2. \A e \in Below(c, q) \cup Below(d, q) : InMatcher(e)
        BY DEF Below
      <3> HIDE DEF Try
      <3>3. Oldest(Choice(n, c, d), Below(c, q) \cup Below(d, q))
        <4>1. /\ Oldest(Try(c), Below(c, q)) /\ Oldest(Try(d), Below(d, q))
              /\ d \notin DOMAIN nodes => Below(d, q) = {}
              /\ d \in DOMAIN nodes => \A e \in Below(d, q) : nodes[d].minSeq <= e.seq
          BY <2>5, <2>6
        <4> QED BY <3>2, <4>1, OlderChild
      <3> QED BY <3>1, <3>3
    <2>7. (Pair(n)[1] = a /\ Pair(n)[2] = b) \/ (Pair(n)[1] = b /\ Pair(n)[2] = a)
      <3>1. orderedRouteChildren(a, b) = <<a, b>> \/ orderedRouteChildren(a, b) = <<b, a>>
        BY DEF orderedRouteChildren
      <3>2. Pair(n) = <<a, b>> \/ Pair(n) = <<b, a>>
        BY <2>2, <2>3, <3>1
      <3>3. PICK pr : pr = Pair(n)  OBVIOUS
      <3>4. pr = <<a, b>> \/ pr = <<b, a>>
        BY <3>2, <3>3
      <3>5. (pr[1] = a /\ pr[2] = b) \/ (pr[1] = b /\ pr[2] = a)
        BY <3>4
      <3> HIDE DEF Pair
      <3> QED BY <3>3, <3>5
    <2> HIDE DEF Choice, Pair
    <2> QED BY <2>6, <2>7
  <1> HIDE DEF Choice, Pair
  <1> QED BY <1>1, <1>2, <1>3 DEF Correct

\* The levels exist, and each is correct.
LEMMA Levels ==
  ASSUME NodesTyped, NodesOrdered, NEW q \in Seq(Segments)
  PROVE  LET Deep[lvl \in 0..Len(q)] == matchLevel(q, lvl, IF lvl = 0 THEN << >> ELSE Deep[lvl - 1])
         IN \A lvl \in 0..Len(q) : Correct(q, lvl, Deep[lvl])
  <1> DEFINE LevelsTo(g, m) == [lvl \in 0..m |-> matchLevel(q, lvl, IF lvl = 0 THEN << >> ELSE g[lvl - 1])]
             Deep[lvl \in 0..Len(q)] == matchLevel(q, lvl, IF lvl = 0 THEN << >> ELSE Deep[lvl - 1])
             T == {m \in 0..Len(q) : ~ \E g : g = LevelsTo(g, m)}
             U == {m \in 0..Len(q) : ~Correct(q, m, Deep[m])}
  <1>0. Len(q) \in Nat
    OBVIOUS
  <1>1. T = {}
    <2> SUFFICES ASSUME T # {} PROVE FALSE  OBVIOUS
    <2>1. PICK m \in T : \A j \in T : m <= j
      <3> HIDE DEF T
      <3>1. T \in SUBSET Nat
        BY <1>0 DEF T
      <3> QED BY <3>1, LeastNatural
    <2>2. m \in 0..Len(q) /\ ~ \E g : g = LevelsTo(g, m)
      OBVIOUS
    <2>3. m # 0
      <3> DEFINE g == [lvl \in 0..0 |-> matchLevel(q, 0, << >>)]
      <3>1. \A lvl \in 0..0 : lvl = 0
        OBVIOUS
      <3>2. g = LevelsTo(g, 0)
        BY <3>1
      <3> QED BY <2>2, <3>2
    <2>4. m - 1 \in 0..Len(q) /\ ~(m <= m - 1)
      BY <1>0, <2>2, <2>3
    <2>5. m - 1 \notin T
      <3> HIDE DEF T
      <3> QED BY <2>1, <2>4
    <2>6. PICK g : g = LevelsTo(g, m - 1)
      BY <2>4, <2>5
    <2>7. PICK last : last = matchLevel(q, m, g[m - 1])  OBVIOUS
    <2> DEFINE h == [lvl \in 0..m |-> IF lvl = m THEN last ELSE g[lvl]]
    <2>8. \A lvl \in 0..m : h[lvl] = matchLevel(q, lvl, IF lvl = 0 THEN << >> ELSE h[lvl - 1])
      <3> SUFFICES ASSUME NEW lvl \in 0..m PROVE h[lvl] = matchLevel(q, lvl, IF lvl = 0 THEN << >> ELSE h[lvl - 1])  OBVIOUS
      <3>1. CASE lvl = m
        <4>1. lvl # 0 /\ h[lvl - 1] = g[m - 1] /\ h[lvl] = last
          BY <2>2, <2>3, <3>1
        <4> QED BY <2>7, <3>1, <4>1
      <3>2. CASE lvl # m
        <4>1. lvl \in 0..(m - 1) /\ h[lvl] = g[lvl] /\ (lvl # 0 => h[lvl - 1] = g[lvl - 1])
          BY <2>2, <3>2
        <4>2. g[lvl] = matchLevel(q, lvl, IF lvl = 0 THEN << >> ELSE g[lvl - 1])
          BY <2>6, <4>1
        <4> QED BY <4>1, <4>2
      <3> QED BY <3>1, <3>2
    <2>9. h = LevelsTo(h, m)
      BY <2>8
    <2> HIDE DEF h
    <2> QED BY <2>2, <2>9
  <1>2. \E g : g = LevelsTo(g, Len(q))
    <2>1. Len(q) \in 0..Len(q)
      BY <1>0
    <2> QED BY <1>1, <2>1
  <1>3. Deep = LevelsTo(Deep, Len(q))
    BY <1>2
  <1> HIDE DEF Deep
  <1>4. \A lvl \in 0..Len(q) : Deep[lvl] = matchLevel(q, lvl, IF lvl = 0 THEN << >> ELSE Deep[lvl - 1])
    BY <1>3
  <1>5. U = {}
    <2> SUFFICES ASSUME U # {} PROVE FALSE  OBVIOUS
    <2>1. PICK m \in U : \A j \in U : m <= j
      <3> HIDE DEF U
      <3>1. U \in SUBSET Nat
        BY <1>0 DEF U
      <3> QED BY <3>1, LeastNatural
    <2>2. m \in 0..Len(q) /\ ~Correct(q, m, Deep[m])
      OBVIOUS
    <2>3. m # 0
      <3>1. 0 \in 0..Len(q)
        BY <1>0
      <3>2. Deep[0] = matchLevel(q, 0, << >>)
        BY <1>4, <3>1
      <3> QED BY <2>2, <3>2, FirstLevel
    <2>4. m - 1 \in 0..Len(q) /\ ~(m <= m - 1) /\ m \in 1..Len(q)
      BY <1>0, <2>2, <2>3
    <2>5. m - 1 \notin U
      <3> HIDE DEF U
      <3> QED BY <2>1, <2>4
    <2>6. Correct(q, m - 1, Deep[m - 1])
      BY <2>4, <2>5
    <2>7. Deep[m] = matchLevel(q, m, Deep[m - 1])
      BY <1>4, <2>2, <2>3
    <2> QED BY <2>2, <2>4, <2>6, <2>7, NextLevel
  <1>6. \A lvl \in 0..Len(q) : Correct(q, lvl, Deep[lvl])
    BY <1>5
  <1> QED BY <1>6 DEF Deep

\* Match finds the oldest route of the matcher that fits.
LEMMA MatchOldest ==
  ASSUME NodesTyped, NodesOrdered, NEW q \in Seq(Segments)
  PROVE  Oldest(Match(q), Below(<<>>, q))
  <1> DEFINE Deep[lvl \in 0..Len(q)] == matchLevel(q, lvl, IF lvl = 0 THEN << >> ELSE Deep[lvl - 1])
  <1>1. \A lvl \in 0..Len(q) : Correct(q, lvl, Deep[lvl])
    BY Levels
  <1>2. Match(q) = IF nodes = << >> THEN NoMatch ELSE Deep[Len(q)][<<>>]
    BY DEF Match
  <1> HIDE DEF Deep
  <1>3. CASE nodes = << >>
    <2>1. \A e : ~InMatcher(e)
      BY <1>3 DEF InMatcher
    <2>2. Below(<<>>, q) = {}
      BY <2>1 DEF Below
    <2> QED BY <1>2, <1>3, <2>2 DEF Oldest
  <1>4. CASE nodes # << >>
    <2>1. << >> \in DOMAIN nodes /\ Len(<< >>) = Len(q) - Len(q) /\ Len(q) \in 0..Len(q)
      BY <1>4 DEF NodesTyped
    <2>2. << >> \in LevelNodes(q, Len(q))
      BY <2>1 DEF LevelNodes
    <2> QED BY <1>1, <1>2, <1>4, <2>1, <2>2 DEF Correct
  <1> QED BY <1>3, <1>4

\* What fits a path: a route of exactly this path, or one with parameters in the matcher.
LEMMA FittingBelow ==
  ASSUME TablesInv, MatcherInv, NEW q \in Seq(Segments), mu = "none"
  PROVE  /\ \A e \in Below(<<>>, q) : e.path \in RegisteredPaths /\ Fits(e.path, q)
         /\ \A p \in RegisteredPaths : Fits(p, q) /\ p # q => \E e \in Below(<<>>, q) : e.path = p
  <1>1. ASSUME NEW e \in Below(<<>>, q) PROVE e.path \in RegisteredPaths /\ Fits(e.path, q)
    <2>1. InMatcher(e) /\ Len(e.path) = Len(q) /\ \A i \in (Len(<<>>) + 1)..Len(q) : e.path[i] = q[i] \/ e.path[i] \in Params
      BY DEF Below
    <2>2. e.path \in RegisteredPaths
      BY <2>1 DEF MatcherInv, NodesHold, TablesInv, Locked
    <2>3. DOMAIN q = (Len(<<>>) + 1)..Len(q)
      OBVIOUS
    <2> QED BY <2>1, <2>2, <2>3 DEF Fits
  <1>2. ASSUME NEW p \in RegisteredPaths, Fits(p, q), p # q PROVE \E e \in Below(<<>>, q) : e.path = p
    <2>1. p \in Seq(Segments) /\ Len(p) = Len(q) /\ DOMAIN q = 1..Len(q) /\ DOMAIN p = 1..Len(p)
          /\ \A i \in 1..Len(q) : p[i] = q[i] \/ p[i] \in Params
      <3>1. p \in Seq(Segments)
        <4>1. routes \in Seq(Paths)
          BY DEF TablesInv, RoutesTyped
        <4>2. p \in Paths
          BY <4>1 DEF RegisteredPaths
        <4> QED BY <4>2, RoutesAssumption
      <3>2. Len(p) = Len(q) /\ \A i \in DOMAIN q : p[i] = q[i] \/ p[i] \in Params
        BY <1>2 DEF Fits
      <3> QED BY <3>1, <3>2
    <2>2. isParameterizedRoute(p)
      <3>1. CASE \A i \in 1..Len(q) : p[i] = q[i]
        BY <1>2, <2>1, <3>1, SeqEqual
      <3>2. CASE \E i \in 1..Len(q) : p[i] # q[i]
        BY <2>1, <3>2 DEF isParameterizedRoute
      <3> QED BY <3>1, <3>2
    <2>3. PICK e : InMatcher(e) /\ e.path = p
      BY <2>2 DEF MatcherInv, NodesHold
    <2>4. e \in RouteEntry
      BY <2>3, EntryFacts DEF MatcherInv
    <2>5. Len(<<>>) = 0 /\ (\A i \in 1..Len(<<>>) : FALSE) /\ (Len(<<>>) + 1)..Len(q) = 1..Len(q)
      OBVIOUS
    <2>6. e \in Below(<<>>, q)
      BY <2>1, <2>3, <2>4, <2>5 DEF Below
    <2> QED BY <2>3, <2>6
  <1> QED BY <1>1, <1>2

LEMMA RoutesCorrect ==
  ASSUME TablesInv, MatcherInv
  PROVE  RoutesExact
  <1>1. FrozenStays
    BY DEF FrozenStays, TablesInv, FreezeInv, RoutesTyped
  <1>2. Range(routes) = RegisteredPaths /\ DOMAIN routes = 1..Len(routes)
    BY DEF Range, RegisteredPaths, TablesInv, RoutesTyped
  <1>3. TablesAgree
    <2>1. IsInjective(routes)
      BY <1>2 DEF IsInjective, TablesInv, RoutesDistinct
    <2> QED BY <1>2, <2>1 DEF TablesAgree, TablesInv, Locked
  <1>4. ASSUME NEW p \in RegisteredPaths PROVE Position(p) \in 1..Len(routes) /\ routes[Position(p)] = p
    BY <1>2 DEF Position, RegisteredPaths
  <1>5. ASSUME mu = "none", NEW q \in Queries, NEW fitting, fitting = {p \in Range(routes) : Fits(p, q)}
        PROVE  IF fitting = {} THEN matchRoute(q) = NoMatch.path
               ELSE matchRoute(q) \in fitting /\ (matchRoute(q) # q => \A p \in fitting : p # q /\ Position(matchRoute(q)) <= Position(p))
    <2>1. q \in Seq(Segments) /\ routeExact = RegisteredPaths
      BY <1>5, RoutesAssumption DEF TablesInv, Locked
    <2>2. CASE q \in routeExact
      <3>1. Fits(q, q)
        BY DEF Fits
      <3>2. matchRoute(q) = q /\ q \in fitting
        BY <1>2, <1>5, <2>1, <2>2, <3>1 DEF matchRoute
      <3> QED BY <3>2
    <2>3. CASE q \notin routeExact
      <3>1. matchRoute(q) = Match(q).path
        BY <2>3 DEF matchRoute
      <3>2. Oldest(Match(q), Below(<<>>, q))
        BY <2>1, MatchOldest DEF MatcherInv
      <3>3. /\ \A e \in Below(<<>>, q) : e.path \in fitting
            /\ \A p \in fitting : p # q /\ \E e \in Below(<<>>, q) : e.path = p
        BY <1>2, <1>5, <2>1, <2>3, FittingBelow
      <3>4. CASE Below(<<>>, q) = {}
        <4>1. fitting = {}
          BY <3>3, <3>4
        <4> QED BY <3>1, <3>2, <3>4, <4>1 DEF Oldest
      <3>5. CASE Below(<<>>, q) # {}
        <4>1. Match(q) \in Below(<<>>, q) /\ \A e \in Below(<<>>, q) : Match(q).seq <= e.seq
          BY <3>2, <3>5 DEF Oldest
        <4>2. matchRoute(q) \in fitting
          BY <3>1, <3>3, <4>1
        <4>3. ASSUME NEW p \in fitting PROVE Position(matchRoute(q)) <= Position(p)
          <5>1. PICK e \in Below(<<>>, q) : e.path = p
            BY <3>3
          <5>2. p \in RegisteredPaths /\ matchRoute(q) \in RegisteredPaths
            BY <1>2, <1>5, <4>2, <4>3
          <5>3. PICK i \in 1..Len(routes) : i = Position(matchRoute(q)) /\ routes[i] = matchRoute(q)
            BY <1>4, <5>2
          <5>4. PICK j \in 1..Len(routes) : j = Position(p) /\ routes[j] = p
            BY <1>4, <5>2
          <5>5. InMatcher(Match(q)) /\ InMatcher(e) /\ Match(q).seq <= e.seq /\ Match(q).path = routes[i] /\ e.path = routes[j]
            BY <3>1, <4>1, <5>1, <5>3, <5>4 DEF Below
          <5>6. i <= j
            BY <5>5 DEF MatcherInv, NodesHold
          <5> QED BY <5>3, <5>4, <5>6
        <4> QED BY <3>3, <4>2, <4>3
      <3> QED BY <3>4, <3>5
    <2> QED BY <2>2, <2>3
  <1>6. MatchesFirst
    BY <1>5 DEF MatchesFirst
  <1> QED BY <1>1, <1>3, <1>6 DEF RoutesExact

\* A request is given the route registered with exactly its path, or else the first one
\* with parameters that fits, whatever the order of registrations and for every set of
\* paths; the tables agree between registrations, and no route is added after the freeze.
THEOREM RoutesExactAlways == Spec => []RoutesExact
  <1>1. Init => TablesInv /\ MatcherInv
    BY TablesStart, MatcherStarts DEF Init
  <1>2. TablesInv /\ MatcherInv /\ [Next]_vars => (TablesInv /\ MatcherInv)'
    <2> SUFFICES ASSUME TablesInv, MatcherInv, [Next]_vars PROVE (TablesInv /\ MatcherInv)'  OBVIOUS
    <2>1. [RoutesNext]_routeVars
      BY DEF Next, vars
    <2> QED BY <2>1, TablesStep, MatcherStep
  <1>3. TablesInv /\ MatcherInv => RoutesExact
    BY RoutesCorrect
  <1> QED BY <1>1, <1>2, <1>3, PTL DEF Spec

-----------------------------------------------------------------------------
(* httpx: the policies around a handler. *)

Codes == {0, 304, 400, 404, 412, 500, 504}
Results ==
  [out : BOOLEAN, type : {"unset", "own", "default"}, err : {"nil", "plain", "deadline", "httpx", "status"}, code : Codes]
VisitRecords ==
  [at : {"down", "up", "answered", "dropped"}, depth : Nat, names : {0, 1}, expired : SUBSET Nat, result : Results,
   wrote : Nat, raced : BOOLEAN, checked : BOOLEAN, status : Codes \cup {200}]

HandlerTyped ==
  /\ route \in [method : {"GET", "PUT"}, recover : BOOLEAN, policies : Seq(Policies)]
  /\ resource \in Nat \ {0}
  /\ visit \in [Visits -> VisitRecords]

\* A deadline runs only in a timeout policy the request is inside of, and whoever has left
\* that policy carries its 504; nothing else makes a 504.
Deadlines(f) ==
  /\ f.at = "down" => \A e \in f.expired : e <= f.depth
  /\ f.at \in {"up", "answered"} =>
       \A e \in f.expired : 0 < e /\ (e > f.depth => f.result.err = "status" /\ f.result.code = 504)
  /\ \A e \in f.expired : 0 < e
  /\ \A e \in f.expired : route.policies[e] = "timeout"
  /\ f.result.err = "deadline" => Uses("conditional") \/ Uses("user")
  /\ f.result.code = 504 => Uses("timeout") /\ (f.expired # {} \/ Uses("conditional") \/ Uses("user"))

\* Whoever is past a conditional policy was checked against the version that is still
\* there, unless somebody wrote since.
Conditions(f) ==
  /\ f.at = "down" => f.wrote = 0
  /\ f.wrote > 0 => route.method = "PUT"
  /\ f.at = "down" /\ f.names > 0 /\ (\E i \in 1..f.depth : route.policies[i] = "conditional") => f.checked = TRUE
  /\ f.at = "down" /\ f.checked = TRUE /\ route.method = "PUT" => f.raced = TRUE \/ resource = f.names
  /\ f.wrote > 0 /\ f.names > 0 /\ Uses("conditional") => f.checked = TRUE /\ (f.wrote = f.names \/ f.raced = TRUE)

\* What a result says about what was written, and the type of a page on its way up.
Outcome(f) ==
  /\ f.result.code \in {304, 400, 412} => f.wrote = 0
  /\ f.at \in {"up", "answered"} /\ f.result.err = "nil" =>
       /\ f.result.out = TRUE
       /\ route.method = "PUT" => f.wrote > 0
       /\ (\E i \in 1..Len(route.policies) : f.depth < i /\ route.policies[i] = "header") => f.result.type # "unset"
  /\ f.at = "down" => f.result.code = 0
  /\ f.at = "dropped" => route.recover = FALSE \/ (Uses("user") /\ f.wrote = 0)

Told200(f) ==
  /\ f.at # "answered" => f.status = 0
  /\ f.at = "answered" =>
       /\ f.depth = 0
       /\ f.status = IF f.result.err = "nil" THEN 200 ELSE IF f.result.err = "status" THEN f.result.code ELSE 500

VisitInv(f) == f.depth <= Len(route.policies) /\ Deadlines(f) /\ Conditions(f) /\ Outcome(f) /\ Told200(f)

HandlerInv == HandlerTyped /\ \A v \in Visits : VisitInv(visit[v])

LEMMA PoliciesUsed ==
  ASSUME HandlerTyped
  PROVE  /\ Len(route.policies) \in Nat /\ DOMAIN route.policies = 1..Len(route.policies)
         /\ \A p : Uses(p) <=> \E i \in 1..Len(route.policies) : route.policies[i] = p
         /\ \A i \in 1..Len(route.policies) : route.policies[i] \in Policies
  BY DEF HandlerTyped, Uses

LEMMA CodesGiven == {0, 304, 400, 404, 412, 500, 504} \subseteq Codes /\ Codes \subseteq Nat /\ 200 \notin Codes
  BY DEF Codes

LEMMA NoVisitGiven ==
  /\ NoResult \in Results /\ NoResult.err = "nil" /\ NoResult.code = 0
  /\ \A n \in {0, 1} :
       LET f == [NoVisit EXCEPT !.names = n] IN
       /\ f \in VisitRecords /\ f.names = n
       /\ f.at = "down" /\ f.depth = 0 /\ f.expired = {} /\ f.wrote = 0 /\ f.status = 0 /\ f.result = NoResult
       /\ f.checked = FALSE
  /\ NoVisit = [NoVisit EXCEPT !.names = 0]
  <1>1. NoResult \in Results
    BY CodesGiven DEF NoResult, Results
  <1>2. NoResult.err = "nil" /\ NoResult.code = 0
    BY DEF NoResult
  <1>3. NoVisit \in VisitRecords
    <2> HIDE DEF NoResult
    <2> QED BY <1>1, CodesGiven DEF NoVisit, VisitRecords
  <1>4. /\ NoVisit.at = "down" /\ NoVisit.depth = 0 /\ NoVisit.expired = {} /\ NoVisit.wrote = 0 /\ NoVisit.status = 0
        /\ NoVisit.result = NoResult /\ NoVisit.checked = FALSE /\ NoVisit.names = 0
    BY DEF NoVisit
  <1>5. ASSUME NEW n \in {0, 1}, NEW f, f = [NoVisit EXCEPT !.names = n]
        PROVE  /\ f \in VisitRecords /\ f.names = n
               /\ f.at = "down" /\ f.depth = 0 /\ f.expired = {} /\ f.wrote = 0 /\ f.status = 0 /\ f.result = NoResult
               /\ f.checked = FALSE
    <2>1. f \in VisitRecords
      BY <1>3, <1>5 DEF VisitRecords
    <2>2. f.names = n /\ f.at = NoVisit.at /\ f.depth = NoVisit.depth /\ f.expired = NoVisit.expired /\ f.wrote = NoVisit.wrote
          /\ f.status = NoVisit.status /\ f.result = NoVisit.result /\ f.checked = NoVisit.checked
      BY <1>3, <1>5 DEF VisitRecords
    <2> QED BY <2>1, <2>2, <1>4
  <1>6. NoVisit = [NoVisit EXCEPT !.names = 0]
    BY <1>3, <1>4 DEF VisitRecords
  <1> QED BY <1>1, <1>2, <1>5, <1>6

LEMMA HandlerStarts == (HandlerInit \/ SomeRoute) => HandlerInv
  <1>1. ASSUME HandlerInit \/ SomeRoute PROVE HandlerTyped
    <2>1. NoVisit \in VisitRecords /\ \A n \in {0, 1} : [NoVisit EXCEPT !.names = n] \in VisitRecords
      BY NoVisitGiven
    <2>2. CASE HandlerInit
      <3>1. UNION {[1..n -> Policies] : n \in 0..MaxPolicies} \subseteq Seq(Policies)
        BY HandlerAssumption
      <3>2. route \in [method : {"GET", "PUT"}, recover : BOOLEAN, policies : Seq(Policies)]
        BY <2>2, <3>1 DEF HandlerInit
      <3>3. visit \in [Visits -> VisitRecords]
        BY <2>1, <2>2 DEF HandlerInit
      <3> QED BY <2>2, <3>2, <3>3 DEF HandlerInit, HandlerTyped
    <2>3. CASE SomeRoute
      BY <2>1, <2>3 DEF SomeRoute, HandlerTyped
    <2> QED BY <1>1, <2>2, <2>3
  <1>2. ASSUME HandlerInit \/ SomeRoute, NEW v \in Visits PROVE VisitInv(visit[v])
    <2>1. PICK n \in {0, 1} : visit[v] = [NoVisit EXCEPT !.names = n]
      <3>1. NoVisit = [NoVisit EXCEPT !.names = 0]
        BY NoVisitGiven
      <3>2. CASE HandlerInit
        BY <3>2 DEF HandlerInit
      <3>3. CASE SomeRoute
        BY <3>1, <3>3 DEF SomeRoute
      <3> QED BY <1>2, <3>2, <3>3
    <2>2. PICK f : f = visit[v]  OBVIOUS
    <2>3. f.at = "down" /\ f.depth = 0 /\ f.expired = {} /\ f.wrote = 0 /\ f.status = 0 /\ f.result = NoResult
          /\ f.checked = FALSE
      BY <2>1, <2>2, NoVisitGiven
    <2>4. f.result.code = 0 /\ f.result.err = "nil"
      BY <2>3, NoVisitGiven
    <2>5. Len(route.policies) \in Nat
      BY <1>1, <1>2 DEF HandlerTyped
    <2>6. Deadlines(f)
      BY <2>3, <2>4 DEF Deadlines
    <2>7. Conditions(f)
      BY <2>3 DEF Conditions
    <2>8. Outcome(f) /\ Told200(f)
      BY <2>3, <2>4 DEF Outcome, Told200
    <2> QED BY <2>2, <2>3, <2>5, <2>6, <2>7, <2>8 DEF VisitInv
  <1> QED BY <1>1, <1>2 DEF HandlerInv

\* A step of one request that changes no resource.
LEMMA VisitMoves ==
  ASSUME HandlerInv, NEW v \in Visits, NEW q \in VisitRecords, VisitInv(q), Now(v, q), resource' = resource
  PROVE  HandlerInv'
  <1>1. route' = route /\ visit' = [visit EXCEPT ![v] = q] /\ HandlerTyped
    BY DEF Now, HandlerInv
  <1>2. HandlerTyped'
    BY <1>1 DEF HandlerTyped
  <1>3. ASSUME NEW f, VisitInv(f) PROVE VisitInv(f)'
    <2>1. Deadlines(f)'
      BY <1>1, <1>3 DEF VisitInv, Deadlines, Uses
    <2>2. Conditions(f)'
      BY <1>1, <1>3 DEF VisitInv, Conditions, Uses
    <2>3. Outcome(f)'
      BY <1>1, <1>3 DEF VisitInv, Outcome, Uses
    <2>4. Told200(f)'
      BY <1>1, <1>3 DEF VisitInv, Told200
    <2> QED BY <1>1, <1>3, <2>1, <2>2, <2>3, <2>4 DEF VisitInv
  <1>4. \A u \in Visits : visit'[u] = IF u = v THEN q ELSE visit[u]
    BY <1>1 DEF HandlerTyped
  <1>5. ASSUME NEW u \in Visits PROVE VisitInv(visit[u])'
    <2>1. PICK f : f = visit'[u]  OBVIOUS
    <2>2. VisitInv(f)
      BY <1>4, <2>1 DEF HandlerInv
    <2>3. VisitInv(f)'
      BY <2>2, <1>3
    <2> QED BY <2>1, <2>3
  <1> QED BY <1>2, <1>5 DEF HandlerInv

\* A result on its way up, when nothing was written: an error of a policy.
LEMMA PolicyRefuses ==
  ASSUME HandlerInv, NEW v \in Visits, visit[v].at = "down", NEW res \in Results,
         res.err # "nil", res.code # 504, res.err = "deadline" => Uses("conditional") \/ Uses("user"),
         Returns(v, visit[v].depth, res)
  PROVE  HandlerInv'
  <1>1. PICK f \in VisitRecords : f = visit[v]
    BY DEF HandlerInv, HandlerTyped
  <1>2. VisitInv(f) /\ f.at = "down" /\ resource' = resource
    BY <1>1 DEF HandlerInv, Returns
  <1>5. f.depth \in Nat /\ f.expired \subseteq Nat
    BY DEF VisitRecords
  <1>14. PICK d \in Nat : d = f.depth
    BY <1>5
  <1>3. PICK q : q = [f EXCEPT !.at = "up", !.depth = d, !.result = res]  OBVIOUS
  <1>4. Now(v, q)
    BY <1>1, <1>3, <1>14 DEF Returns
  <1>6. /\ q \in VisitRecords
        /\ q.at = "up" /\ q.depth = f.depth /\ q.result = res /\ q.expired = f.expired /\ q.wrote = f.wrote
        /\ q.names = f.names /\ q.raced = f.raced /\ q.checked = f.checked /\ q.status = f.status
    <2>1. /\ q \in VisitRecords
          /\ q.at = "up" /\ q.depth = d /\ q.result = res /\ q.expired = f.expired /\ q.wrote = f.wrote
          /\ q.names = f.names /\ q.raced = f.raced /\ q.checked = f.checked /\ q.status = f.status
      <3>1. q \in VisitRecords
        BY ZenonT(60), <1>3 DEF VisitRecords
      <3> QED BY <1>3, <3>1 DEF VisitRecords
    <2> QED BY <1>14, <2>1
  <1>7. f.wrote = 0 /\ \A e \in f.expired : e <= f.depth /\ 0 < e
    BY <1>2 DEF VisitInv, Deadlines, Conditions
  <1>9. Deadlines(q)
    <2>1. \A e \in q.expired : 0 < e /\ ~(e > q.depth)
      BY <1>5, <1>6, <1>7
    <2>2. \A e \in q.expired : route.policies[e] = "timeout"
      BY <1>2, <1>6 DEF VisitInv, Deadlines
    <2> QED BY <1>6, <2>1, <2>2 DEF Deadlines
  <1>10. Conditions(q)
    BY <1>6, <1>7 DEF Conditions
  <1>11. Outcome(q)
    BY <1>6, <1>7 DEF Outcome
  <1>12. Told200(q)
    BY <1>2, <1>6 DEF VisitInv, Told200
  <1>13. VisitInv(q)
    BY <1>2, <1>6, <1>9, <1>10, <1>11, <1>12 DEF VisitInv
  <1> QED BY <1>2, <1>4, <1>6, <1>13, VisitMoves

\* The results that are not pages.
LEMMA ErrResults ==
  /\ \A e \in UserErrors : e \in Results /\ e.err # "nil" /\ e.code # 504 /\ e.code \notin {304, 400, 412}
  /\ \A c \in Codes : Err("status", c) \in Results /\ Err("status", c).err = "status" /\ Err("status", c).code = c
  /\ \A t \in {"unset", "own"} : Page(t) \in Results /\ Page(t).err = "nil" /\ Page(t).out = TRUE /\ Page(t).code = 0
  <1>1. ASSUME NEW r \in {"plain", "deadline", "httpx", "status"}, NEW c \in Codes
        PROVE  Err(r, c) \in Results /\ Err(r, c).err = r /\ Err(r, c).code = c
    <2>1. Err(r, c) \in Results
      BY DEF Err, Results
    <2> QED BY <2>1 DEF Err
  <1>2. ASSUME NEW t \in {"unset", "own"}
        PROVE  Page(t) \in Results /\ Page(t).err = "nil" /\ Page(t).out = TRUE /\ Page(t).code = 0
    <2>1. Page(t) \in Results
      BY CodesGiven DEF Page, Results
    <2> QED BY <2>1 DEF Page
  <1>3. UserErrors = {Err("plain", 0), Err("deadline", 0), Err("httpx", 404), Err("status", 404)}
    BY DEF UserErrors, Unknown
  <1>4. ASSUME NEW e \in UserErrors PROVE e \in Results /\ e.err # "nil" /\ e.code # 504 /\ e.code \notin {304, 400, 412}
    <2>1. PICK r \in {"plain", "deadline", "httpx", "status"}, c \in {0, 404} : e = Err(r, c)
      BY <1>3
    <2> QED BY <1>1, <2>1, CodesGiven
  <1> QED BY <1>1, <1>2, <1>4

\* One policy further down: past a conditional one only with the check made.
LEMMA PolicyDescends ==
  ASSUME HandlerInv, NEW v \in Visits, visit[v].at = "down", visit[v].depth < Len(route.policies),
         NEW g \in VisitRecords, Descend(v, g),
         \/ g = visit[v] /\ (route.policies[visit[v].depth + 1] = "conditional" => visit[v].names = 0)
         \/ /\ g = [visit[v] EXCEPT !.checked = TRUE, !.raced = FALSE]
            /\ route.method = "PUT" => resource = visit[v].names
  PROVE  HandlerInv'
  <1>1. PICK f \in VisitRecords : f = visit[v]
    BY DEF HandlerInv, HandlerTyped
  <1>2. VisitInv(f) /\ f.at = "down" /\ f.depth < Len(route.policies) /\ Len(route.policies) \in Nat
    BY <1>1, PoliciesUsed DEF HandlerInv
  <1>3. PICK q : q = [g EXCEPT !.depth = @ + 1]  OBVIOUS
  <1>4. Now(v, q) /\ resource' = resource
    BY <1>3 DEF Descend
  <1>5. q \in VisitRecords
    BY <1>3 DEF VisitRecords
  <1>6. q.at = g.at /\ q.depth = g.depth + 1 /\ q.result = g.result /\ q.expired = g.expired /\ q.wrote = g.wrote
        /\ q.names = g.names /\ q.raced = g.raced /\ q.checked = g.checked /\ q.status = g.status
    BY <1>3 DEF VisitRecords
  <1>7. g.at = f.at /\ g.depth = f.depth /\ g.result = f.result /\ g.expired = f.expired /\ g.wrote = f.wrote
        /\ g.names = f.names /\ g.status = f.status
    <2>1. CASE g = [f EXCEPT !.checked = TRUE, !.raced = FALSE]
      BY <2>1 DEF VisitRecords
    <2> QED BY <1>1, <2>1
  <1>8. f.depth \in Nat /\ f.expired \subseteq Nat
    BY DEF VisitRecords
  <1>9. Deadlines(q)
    <2>1. \A e \in f.expired : e <= f.depth + 1
      BY <1>2, <1>8 DEF VisitInv, Deadlines
    <2> QED BY <1>2, <1>6, <1>7, <2>1 DEF VisitInv, Deadlines
  <1>10. Conditions(q)
    <2>0. q.at = "down" /\ q.depth = f.depth + 1 /\ q.wrote = 0 /\ f.wrote = 0 /\ q.names = f.names
      BY <1>2, <1>6, <1>7 DEF VisitInv, Conditions
    <2>1. CASE g = f /\ (route.policies[f.depth + 1] = "conditional" => f.names = 0)
      <3>1. q.checked = f.checked /\ q.raced = f.raced
        BY <1>6, <2>1
      <3>2. \A i \in 1..q.depth : i \in 1..f.depth \/ i = f.depth + 1
        BY <1>8, <2>0
      <3>3. q.names > 0 /\ (\E i \in 1..q.depth : route.policies[i] = "conditional") => q.checked = TRUE
        BY <1>2, <2>0, <2>1, <3>1, <3>2 DEF VisitInv, Conditions
      <3>4. q.checked = TRUE /\ route.method = "PUT" => q.raced = TRUE \/ resource = q.names
        BY <1>2, <2>0, <3>1 DEF VisitInv, Conditions
      <3> QED BY <2>0, <3>3, <3>4 DEF Conditions
    <2>2. CASE g = [f EXCEPT !.checked = TRUE, !.raced = FALSE] /\ (route.method = "PUT" => resource = f.names)
      <3>1. q.checked = TRUE
        BY <1>6, <2>2 DEF VisitRecords
      <3> QED BY <2>0, <2>2, <3>1 DEF Conditions
    <2> QED BY <1>1, <2>1, <2>2
  <1>11. Outcome(q)
    BY <1>2, <1>6, <1>7 DEF VisitInv, Outcome, Conditions
  <1>12. Told200(q)
    BY <1>2, <1>6, <1>7 DEF VisitInv, Told200
  <1>13. VisitInv(q)
    BY <1>2, <1>6, <1>7, <1>8, <1>9, <1>10, <1>11, <1>12 DEF VisitInv
  <1> QED BY <1>4, <1>5, <1>13, VisitMoves

LEMMA EntersPolicy ==
  ASSUME HandlerInv, NEW v \in Visits, EnterPolicy(v)
  PROVE  HandlerInv'
  <1>1. /\ visit[v].at = "down" /\ visit[v].depth < Len(route.policies) /\ visit[v] \in VisitRecords
        /\ HandlerTyped
    BY DEF EnterPolicy, HandlerInv, HandlerTyped
  <1>2. visit[v].depth \in Nat /\ Len(route.policies) \in Nat /\ visit[v].depth + 1 \in 1..Len(route.policies)
        /\ visit[v].names \in {0, 1}
    BY <1>1, PoliciesUsed DEF VisitRecords
  <1>3. PICK p : p = route.policies[visit[v].depth + 1]  OBVIOUS
  <1>4. Uses(p)
    BY <1>1, <1>2, <1>3, PoliciesUsed
  <1>5. CASE p = "conditional"
    <2>1. Conditional(v)
      BY <1>3, <1>5 DEF EnterPolicy, PolicyAt
    <2>2. CASE visit[v].names = 0
      <3>1. Descend(v, visit[v])
        BY <2>1, <2>2 DEF Conditional
      <3> QED BY <1>1, <2>2, <3>1, PolicyDescends
    <2>3. CASE visit[v].names # 0
      <3>1. ASSUME NEW e \in UserErrors, Returns(v, visit[v].depth, e) PROVE HandlerInv'
        BY <1>1, <1>4, <1>5, <3>1, ErrResults, PolicyRefuses
      <3>2. CASE PreconditionFailed(v) /\ Returns(v, visit[v].depth, Err("status", IF route.method = "GET" THEN 304 ELSE 412))
        <4>1. PICK c \in {304, 412} : c = IF route.method = "GET" THEN 304 ELSE 412  OBVIOUS
        <4>2. Returns(v, visit[v].depth, Err("status", c))
          BY <3>2, <4>1
        <4>3. c \in Codes /\ c # 504
          BY <4>1 DEF Codes
        <4> QED BY <1>1, <4>2, <4>3, ErrResults, PolicyRefuses
      <3>3. CASE ~PreconditionFailed(v) /\ Descend(v, [visit[v] EXCEPT !.checked = TRUE, !.raced = FALSE])
        <4>1. PICK g : g = [visit[v] EXCEPT !.checked = TRUE, !.raced = FALSE]  OBVIOUS
        <4>2. g \in VisitRecords
          BY <1>1, <4>1 DEF VisitRecords
        <4>3. route.method = "PUT" => resource = visit[v].names
          BY <3>3 DEF PreconditionFailed
        <4>4. Descend(v, g)
          BY <3>3, <4>1
        <4> QED BY <1>1, <4>1, <4>2, <4>3, <4>4, PolicyDescends
      <3> QED BY <2>1, <2>3, <3>1, <3>2, <3>3 DEF Conditional
    <2> QED BY <2>2, <2>3
  <1>6. CASE p = "user"
    <2>1. UserPolicy(v)
      BY <1>3, <1>6 DEF EnterPolicy, PolicyAt
    <2>2. CASE Descend(v, visit[v])
      BY <1>1, <1>3, <1>6, <2>2, PolicyDescends
    <2>3. ASSUME NEW e \in UserErrors, Returns(v, visit[v].depth, e) PROVE HandlerInv'
      BY <1>1, <1>4, <1>6, <2>3, ErrResults, PolicyRefuses
    <2>4. CASE Unwinds(v)
      <3>1. PICK q : q = [visit[v] EXCEPT !.at = "dropped"]  OBVIOUS
      <3>2. Now(v, q) /\ resource' = resource
        BY <2>4, <3>1 DEF Unwinds
      <3>3. q \in VisitRecords
        BY <1>1, <3>1 DEF VisitRecords
      <3>4. PICK f \in VisitRecords : f = visit[v]
        BY <1>1
      <3>5. q.at = "dropped" /\ q.depth = f.depth /\ q.result = f.result /\ q.expired = f.expired /\ q.wrote = f.wrote
            /\ q.names = f.names /\ q.raced = f.raced /\ q.checked = f.checked /\ q.status = f.status
        BY <3>1, <3>4 DEF VisitRecords
      <3>6. VisitInv(f) /\ f.at = "down"
        BY <1>1, <3>4 DEF HandlerInv
      <3>7. VisitInv(q)
        BY <1>4, <1>6, <3>5, <3>6 DEF VisitInv, Deadlines, Conditions, Outcome, Told200
      <3> QED BY <3>2, <3>3, <3>7, VisitMoves
    <2> QED BY <2>1, <2>2, <2>3, <2>4 DEF UserPolicy
  <1>7. CASE p # "conditional" /\ p # "user"
    <2>1. Descend(v, visit[v])
      BY <1>3, <1>7 DEF EnterPolicy, PolicyAt
    <2> QED BY <1>1, <1>3, <1>7, <2>1, PolicyDescends
  <1> QED BY <1>5, <1>6, <1>7

\* A deadline passes.
LEMMA Expires ==
  ASSUME HandlerInv, NEW v \in Visits, Expire(v)
  PROVE  HandlerInv'
  <1>1. PICK f \in VisitRecords : f = visit[v]
    BY DEF HandlerInv, HandlerTyped
  <1>2. VisitInv(f) /\ f.at \in {"down", "up"} /\ resource' = resource /\ HandlerTyped
    BY <1>1 DEF HandlerInv, Expire
  <1>3. f.depth \in Nat /\ f.expired \subseteq Nat /\ f.depth <= Len(route.policies)
    BY <1>2 DEF VisitRecords, VisitInv
  <1>4. PICK d \in 1..f.depth : PolicyAt(d) = "timeout" /\ Now(v, [f EXCEPT !.expired = @ \cup {d}])
    BY <1>1 DEF Expire
  <1>5. PICK q : q = [f EXCEPT !.expired = @ \cup {d}]  OBVIOUS
  <1>6. q \in VisitRecords
    BY <1>3, <1>4, <1>5 DEF VisitRecords
  <1>7. q.at = f.at /\ q.depth = f.depth /\ q.result = f.result /\ q.expired = f.expired \cup {d} /\ q.wrote = f.wrote
        /\ q.names = f.names /\ q.raced = f.raced /\ q.checked = f.checked /\ q.status = f.status
    BY <1>5 DEF VisitRecords
  <1>8. 0 < d /\ d <= f.depth /\ d \in 1..Len(route.policies)
    BY <1>2, <1>3, <1>4, PoliciesUsed
  <1>9. Deadlines(q)
    <2>1. f.at = "down" => \A e \in q.expired : e <= f.depth
      BY <1>2, <1>7, <1>8 DEF VisitInv, Deadlines
    <2>2. \A e \in q.expired : e = d \/ e \in f.expired
      BY <1>7
    <2>3. ~(d > f.depth)
      BY <1>3, <1>8
    <2>4. \A e \in q.expired : 0 < e
      BY <1>2, <1>8, <2>2 DEF VisitInv, Deadlines
    <2>5. \A e \in f.expired : f.at = "up" => (e > f.depth => f.result.err = "status" /\ f.result.code = 504)
      BY <1>2 DEF VisitInv, Deadlines
    <2>6. f.result.err = "deadline" => Uses("conditional") \/ Uses("user")
      BY <1>2 DEF VisitInv, Deadlines
    <2>7. f.result.code = 504 => Uses("timeout") /\ q.expired # {}
      BY <1>2, <1>7 DEF VisitInv, Deadlines
    <2>8. \A e \in q.expired : route.policies[e] = "timeout"
      BY <1>2, <1>4, <2>2 DEF VisitInv, Deadlines, PolicyAt
    <2> QED BY <1>2, <1>7, <2>1, <2>2, <2>3, <2>4, <2>5, <2>6, <2>7, <2>8 DEF Deadlines
  <1>10. Conditions(q)
    BY <1>2, <1>7 DEF VisitInv, Conditions
  <1>11. Outcome(q)
    BY <1>2, <1>7 DEF VisitInv, Outcome
  <1>12. Told200(q)
    BY <1>2, <1>7 DEF VisitInv, Told200
  <1>13. VisitInv(q)
    BY <1>2, <1>7, <1>9, <1>10, <1>11, <1>12 DEF VisitInv
  <1>14. Now(v, q)
    BY <1>4, <1>5
  <1> QED BY <1>2, <1>6, <1>13, <1>14, VisitMoves

\* The input is refused: 400.
LEMMA Validates ==
  ASSUME HandlerInv, NEW v \in Visits, validateTypedInput(v)
  PROVE  HandlerInv'
  <1>1. PICK f \in VisitRecords : f = visit[v]
    BY DEF HandlerInv, HandlerTyped
  <1>2. VisitInv(f) /\ f.at = "down" /\ resource' = resource
    BY <1>1 DEF HandlerInv, validateTypedInput
  <1>3. PICK res : res = Err("status", 400)  OBVIOUS
  <1>4. res \in Results /\ res.err = "status" /\ res.code = 400
    BY <1>3, ErrResults, CodesGiven
  <1>5. [f EXCEPT !.at = "up", !.result = res] = [f EXCEPT !.at = "up", !.depth = f.depth, !.result = res]
    BY DEF VisitRecords
  <1>6. Returns(v, visit[v].depth, res)
    BY <1>1, <1>2, <1>3, <1>5 DEF validateTypedInput, Returns
  <1> QED BY <1>1, <1>2, <1>4, <1>6, PolicyRefuses

\* Not a code that says the handler did not run, or not in time.
HandlerCode(c) == c \notin {304, 400, 412, 504}

\* The handler has ended, one way or the other.
LEMMA Handled ==
  ASSUME HandlerInv, NEW v \in Visits, NEW wrote \in BOOLEAN, NEW then \in VisitRecords, Handle(v, wrote, then),
         /\ then.depth = visit[v].depth /\ then.names = visit[v].names /\ then.expired = visit[v].expired
         /\ then.checked = visit[v].checked /\ then.raced = visit[v].raced /\ then.status = visit[v].status,
         \/ then.at = "dropped" /\ then.result = visit[v].result /\ route.recover = FALSE
         \/ then.at = "up" /\ then.result.err = "status" /\ HandlerCode(then.result.code)
         \/ /\ then.at = "up" /\ then.result.err = "nil" /\ then.result.out = TRUE /\ then.result.code = 0
            /\ route.method = "PUT" => wrote
  PROVE  HandlerInv'
  <1>1. PICK f \in VisitRecords : f = visit[v]
    BY DEF HandlerInv, HandlerTyped
  <1>2. VisitInv(f) /\ f.at = "down" /\ HandlerTyped /\ route' = route /\ f.depth = Len(route.policies)
    BY <1>1 DEF HandlerInv, Handle
  <1>3. /\ f.depth \in Nat /\ f.expired \subseteq Nat /\ resource \in Nat \ {0} /\ Len(route.policies) \in Nat
        /\ f.names \in {0, 1}
    BY <1>2, PoliciesUsed DEF VisitRecords, HandlerTyped
  <1>4. wrote => route.method = "PUT"
    BY DEF Handle
  <1>5. resource' = (IF wrote THEN resource + 1 ELSE resource) /\ resource' \in Nat \ {0}
    BY <1>3 DEF Handle
  <1>6. PICK w \in Nat : w = IF wrote THEN resource ELSE 0
    BY <1>3
  <1>7. PICK q : q = [then EXCEPT !.wrote = w]  OBVIOUS
  <1>8. visit' = [u \in Visits |-> IF u = v THEN q ELSE [visit[u] EXCEPT !.raced = @ \/ wrote]]
    BY <1>6, <1>7 DEF Handle
  <1>9. q \in VisitRecords
    BY <1>7 DEF VisitRecords
  <1>10. q.at = then.at /\ q.depth = then.depth /\ q.result = then.result /\ q.expired = then.expired /\ q.wrote = w
         /\ q.names = then.names /\ q.raced = then.raced /\ q.checked = then.checked /\ q.status = then.status
    BY <1>7 DEF VisitRecords
  <1>11. VisitInv(q)
    <2>1. q.depth = f.depth /\ q.names = f.names /\ q.expired = f.expired
          /\ q.checked = f.checked /\ q.raced = f.raced /\ q.status = f.status /\ q.at \in {"up", "dropped"}
      BY <1>1, <1>10
    <2>2. \A e \in f.expired : e <= f.depth /\ 0 < e
      BY <1>2 DEF VisitInv, Deadlines
    <2>3. \A e \in f.expired : ~(e > f.depth) /\ 0 < e
      BY <1>3, <2>2
    <2>4. (q.result.code # 504 /\ q.result.err # "deadline") \/ q.result = f.result
      BY <1>1, <1>10 DEF HandlerCode
    <2>5. Deadlines(q)
      BY <1>2, <2>1, <2>3, <2>4 DEF VisitInv, Deadlines
    <2>6. Uses("conditional") /\ f.names > 0 => f.checked = TRUE
      BY <1>2, PoliciesUsed DEF VisitInv, Conditions
    <2>7. wrote /\ f.checked = TRUE => f.raced = TRUE \/ resource = f.names
      BY <1>2, <1>4 DEF VisitInv, Conditions
    <2>8. Conditions(q)
      BY <1>4, <1>6, <1>10, <2>1, <2>6, <2>7 DEF Conditions
    <2>9. f.result.code = 0
      BY <1>2 DEF VisitInv, Outcome
    <2>10. q.result.code \notin {304, 400, 412}
      BY <1>1, <1>10, <2>9 DEF HandlerCode
    <2>11. q.at = "up" /\ q.result.err = "nil" => q.result.out = TRUE /\ (route.method = "PUT" => q.wrote > 0)
      BY <1>3, <1>6, <1>10
    <2>12. q.at = "dropped" => route.recover = FALSE
      BY <1>10
    <2>13. \A i \in 1..Len(route.policies) : ~(q.depth < i)
      BY <1>2, <1>3, <2>1
    <2>14. Outcome(q)
      BY <2>1, <2>10, <2>11, <2>12, <2>13 DEF Outcome
    <2>15. Told200(q)
      BY <1>2, <2>1 DEF VisitInv, Told200
    <2> QED BY <1>2, <2>1, <2>5, <2>8, <2>14, <2>15 DEF VisitInv
  <1>12. ASSUME NEW f1, VisitInv(f1), f1.at # "down" \/ wrote = FALSE \/ f1.raced = TRUE
         PROVE  VisitInv(f1)'
    <2>1. Deadlines(f1)'
      BY <1>2, <1>12 DEF VisitInv, Deadlines, Uses
    <2>2. Conditions(f1)'
      BY <1>2, <1>5, <1>12 DEF VisitInv, Conditions, Uses
    <2>3. Outcome(f1)'
      BY <1>2, <1>12 DEF VisitInv, Outcome, Uses
    <2>4. Told200(f1)'
      BY <1>2, <1>12 DEF VisitInv, Told200
    <2> QED BY <1>2, <1>12, <2>1, <2>2, <2>3, <2>4 DEF VisitInv
  <1>13. ASSUME NEW u \in Visits PROVE visit'[u] \in VisitRecords /\ VisitInv(visit[u])'
    <2>1. CASE u = v
      <3>1. visit'[u] = q
        BY <1>8, <2>1
      <3>2. q.at # "down"
        BY <1>10
      <3>3. VisitInv(q)'
        BY <1>11, <1>12, <3>2
      <3> QED BY <1>9, <3>1, <3>3
    <2>2. CASE u # v
      <3>1. PICK g \in VisitRecords : g = visit[u]
        BY <1>2 DEF HandlerTyped
      <3>2. PICK b \in BOOLEAN : b = (g.raced \/ wrote)
        BY DEF VisitRecords
      <3>3. PICK q1 : q1 = [g EXCEPT !.raced = b]  OBVIOUS
      <3>4. visit'[u] = q1
        BY <1>8, <2>2, <3>1, <3>2, <3>3
      <3>5. q1 \in VisitRecords
        BY <3>3 DEF VisitRecords
      <3>6. q1.at = g.at /\ q1.depth = g.depth /\ q1.result = g.result /\ q1.expired = g.expired /\ q1.wrote = g.wrote
            /\ q1.names = g.names /\ q1.raced = b /\ q1.checked = g.checked /\ q1.status = g.status
        BY <3>3 DEF VisitRecords
      <3>7. VisitInv(g)
        BY <3>1 DEF HandlerInv
      <3>8. (g.raced = TRUE => b = TRUE) /\ (wrote = TRUE => b = TRUE)
        BY <3>2
      <3>9. VisitInv(q1)
        <4>1. Deadlines(q1)
          BY <3>6, <3>7 DEF VisitInv, Deadlines
        <4>2. Conditions(q1)
          BY <3>6, <3>7, <3>8 DEF VisitInv, Conditions
        <4>3. Outcome(q1)
          BY <3>6, <3>7 DEF VisitInv, Outcome
        <4>4. Told200(q1)
          BY <3>6, <3>7 DEF VisitInv, Told200
        <4> QED BY <3>6, <3>7, <4>1, <4>2, <4>3, <4>4 DEF VisitInv
      <3>10. wrote = FALSE \/ q1.raced = TRUE
        BY <3>6, <3>8
      <3>11. VisitInv(q1)'
        BY <1>12, <3>9, <3>10
      <3> QED BY <3>4, <3>5, <3>11
    <2> QED BY <2>1, <2>2
  <1>14. HandlerTyped'
    <2>1. visit' \in [Visits -> VisitRecords]
      BY <1>8, <1>13
    <2> QED BY <1>2, <1>5, <2>1 DEF HandlerTyped
  <1> QED BY <1>13, <1>14 DEF HandlerInv

LEMMA Invokes ==
  ASSUME HandlerInv, NEW v \in Visits, invokeTypedHandler(v)
  PROVE  HandlerInv'
  <1>1. PICK f \in VisitRecords : f = visit[v]
    BY DEF HandlerInv, HandlerTyped
  <1>2. ASSUME NEW res \in Results, NEW g, g = [f EXCEPT !.at = "up", !.result = res]
        PROVE  /\ g \in VisitRecords /\ g.at = "up" /\ g.result = res
               /\ g.depth = f.depth /\ g.names = f.names /\ g.expired = f.expired
               /\ g.checked = f.checked /\ g.raced = f.raced /\ g.status = f.status
    <2>1. g \in VisitRecords
      BY <1>2 DEF VisitRecords
    <2> QED BY <1>2, <2>1 DEF VisitRecords
  <1>3. ASSUME NEW type \in {"unset", "own"},
               Handle(v, route.method = "PUT", [f EXCEPT !.at = "up", !.result = Page(type)])
        PROVE  HandlerInv'
    <2>1. PICK res \in Results : res = Page(type) /\ res.err = "nil" /\ res.out = TRUE /\ res.code = 0
      BY ErrResults
    <2>2. PICK g : g = [f EXCEPT !.at = "up", !.result = res]  OBVIOUS
    <2>3. PICK b \in BOOLEAN : b = (route.method = "PUT")  OBVIOUS
    <2>4. Handle(v, b, g)
      BY <1>3, <2>1, <2>2, <2>3
    <2>5. /\ g \in VisitRecords /\ g.at = "up" /\ g.result = res
          /\ g.depth = f.depth /\ g.names = f.names /\ g.expired = f.expired
          /\ g.checked = f.checked /\ g.raced = f.raced /\ g.status = f.status
      BY <1>2, <2>2
    <2>6. g.at = "up" /\ g.result.err = "nil" /\ g.result.out = TRUE /\ g.result.code = 0
      BY <2>1, <2>5
    <2>7. route.method = "PUT" => b
      BY <2>3
    <2>8. /\ g.depth = visit[v].depth /\ g.names = visit[v].names /\ g.expired = visit[v].expired
          /\ g.checked = visit[v].checked /\ g.raced = visit[v].raced /\ g.status = visit[v].status
      BY <1>1, <2>5
    <2> QED BY <2>4, <2>5, <2>6, <2>7, <2>8, Handled
  <1>4. ASSUME NEW wrote \in BOOLEAN, NEW res \in Results, res.err = "status", HandlerCode(res.code),
               Handle(v, wrote, [f EXCEPT !.at = "up", !.result = res])
        PROVE  HandlerInv'
    <2>2. PICK g : g = [f EXCEPT !.at = "up", !.result = res]  OBVIOUS
    <2>4. Handle(v, wrote, g)
      BY <1>4, <2>2
    <2>5. /\ g \in VisitRecords /\ g.at = "up" /\ g.result = res
          /\ g.depth = f.depth /\ g.names = f.names /\ g.expired = f.expired
          /\ g.checked = f.checked /\ g.raced = f.raced /\ g.status = f.status
      BY <1>2, <2>2
    <2>6. g.at = "up" /\ g.result.err = "status" /\ HandlerCode(g.result.code)
      BY <1>4, <2>5
    <2>8. /\ g.depth = visit[v].depth /\ g.names = visit[v].names /\ g.expired = visit[v].expired
          /\ g.checked = visit[v].checked /\ g.raced = visit[v].raced /\ g.status = visit[v].status
      BY <1>1, <2>5
    <2> QED BY <2>4, <2>5, <2>6, <2>8, Handled
  <1>5. ASSUME NEW wrote \in BOOLEAN, NEW e \in UserErrors,
               Handle(v, wrote, [f EXCEPT !.at = "up", !.result = convertTypedHandlerError(e)])
        PROVE  HandlerInv'
    <2>1. PICK c \in {e.code, 500} : convertTypedHandlerError(e) = Err("status", c)
      BY DEF convertTypedHandlerError
    <2>2. c \in Codes /\ c \notin {304, 400, 412, 504}
      BY <2>1, ErrResults, CodesGiven DEF Results
    <2>3. PICK res \in Results : res = convertTypedHandlerError(e) /\ res.err = "status" /\ res.code = c
      BY <2>1, <2>2, ErrResults
    <2>4. Handle(v, wrote, [f EXCEPT !.at = "up", !.result = res])
      BY <1>5, <2>3
    <2>5. HandlerCode(res.code)
      BY <2>2, <2>3 DEF HandlerCode
    <2> QED BY <1>4, <2>3, <2>4, <2>5
  <1>6. ASSUME NEW wrote \in BOOLEAN, Handle(v, wrote, recoverTypedHandlerPanic(v))
        PROVE  HandlerInv'
    <2>1. CASE route.recover = TRUE
      <3>1. recoverTypedHandlerPanic(v) = [f EXCEPT !.at = "up", !.result = Err("status", 500)]
        BY <1>1, <2>1 DEF recoverTypedHandlerPanic
      <3>2. PICK res \in Results : res = Err("status", 500) /\ res.err = "status" /\ res.code = 500
        BY ErrResults, CodesGiven
      <3>3. Handle(v, wrote, [f EXCEPT !.at = "up", !.result = res])
        BY <1>6, <3>1, <3>2
      <3>4. HandlerCode(res.code)
        BY <3>2 DEF HandlerCode
      <3> QED BY ZenonT(60), <1>4, <3>2, <3>3, <3>4
    <2>2. CASE route.recover = FALSE
      <3>1. PICK g : g = [f EXCEPT !.at = "dropped"]  OBVIOUS
      <3>2. Handle(v, wrote, g)
        BY <1>1, <1>6, <2>2, <3>1 DEF recoverTypedHandlerPanic
      <3>3. g \in VisitRecords
        BY <3>1 DEF VisitRecords
      <3>4. /\ g.at = "dropped" /\ g.result = f.result
            /\ g.depth = f.depth /\ g.names = f.names /\ g.expired = f.expired
            /\ g.checked = f.checked /\ g.raced = f.raced /\ g.status = f.status
        BY <3>1 DEF VisitRecords
      <3> QED BY <1>1, <2>2, <3>2, <3>3, <3>4, Handled
    <2>3. route.recover \in BOOLEAN
      BY DEF HandlerInv, HandlerTyped
    <2> QED BY <2>1, <2>2, <2>3
  <1> QED BY <1>1, <1>3, <1>5, <1>6 DEF invokeTypedHandler

\* What a policy makes of the result of the next one.
PolicyResult(v, d, res) ==
  CASE PolicyAt(d) = "timeout" -> afterTimeout(v, d, res)
    [] PolicyAt(d) = "header"  -> setHeaderField(res)
    [] OTHER                -> res

LEMMA Leaves ==
  ASSUME HandlerInv, NEW v \in Visits, LeavePolicy(v)
  PROVE  HandlerInv'
  <1>1. PICK f \in VisitRecords : f = visit[v]
    BY DEF HandlerInv, HandlerTyped
  <1>2. VisitInv(f) /\ f.at = "up" /\ f.depth > 0 /\ HandlerTyped
    BY <1>1 DEF HandlerInv, LeavePolicy
  <1>3. PICK d \in Nat : d = f.depth
    BY DEF VisitRecords
  <1>4. d > 0 /\ d - 1 \in Nat /\ d \in 1..Len(route.policies) /\ Len(route.policies) \in Nat
    BY <1>2, <1>3, PoliciesUsed DEF VisitInv
  <1>5. PICK old \in Results : old = f.result
    BY DEF VisitRecords
  <1>6. PICK res : res = PolicyResult(v, d, old)  OBVIOUS
  <1>7. PICK p : p = route.policies[d]  OBVIOUS
  <1>8. Uses(p)
    BY <1>2, <1>4, <1>7, PoliciesUsed
  <1>9. PICK x \in BOOLEAN : x = \E e \in f.expired : e <= d
    OBVIOUS
  <1>10. \/ p = "timeout" /\ (old.err = "deadline" \/ x = TRUE) /\ res = Err("status", 504)
         \/ p = "timeout" /\ ~(old.err = "deadline" \/ x = TRUE) /\ res = old
         \/ p = "header" /\ old.out = TRUE /\ old.type = "unset" /\ res = [old EXCEPT !.type = "default"]
         \/ p = "header" /\ ~(old.out = TRUE /\ old.type = "unset") /\ res = old
         \/ p \notin {"timeout", "header"} /\ res = old
    <2>1. CASE p = "timeout"
      BY <1>1, <1>6, <1>7, <1>9, <2>1 DEF PolicyResult, PolicyAt, afterTimeout, Expired
    <2>2. CASE p = "header"
      <3>1. old.out \in BOOLEAN
        BY DEF Results
      <3>2. res = setHeaderField(old)
        BY <1>6, <1>7, <2>2 DEF PolicyResult, PolicyAt
      <3> QED BY <2>2, <3>1, <3>2 DEF setHeaderField
    <2>3. CASE p \notin {"timeout", "header"}
      BY <1>6, <1>7, <2>3 DEF PolicyResult, PolicyAt
    <2> QED BY <2>1, <2>2, <2>3
  <1>11. PICK late : late = Err("status", 504)  OBVIOUS
  <1>12. late \in Results /\ late.err = "status" /\ late.code = 504
    BY <1>11, ErrResults, CodesGiven
  <1>13. PICK typed : typed = [old EXCEPT !.type = "default"]  OBVIOUS
  <1>14. typed \in Results /\ typed.err = old.err /\ typed.code = old.code /\ typed.out = old.out /\ typed.type = "default"
    <2>1. typed \in Results
      BY <1>13 DEF Results
    <2> QED BY <1>13, <2>1 DEF Results
  <1>15. \/ res = late /\ p = "timeout" /\ (old.err = "deadline" \/ x = TRUE)
         \/ res = old /\ (p = "timeout" => x = FALSE) /\ (p = "header" => ~(old.out = TRUE /\ old.type = "unset"))
         \/ res = typed /\ p = "header" /\ old.out = TRUE
    BY <1>9, <1>10, <1>11, <1>13
  <1>16. res \in Results
    BY <1>12, <1>14, <1>15
  <1>17. PICK d1 \in Nat : d1 = d - 1
    BY <1>4
  <1>18. PICK q : q = [f EXCEPT !.at = "up", !.depth = d1, !.result = res]  OBVIOUS
  <1>19. Returns(v, d1, res)
    BY <1>1, <1>3, <1>5, <1>6, <1>17 DEF LeavePolicy, PolicyResult
  <1>20. Now(v, q) /\ resource' = resource
    BY <1>1, <1>18, <1>19 DEF Returns
  <1>21. /\ q \in VisitRecords
         /\ q.at = "up" /\ q.depth = d1 /\ q.result = res /\ q.expired = f.expired /\ q.wrote = f.wrote
         /\ q.names = f.names /\ q.raced = f.raced /\ q.checked = f.checked /\ q.status = f.status
    <2>1. q \in VisitRecords
      BY <1>16, <1>18 DEF VisitRecords
    <2> QED BY <1>18, <2>1 DEF VisitRecords
  <1>22. Deadlines(q)
    <2>1. \A e \in f.expired : 0 < e /\ (e > d => old.err = "status" /\ old.code = 504)
      BY <1>2, <1>3, <1>5 DEF VisitInv, Deadlines
    <2>2. old.err = "deadline" => Uses("conditional") \/ Uses("user")
      BY <1>2, <1>5 DEF VisitInv, Deadlines
    <2>3. old.code = 504 => Uses("timeout") /\ (f.expired # {} \/ Uses("conditional") \/ Uses("user"))
      BY <1>2, <1>5 DEF VisitInv, Deadlines
    <2>4. x = TRUE => f.expired # {}
      BY <1>9
    <2>5. ASSUME NEW e \in f.expired, e > d1 PROVE res.err = "status" /\ res.code = 504
      <3>1. e \in Nat /\ (e > d \/ e = d)
        BY <1>17, <2>5 DEF VisitRecords
      <3>2. CASE e > d
        BY <1>12, <1>14, <1>15, <2>1, <3>2
      <3>3. CASE e = d
        <4>1. x = TRUE
          BY <1>9, <3>3
        <4>2. p = "timeout"
          BY <1>2, <1>3, <1>7, <2>5, <3>3 DEF VisitInv, Deadlines
        <4> QED BY <1>12, <1>15, <4>1, <4>2
      <3> QED BY <3>1, <3>2, <3>3
    <2>6. res.err = "deadline" => Uses("conditional") \/ Uses("user")
      BY <1>12, <1>14, <1>15, <2>2
    <2>7. res.code = 504 => Uses("timeout") /\ (f.expired # {} \/ Uses("conditional") \/ Uses("user"))
      BY <1>8, <1>12, <1>14, <1>15, <2>2, <2>3, <2>4
    <2>8. \A e \in f.expired : 0 < e
      BY <2>1
    <2>9. \A e \in f.expired : route.policies[e] = "timeout"
      BY <1>2 DEF VisitInv, Deadlines
    <2> QED BY <1>21, <2>5, <2>6, <2>7, <2>8, <2>9 DEF Deadlines
  <1>23. Conditions(q)
    BY <1>2, <1>21 DEF VisitInv, Conditions
  <1>24. Outcome(q)
    <2>1. old.code \in {304, 400, 412} => f.wrote = 0
      BY <1>2, <1>5 DEF VisitInv, Outcome
    <2>2. res.code \in {304, 400, 412} => f.wrote = 0
      BY <1>12, <1>14, <1>15, <2>1
    <2>3. old.err = "nil" => /\ old.out = TRUE /\ (route.method = "PUT" => f.wrote > 0)
                             /\ \A i \in 1..Len(route.policies) : d < i /\ route.policies[i] = "header" => old.type # "unset"
      BY <1>2, <1>3, <1>5 DEF VisitInv, Outcome
    <2>4. res.err = "nil" => old.err = "nil" /\ res.out = TRUE
      BY <1>12, <1>14, <1>15, <2>3
    <2>5. ASSUME res.err = "nil", NEW i \in 1..Len(route.policies), d1 < i, route.policies[i] = "header"
          PROVE  res.type # "unset"
      <3>1. d < i \/ i = d
        BY <1>4, <1>17, <2>5
      <3>2. CASE d < i
        BY <1>12, <1>14, <1>15, <2>3, <2>4, <2>5, <3>2
      <3>3. CASE i = d
        BY <1>7, <1>12, <1>14, <1>15, <2>3, <2>4, <2>5, <3>3
      <3> QED BY <3>1, <3>2, <3>3
    <2> QED BY <1>21, <2>2, <2>3, <2>4, <2>5 DEF Outcome
  <1>25. Told200(q)
    BY <1>2, <1>21 DEF VisitInv, Told200
  <1>26. q.depth <= Len(route.policies)
    BY <1>4, <1>17, <1>21
  <1>27. VisitInv(q)
    BY <1>22, <1>23, <1>24, <1>25, <1>26 DEF VisitInv
  <1> QED BY <1>20, <1>21, <1>27, VisitMoves

LEMMA Answers ==
  ASSUME HandlerInv, NEW v \in Visits, HumaAnswers(v)
  PROVE  HandlerInv'
  <1>1. PICK f \in VisitRecords : f = visit[v]
    BY DEF HandlerInv, HandlerTyped
  <1>2. VisitInv(f) /\ f.at = "up" /\ f.depth = 0 /\ resource' = resource
    BY <1>1 DEF HandlerInv, HumaAnswers
  <1>3. PICK old \in Results : old = f.result
    BY DEF VisitRecords
  <1>4. PICK c : c = CASE old.err = "nil" -> 200 [] old.err = "status" -> old.code [] OTHER -> 500
    OBVIOUS
  <1>5. c = (IF old.err = "nil" THEN 200 ELSE IF old.err = "status" THEN old.code ELSE 500)
    BY <1>4
  <1>6. c \in Codes \cup {200}
    BY <1>5, CodesGiven DEF Results
  <1>7. PICK q : q = [f EXCEPT !.at = "answered", !.status = c]  OBVIOUS
  <1>8. Now(v, q)
    BY <1>1, <1>3, <1>4, <1>7 DEF HumaAnswers
  <1>9. q \in VisitRecords
    BY <1>6, <1>7 DEF VisitRecords
  <1>10. q.at = "answered" /\ q.depth = f.depth /\ q.result = f.result /\ q.expired = f.expired /\ q.wrote = f.wrote
         /\ q.names = f.names /\ q.raced = f.raced /\ q.checked = f.checked /\ q.status = c
    BY <1>7 DEF VisitRecords
  <1>11. Deadlines(q)
    BY <1>2, <1>10 DEF VisitInv, Deadlines
  <1>12. Conditions(q)
    BY <1>2, <1>10 DEF VisitInv, Conditions
  <1>13. Outcome(q)
    BY <1>2, <1>10 DEF VisitInv, Outcome
  <1>14. Told200(q)
    BY <1>2, <1>3, <1>5, <1>10 DEF Told200
  <1>15. VisitInv(q)
    BY <1>2, <1>10, <1>11, <1>12, <1>13, <1>14 DEF VisitInv
  <1> QED BY <1>2, <1>8, <1>9, <1>15, VisitMoves

\* Every step of a request keeps the invariant.
LEMMA HandlerStep == HandlerInv /\ [HandlerNext]_handlerVars => HandlerInv'
  <1> SUFFICES ASSUME HandlerInv, [HandlerNext]_handlerVars PROVE HandlerInv'  OBVIOUS
  <1>1. CASE UNCHANGED handlerVars
    <2>1. route' = route /\ resource' = resource /\ visit' = visit
      BY <1>1 DEF handlerVars
    <2>2. HandlerTyped'
      BY <2>1 DEF HandlerInv, HandlerTyped
    <2>3. ASSUME NEW v \in Visits PROVE VisitInv(visit[v])'
      BY <2>1 DEF HandlerInv, VisitInv, Deadlines, Conditions, Outcome, Told200, Uses
    <2> QED BY <2>2, <2>3 DEF HandlerInv
  <1> QED BY <1>1, EntersPolicy, Expires, Validates, Invokes, Leaves, Answers DEF HandlerNext

\* The invariant says what HandlerExact says.
LEMMA HandlerImplies == HandlerInv => HandlerExact
  <1> SUFFICES ASSUME HandlerInv, NEW v \in Visits
               PROVE  /\ visit[v].at = "answered" =>
                           /\ visit[v].expired # {} => visit[v].status = 504
                           /\ visit[v].status = 504 =>
                                Uses("timeout") /\ (visit[v].expired # {} \/ Uses("conditional") \/ Uses("user"))
                      /\ visit[v].wrote > 0 /\ visit[v].names > 0 /\ Uses("conditional") =>
                           visit[v].checked /\ (visit[v].wrote = visit[v].names \/ visit[v].raced)
                      /\ visit[v].status \in {304, 400, 412} => visit[v].wrote = 0
                      /\ visit[v].status = 200 /\ route.method = "PUT" => visit[v].wrote > 0
                      /\ visit[v].at = "dropped" /\ route.recover => Uses("user") /\ visit[v].wrote = 0
                      /\ visit[v].status = 200 /\ Uses("header") => visit[v].result.type # "unset"
    BY DEF HandlerExact, TimeoutTold, ConditionHolds, PanicsContained, PagesTyped
  <1>1. PICK f \in VisitRecords : f = visit[v]
    BY DEF HandlerInv, HandlerTyped
  <1>2. VisitInv(f)
    BY <1>1 DEF HandlerInv
  <1>3. PICK r \in Results : r = f.result
    BY DEF VisitRecords
  <1>4. r.code # 200 /\ f.expired \subseteq Nat
    BY CodesGiven DEF Results, VisitRecords
  <1>5. f.at # "answered" => f.status = 0
    BY <1>2 DEF VisitInv, Told200
  <1>6. f.at = "answered" => f.depth = 0 /\ f.status = IF r.err = "nil" THEN 200 ELSE IF r.err = "status" THEN r.code ELSE 500
    BY <1>2, <1>3 DEF VisitInv, Told200
  <1>7. f.at = "answered" => /\ f.expired # {} => f.status = 504
                             /\ f.status = 504 => Uses("timeout") /\ (f.expired # {} \/ Uses("conditional") \/ Uses("user"))
    <2>1. f.at = "answered" /\ f.expired # {} => r.err = "status" /\ r.code = 504
      BY <1>2, <1>3, <1>6 DEF VisitInv, Deadlines
    <2>2. r.code = 504 => Uses("timeout") /\ (f.expired # {} \/ Uses("conditional") \/ Uses("user"))
      BY <1>2, <1>3 DEF VisitInv, Deadlines
    <2> QED BY <1>6, <2>1, <2>2
  <1>8. f.wrote > 0 /\ f.names > 0 /\ Uses("conditional") => f.checked = TRUE /\ (f.wrote = f.names \/ f.raced = TRUE)
    BY <1>2 DEF VisitInv, Conditions
  <1>9. f.status \in {304, 400, 412} => f.wrote = 0
    BY <1>2, <1>3, <1>5, <1>6 DEF VisitInv, Outcome
  <1>10. f.status = 200 => f.at = "answered" /\ r.err = "nil"
    BY <1>4, <1>5, <1>6
  <1>11. f.status = 200 /\ route.method = "PUT" => f.wrote > 0
    BY <1>2, <1>3, <1>10 DEF VisitInv, Outcome
  <1>12. f.at = "dropped" => route.recover = FALSE \/ (Uses("user") /\ f.wrote = 0)
    BY <1>2 DEF VisitInv, Outcome
  <1>13. f.status = 200 /\ Uses("header") => r.type # "unset"
    <2>1. Uses("header") => \E i \in 1..Len(route.policies) : 0 < i /\ route.policies[i] = "header"
      BY PoliciesUsed DEF HandlerInv
    <2> QED BY <1>2, <1>3, <1>6, <1>10, <2>1 DEF VisitInv, Outcome
  <1> QED BY <1>1, <1>3, <1>7, <1>8, <1>9, <1>11, <1>12, <1>13

\* HandlerExact, in every behaviour, for any number of requests and policies.
THEOREM HandlerExactAlways == Spec => []HandlerExact
  <1>1. Init => HandlerInv
    BY HandlerStarts DEF Init
  <1>2. [Next]_vars => [HandlerNext]_handlerVars
    BY DEF Next, vars, handlerVars
  <1>3. HandlerInv /\ [Next]_vars => HandlerInv'
    BY <1>2, HandlerStep
  <1> QED
    BY <1>1, <1>3, HandlerImplies, PTL DEF Spec

\* HttpExact: both halves of what a request meets.
THEOREM HttpExactAlways == Spec => []HttpExact
  BY RoutesExactAlways, HandlerExactAlways, PTL DEF HttpExact

-----------------------------------------------------------------------------
(* configx: loads in the order of priority. *)

Inputs == UNION {[1..n -> Tokens] : n \in Nat}
LoadTyped ==
  /\ options.args \in Inputs
  /\ DOMAIN options.priority = 1..4 /\ \A i, j \in 1..4 : options.priority[i] = options.priority[j] => i = j
  /\ load \in Nat /\ rank \in 0..4 /\ failed \in BOOLEAN
  /\ DOMAIN given = Sources

\* The sources this load has read before its present place have given v.
Having == {s \in Sources : given[s] # NoValue}
ReadBefore(s, r) == \E i \in 1..4 : i < r /\ options.priority[i] = s
Effective(v) ==
  /\ Having = {} => v = loadConfiguredDefaults
  /\ Having # {} => \E s \in Having : v = given[s] /\ \A r \in Having : ~Earlier(s, r)

\* A value this load has from a dotenv file has come through the environment.
OfDotenv(v) == v.from = "dotenv" /\ v.load = load
Through(v) == OfDotenv(v) => Earlier("dotenv", "env")

LoadKept ==
  /\ environ.load \in Nat /\ environ.load <= load
  /\ rank > 0 =>
       /\ failed = FALSE /\ Effective(k) /\ Through(k)
       /\ \A s \in Having : ReadBefore(s, rank)
       /\ OfDotenv(environ) => ReadBefore("dotenv", rank)
  /\ load > 0 /\ rank = 0 /\ failed = FALSE => Effective(config) /\ Through(config)

LoadInv == LoadTyped /\ LoadKept

LEMMA ValueFields ==
  ASSUME NEW s, NEW i, NEW n, NEW v, v = ValueFrom(s, i, n)
  PROVE  v.from = s /\ v.nr = i /\ v.load = n
  BY DEF ValueFrom

LEMMA ValueDistinct ==
  ASSUME NEW s, NEW i, NEW n, s # "none"
  PROVE  ValueFrom(s, i, n) # NoValue
  BY DEF ValueFrom, NoValue

\* Where a source is in the order of priority.
LEMMA RankKnown ==
  ASSUME LoadTyped, NEW s, NEW i \in 1..4, options.priority[i] = s
  PROVE  RankOf(s) = i
  BY DEF RankOf, LoadTyped

LEMMA DefaultsFrom ==
  /\ loadConfiguredDefaults.from # "dotenv"
  /\ NoValue.load = 0
  <1>1. /\ ValueFrom("map", 0, 0).from = "map" /\ ValueFrom("typed", 0, 0).from = "typed"
        /\ NoValue.from = "none" /\ NoValue.load = 0
    BY ValueFields DEF NoValue
  <1> QED BY <1>1 DEF loadConfiguredDefaults

LEMMA LoadStarts == Init => LoadInv
  <1> SUFFICES ASSUME Init PROVE LoadInv  OBVIOUS
  <1>1. /\ load = 0 /\ rank = 0 /\ failed = FALSE /\ given = [s \in Sources |-> NoValue]
        /\ environ \in {NoValue, ValueFrom("environment", 0, 0)}
    BY DEF Init, LoadInit, SomeOptions
  <1>2. options.args \in Inputs
    <2>1. <<>> \in [1..0 -> Tokens]
      OBVIOUS
    <2>2. FlagToken("x-y", "=") \in Tokens
      BY DEF Tokens, Forms
    <2>3. <<FlagToken("x-y", "=")>> \in [1..1 -> Tokens]
      BY <2>2
    <2>4. <<>> \in Inputs /\ <<FlagToken("x-y", "=")>> \in Inputs
      BY <2>1, <2>3 DEF Inputs
    <2>5. UNION {[1..n -> Tokens] : n \in 0..MaxArgs} \subseteq Inputs
      BY LoadAssumption DEF Inputs
    <2>6. CASE LoadInit
      BY <2>4, <2>5, <2>6 DEF LoadInit
    <2>7. CASE SomeOptions
      BY <2>4, <2>7 DEF SomeOptions
    <2> QED BY <2>6, <2>7 DEF Init
  <1>3. /\ DOMAIN options.priority = 1..4
        /\ \A i, j \in 1..4 : options.priority[i] = options.priority[j] => i = j
    <2>1. DOMAIN DefaultPriority = 1..4 /\ \A i, j \in 1..4 : DefaultPriority[i] = DefaultPriority[j] => i = j
      BY DEF DefaultPriority
    <2>2. CASE LoadInit
      BY <2>1, <2>2 DEF LoadInit
    <2>3. CASE SomeOptions
      BY <2>1, <2>3 DEF SomeOptions
    <2> QED BY <2>2, <2>3 DEF Init
  <1>4. LoadTyped
    <2>1. failed \in BOOLEAN
      BY <1>1
    <2>2. DOMAIN given = Sources /\ load \in Nat /\ rank \in 0..4
      BY <1>1
    <2> QED BY <1>2, <1>3, <2>1, <2>2 DEF LoadTyped
  <1>5. environ.load = 0
    <2>1. NoValue.load = 0 /\ ValueFrom("environment", 0, 0).load = 0
      BY ValueFields DEF NoValue
    <2> QED BY <1>1, <2>1
  <1>6. LoadKept
    BY <1>1, <1>5 DEF LoadKept
  <1> QED BY <1>4, <1>6 DEF LoadInv

\* A source has been read: its value is over what was there, and the next one's turn is.
LEMMA SourceRead ==
  ASSUME LoadInv, NEW s \in Sources, Loading(s), NEW v, Advance(Over(v, k)), given' = [given EXCEPT ![s] = v],
         UNCHANGED environ, Through(v), v # NoValue => s # "dotenv",
         OfDotenv(environ) => ReadBefore("dotenv", rank)
  PROVE  LoadInv'
  <1>1. /\ LoadTyped /\ rank \in 1..4 /\ options.priority[rank] = s /\ k' = Over(v, k) /\ rank' = (rank + 1) % 5
        /\ UNCHANGED <<options, load, failed, environ>> /\ failed = FALSE
        /\ config' = IF rank = 4 THEN k' ELSE config
    BY DEF LoadInv, LoadKept, LoadTyped, Loading, Advance
  <1>2. rank' = (IF rank = 4 THEN 0 ELSE rank + 1) /\ rank' \in 0..4
    BY <1>1
  <1>3. LoadTyped'
    BY <1>1, <1>2 DEF LoadTyped
  <1>4. \A r \in Sources : given'[r] = IF r = s THEN v ELSE given[r]
    BY <1>1 DEF LoadTyped
  <1>5. Effective(k) /\ Through(k) /\ \A r \in Having : ReadBefore(r, rank)
    BY <1>1 DEF LoadInv, LoadKept
  <1>6. s \notin Having
    BY <1>1, <1>5 DEF ReadBefore, LoadTyped
  <1>7. Having' = IF v = NoValue THEN Having ELSE Having \cup {s}
    BY <1>4, <1>6 DEF Having
  <1>8. Effective(k)'
    <2>1. CASE v = NoValue
      <3>1. Having' = Having /\ k' = k /\ \A r \in Having : given'[r] = given[r]
        BY <1>1, <1>4, <1>6, <1>7, <2>1 DEF Over, Having
      <3> QED BY <1>1, <1>5, <3>1 DEF Effective, Earlier, RankOf, loadConfiguredDefaults
    <2>2. CASE v # NoValue
      <3>1. k' = v /\ given'[s] = v /\ Having' = Having \cup {s}
        BY <1>1, <1>4, <1>7, <2>2 DEF Over
      <3>2. ASSUME NEW r \in Having' PROVE ~(RankOf(s) < RankOf(r))
        <4>1. RankOf(s) = rank
          BY <1>1, RankKnown
        <4>2. CASE r = s
          BY <1>1, <4>1, <4>2
        <4>3. CASE r \in Having
          <5>1. PICK i \in 1..4 : i < rank /\ options.priority[i] = r
            BY <1>5, <4>3 DEF ReadBefore
          <5>2. RankOf(r) = i
            BY <1>1, <5>1, RankKnown
          <5> QED BY <1>1, <4>1, <5>1, <5>2
        <4> QED BY <3>1, <3>2, <4>2, <4>3
      <3>3. \A r \in Having' : ~Earlier(s, r)'
        BY <1>1, <3>2 DEF Earlier, RankOf
      <3> QED BY <3>1, <3>3 DEF Effective
    <2> QED BY <2>1, <2>2
  <1>9. Through(k)'
    <2>1. Through(k')
      BY <1>1, <1>5 DEF Over
    <2> QED BY <1>1, <2>1 DEF Through, OfDotenv, Earlier, RankOf
  <1>10. rank' > 0 => \A r \in Having' : ReadBefore(r, rank)'
    BY <1>1, <1>2, <1>5, <1>7 DEF ReadBefore
  <1>11. rank' > 0 => (OfDotenv(environ)' => ReadBefore("dotenv", rank)')
    BY <1>1, <1>2 DEF ReadBefore, OfDotenv
  <1>12. rank' = 0 => config' = k'
    BY <1>1, <1>2
  <1>13. environ'.load \in Nat /\ environ'.load <= load'
    BY <1>1 DEF LoadInv, LoadKept
  <1>14. LoadKept'
    <2>1. rank' = 0 => Effective(config)' /\ Through(config)'
      BY <1>8, <1>9, <1>12 DEF Effective, Through, OfDotenv
    <2> QED BY <1>1, <1>8, <1>9, <1>10, <1>11, <1>13, <2>1 DEF LoadKept
  <1> QED BY <1>3, <1>14 DEF LoadInv

\* The dotenv files are read: the environment may have become theirs.
LEMMA DotenvRead ==
  ASSUME LoadInv, Loading("dotenv"), Advance(k), UNCHANGED given, environ'.load \in Nat, environ'.load <= load
  PROVE  LoadInv'
  <1>1. /\ LoadTyped /\ rank \in 1..4 /\ options.priority[rank] = "dotenv" /\ k' = k /\ rank' = (rank + 1) % 5
        /\ UNCHANGED <<options, load, failed, given>> /\ failed = FALSE
        /\ config' = IF rank = 4 THEN k' ELSE config
    BY DEF LoadInv, LoadKept, LoadTyped, Loading, Advance
  <1>2. rank' = (IF rank = 4 THEN 0 ELSE rank + 1) /\ rank' \in 0..4
    BY <1>1
  <1>3. LoadTyped'
    BY <1>1, <1>2 DEF LoadTyped
  <1>4. Effective(k) /\ Through(k) /\ \A r \in Having : ReadBefore(r, rank)
    BY <1>1 DEF LoadInv, LoadKept
  <1>5. Having' = Having
    BY <1>1 DEF Having
  <1>6. Effective(k)'
    BY <1>1, <1>4, <1>5 DEF Effective, Earlier, RankOf, loadConfiguredDefaults
  <1>7. Through(k)'
    BY <1>1, <1>4 DEF Through, OfDotenv, Earlier, RankOf
  <1>8. rank' > 0 => \A r \in Having' : ReadBefore(r, rank)'
    BY <1>1, <1>2, <1>4, <1>5 DEF ReadBefore
  <1>9. rank' > 0 => ReadBefore("dotenv", rank)'
    BY <1>1, <1>2 DEF ReadBefore
  <1>10. rank' = 0 => config' = k'
    BY <1>1, <1>2
  <1>11. rank' = 0 => Effective(config)' /\ Through(config)'
    BY <1>6, <1>7, <1>10 DEF Effective, Through, OfDotenv
  <1>12. LoadKept'
    BY <1>1, <1>6, <1>7, <1>8, <1>9, <1>11 DEF LoadKept
  <1> QED BY <1>3, <1>12 DEF LoadInv

\* A load that fails leaves the last configuration, and claims nothing.
LEMMA LoadFails ==
  ASSUME LoadInv, FailLoad, environ'.load \in Nat, environ'.load <= load
  PROVE  LoadInv'
  <1>1. rank' = 0 /\ failed' = TRUE /\ UNCHANGED <<options, load, given>> /\ LoadTyped
    BY DEF FailLoad, LoadInv
  <1>2. failed' \in BOOLEAN
    BY <1>1
  <1>3. LoadTyped'
    BY <1>1, <1>2 DEF LoadTyped
  <1>4. LoadKept'
    BY <1>1 DEF LoadKept
  <1> QED BY <1>3, <1>4 DEF LoadInv

LEMMA LoadStep == LoadInv /\ [LoadNext]_loadVars => LoadInv'
  <1> SUFFICES ASSUME LoadInv, [LoadNext]_loadVars PROVE LoadInv'  OBVIOUS
  <1>0. LoadTyped /\ LoadKept /\ load \in Nat /\ environ.load \in Nat /\ environ.load <= load
    BY DEF LoadInv, LoadKept, LoadTyped
  <1>1. CASE BeginLoad
    <2>1. /\ load' = load + 1 /\ rank' = 1 /\ failed' = FALSE /\ k' = loadConfiguredDefaults
          /\ given' = [s \in Sources |-> NoValue] /\ UNCHANGED <<options, environ>>
      BY <1>1 DEF BeginLoad
    <2>2. failed' \in BOOLEAN
      BY <2>1
    <2>3. LoadTyped'
      BY <1>0, <2>1, <2>2 DEF LoadTyped
    <2>4. Having' = {}
      BY <2>1 DEF Having
    <2>5. Effective(k)' /\ Through(k)'
      <3>1. k'.from # "dotenv"
        BY <2>1, DefaultsFrom
      <3>2. loadConfiguredDefaults' = loadConfiguredDefaults
        BY <2>1 DEF loadConfiguredDefaults
      <3> QED BY <2>1, <2>4, <3>1, <3>2 DEF Effective, Through, OfDotenv
    <2>6. ~OfDotenv(environ)'
      BY <1>0, <2>1 DEF OfDotenv
    <2>7. LoadKept'
      BY <1>0, <2>1, <2>4, <2>5, <2>6 DEF LoadKept
    <2> QED BY <2>3, <2>7 DEF LoadInv
  <1>2. CASE loadDotenv
    <2>1. PICK a \in Outcomes, b \in Outcomes :
            LET A == IF a = "with" THEN loadDotenvFile(environ, ValueFrom("dotenv", 1, load)) ELSE environ
                B == IF b = "with" THEN loadDotenvFile(A, ValueFrom("dotenv", 2, load)) ELSE A
            IN IF ~options.ignore /\ a = "unreadable" THEN UNCHANGED environ /\ FailLoad
               ELSE IF ~options.ignore /\ b = "unreadable" THEN environ' = A /\ FailLoad
               ELSE environ' = B /\ UNCHANGED given /\ Advance(k)
      BY <1>2 DEF loadDotenv
    <2>2. PICK A : A = IF a = "with" THEN loadDotenvFile(environ, ValueFrom("dotenv", 1, load)) ELSE environ  OBVIOUS
    <2>3. PICK B : B = IF b = "with" THEN loadDotenvFile(A, ValueFrom("dotenv", 2, load)) ELSE A  OBVIOUS
    <2>4. /\ environ' = environ \/ environ' = A \/ environ' = B
          /\ FailLoad \/ (UNCHANGED given /\ Advance(k))
      BY <2>1, <2>2, <2>3
    <2>5. ValueFrom("dotenv", 1, load).load = load /\ ValueFrom("dotenv", 2, load).load = load
      BY ValueFields
    <2>6. A.load \in Nat /\ A.load <= load
      BY <1>0, <2>2, <2>5 DEF loadDotenvFile, Over
    <2>7. B.load \in Nat /\ B.load <= load
      BY <1>0, <2>3, <2>5, <2>6 DEF loadDotenvFile, Over
    <2>8. environ'.load \in Nat /\ environ'.load <= load
      BY <1>0, <2>4, <2>6, <2>7
    <2>9. Loading("dotenv")
      BY <1>2 DEF loadDotenv
    <2> QED BY <2>4, <2>8, <2>9, LoadFails, DotenvRead
  <1>3. CASE loadFiles
    <2>1. PICK v : /\ v = NoValue \/ v = ValueFrom("file", 1, load) \/ v = ValueFrom("file", 2, load)
                   /\ FailLoad \/ (given' = [given EXCEPT !["file"] = v] /\ Advance(Over(v, k)))
      BY <1>3 DEF loadFiles
    <2>2. v.from # "dotenv"
      <3>1. NoValue.from = "none" /\ ValueFrom("file", 1, load).from = "file" /\ ValueFrom("file", 2, load).from = "file"
        BY ValueFields DEF NoValue
      <3> QED BY <2>1, <3>1
    <2>3. Loading("file") /\ UNCHANGED environ /\ "file" \in Sources
      BY <1>3 DEF loadFiles, Sources
    <2>4. CASE FailLoad
      BY <1>0, <2>3, <2>4, LoadFails
    <2>5. CASE given' = [given EXCEPT !["file"] = v] /\ Advance(Over(v, k))
      <3>1. Through(v)
        BY <2>2 DEF Through, OfDotenv
      <3>2. OfDotenv(environ) => ReadBefore("dotenv", rank)
        BY <1>0, <2>3 DEF LoadKept, Loading
      <3> QED BY <2>3, <2>5, <3>1, <3>2, SourceRead
    <2> QED BY <2>1, <2>4, <2>5
  <1>4. CASE loadEnv
    <2>1. /\ Loading("env") /\ UNCHANGED environ /\ "env" \in Sources
          /\ given' = [given EXCEPT !["env"] = environ] /\ Advance(Over(environ, k))
      BY <1>4 DEF loadEnv, Sources
    <2>2. OfDotenv(environ) => ReadBefore("dotenv", rank)
      BY <1>0, <2>1 DEF LoadKept, Loading
    <2>3. rank \in 1..4 /\ options.priority[rank] = "env"
      BY <1>0, <2>1 DEF Loading, LoadTyped
    <2>4. Through(environ)
      <3> SUFFICES ASSUME OfDotenv(environ) PROVE Earlier("dotenv", "env")
        BY DEF Through
      <3>1. PICK i \in 1..4 : i < rank /\ options.priority[i] = "dotenv"
        BY <2>2 DEF ReadBefore
      <3>2. RankOf("dotenv") = i /\ RankOf("env") = rank
        BY <1>0, <2>3, <3>1, RankKnown
      <3> QED BY <3>1, <3>2 DEF Earlier
    <2> QED BY <2>1, <2>2, <2>4, SourceRead
  <1>5. CASE loadArgs
    <2>1. Loading("args") /\ UNCHANGED environ /\ "args" \in Sources
          /\ (FailLoad \/ (given' = [given EXCEPT !["args"] = argsValue] /\ Advance(Over(argsValue, k))))
      BY <1>5 DEF loadArgs, Sources
    <2>2. argsValue.from # "dotenv"
      <3>1. NoValue.from = "none" /\ ValueFrom("flag", 0, load).from = "flag" /\ ValueFrom("args", LastOfKey(parseRawArgs), load).from = "args"
        BY ValueFields DEF NoValue
      <3> QED BY <3>1 DEF argsValue
    <2>3. CASE FailLoad
      BY <1>0, <2>1, <2>3, LoadFails
    <2>4. CASE given' = [given EXCEPT !["args"] = argsValue] /\ Advance(Over(argsValue, k))
      <3>1. Through(argsValue)
        BY <2>2 DEF Through, OfDotenv
      <3>2. OfDotenv(environ) => ReadBefore("dotenv", rank)
        BY <1>0, <2>1 DEF LoadKept, Loading
      <3> QED BY <2>1, <2>4, <3>1, <3>2, SourceRead
    <2> QED BY <2>1, <2>3, <2>4
  <1>6. CASE UNCHANGED loadVars
    <2>1. UNCHANGED <<options, environ, load, rank, failed, k, config, given>>
      BY <1>6 DEF loadVars
    <2> QED BY <1>0, <2>1 DEF LoadInv, LoadTyped, LoadKept, Effective, Through, OfDotenv, Having, ReadBefore,
                              Earlier, RankOf, loadConfiguredDefaults
  <1> QED BY <1>1, <1>2, <1>3, <1>4, <1>5, <1>6 DEF LoadNext

LEMMA LoadPriority ==
  ASSUME LoadInv
  PROVE  PriorityObeyed
  <1>1. failed \in BOOLEAN
    BY DEF LoadInv, LoadTyped
  <1>2. load > 0 /\ rank = 0 /\ failed = FALSE => Effective(config) /\ Through(config)
    BY DEF LoadInv, LoadKept
  <1>3. load > 0 /\ rank = 0 /\ ~failed => Effective(config) /\ Through(config)
    BY <1>1, <1>2
  <1> QED BY <1>3 DEF PriorityObeyed, Effective, Through, OfDotenv, Having

-----------------------------------------------------------------------------
(* The command line. *)

Args == options.args

\* parseRawArgs is what its loop says, from the end of the arguments backwards.
LEMMA ParseUnfolds ==
  ASSUME Len(Args) \in Nat
  PROVE  \A i \in 1..(Len(Args) + 2) :
           ParseFrom[i] = IF i > Len(Args) THEN <<>> ELSE parseRawArg(i, ParseFrom[i + 1], ParseFrom[i + 2])
  <1>0. PICK n \in Nat : n = Len(Args)
    OBVIOUS
  <1> DEFINE From(g, m) == [i \in (n + 2 - m)..(n + 2) |-> IF i > n THEN <<>> ELSE parseRawArg(i, g[i + 1], g[i + 2])]
             parse[i \in 1..n + 2] == IF i > n THEN <<>> ELSE parseRawArg(i, parse[i + 1], parse[i + 2])
             T == {m \in 0..(n + 1) : ~ \E g : g = From(g, m)}
  <1>1. T = {}
    <2> SUFFICES ASSUME T # {} PROVE FALSE  OBVIOUS
    <2>1. PICK m \in T : \A j \in T : m <= j
      <3> HIDE DEF T
      <3>1. T \in SUBSET Nat
        BY <1>0 DEF T
      <3> QED BY <3>1, LeastNatural
    <2>2. m \in 0..(n + 1) /\ ~ \E g : g = From(g, m)
      OBVIOUS
    <2>3. m # 0 /\ m # 1
      <3> DEFINE g == [i \in (n + 2 - m)..(n + 2) |-> <<>>]
      <3> SUFFICES ASSUME m = 0 \/ m = 1 PROVE FALSE  OBVIOUS
      <3>1. \A i \in (n + 2 - m)..(n + 2) : i > n
        BY <1>0, <2>2
      <3>2. g = From(g, m)
        BY <3>1
      <3> QED BY <2>2, <3>2
    <2>4. m - 1 \in 0..(n + 1) /\ ~(m <= m - 1)
      BY <1>0, <2>2, <2>3
    <2>5. m - 1 \notin T
      <3> HIDE DEF T
      <3> QED BY <2>1, <2>4
    <2>6. PICK g : g = From(g, m - 1)
      BY <2>4, <2>5
    <2>7. PICK b : b = n + 2 - m  OBVIOUS
    <2>8. b \in 1..n /\ n + 2 - (m - 1) = b + 1 /\ b \in Nat
      BY <1>0, <2>2, <2>3, <2>7
    <2>9. PICK first : first = parseRawArg(b, g[b + 1], g[b + 2])  OBVIOUS
    <2> DEFINE h == [i \in b..(n + 2) |-> IF i = b THEN first ELSE g[i]]
    <2>10. \A i \in b..(n + 2) : h[i] = IF i > n THEN <<>> ELSE parseRawArg(i, h[i + 1], h[i + 2])
      <3> SUFFICES ASSUME NEW i \in b..(n + 2) PROVE h[i] = IF i > n THEN <<>> ELSE parseRawArg(i, h[i + 1], h[i + 2])  OBVIOUS
      <3>0. i <= n => i + 1 \in b..(n + 2) /\ i + 2 \in b..(n + 2) /\ i + 1 # b /\ i + 2 # b
        BY <2>8
      <3>1. i <= n => h[i + 1] = g[i + 1] /\ h[i + 2] = g[i + 2]
        BY <3>0
      <3>2. CASE i = b
        <4>1. h[i] = first /\ ~(i > n) /\ i <= n
          BY <2>8, <3>2
        <4> QED BY <2>9, <3>1, <3>2, <4>1
      <3>3. CASE i # b
        <4>1. i \in (n + 2 - (m - 1))..(n + 2) /\ h[i] = g[i]
          BY <2>8, <3>3
        <4>2. g[i] = IF i > n THEN <<>> ELSE parseRawArg(i, g[i + 1], g[i + 2])
          BY <2>6, <4>1
        <4>3. i > n \/ i <= n
          BY <2>8
        <4> QED BY <3>1, <4>1, <4>2, <4>3
      <3> QED BY <3>2, <3>3
    <2>11. h = From(h, m)
      BY <2>7, <2>10
    <2> HIDE DEF h
    <2> QED BY <2>2, <2>11
  <1>2. PICK g : g = From(g, n + 1)
    <2>1. n + 1 \in 0..(n + 1)
      BY <1>0
    <2> QED BY <1>1, <2>1
  <1>3. n + 2 - (n + 1) = 1
    BY <1>0
  <1>4. g = [i \in 1..n + 2 |-> IF i > n THEN <<>> ELSE parseRawArg(i, g[i + 1], g[i + 2])]
    BY <1>2, <1>3
  <1>5. parse = [i \in 1..n + 2 |-> IF i > n THEN <<>> ELSE parseRawArg(i, parse[i + 1], parse[i + 2])]
    BY <1>4
  <1>6. ParseFrom = parse
    BY <1>0 DEF ParseFrom, Args
  <1> HIDE DEF parse
  <1> QED BY <1>0, <1>5, <1>6

\* The flags from a position on, up to the next "--", and what parsing them should give.
IsFlag(i) == Args[i].form \in Forms
FlagsFrom(i) == {j \in i..Len(Args) : IsFlag(j) /\ \A e \in i..Len(Args) : Args[e] = End => j < e}
ParsedRight(i, s) ==
  /\ s \in Seq([name : {t.name : t \in Tokens}, value : Nat]) /\ Len(s) = Cardinality(FlagsFrom(i))
  /\ \A j \in 1..Len(s) :
       Args[s[j].value] = Word \/ (IsFlag(s[j].value) /\ Args[s[j].value].name = s[j].name)

LEMMA TokenFacts ==
  /\ Word.form \notin Forms /\ End.form \notin Forms /\ Word # End
  <1>1. Word.form = "word" /\ End.form = "--"
    BY DEF Word, End, FlagToken
  <1> QED BY <1>1 DEF Forms

LEMMA FlagsFinite ==
  ASSUME Len(Args) \in Nat, NEW i \in Nat
  PROVE  IsFiniteSet(FlagsFrom(i)) /\ Cardinality(FlagsFrom(i)) \in Nat
  <1>1. IsFiniteSet(i..Len(Args))
    BY FS_Interval
  <1>2. FlagsFrom(i) \subseteq i..Len(Args)
    BY DEF FlagsFrom
  <1>3. IsFiniteSet(FlagsFrom(i))
    BY <1>1, <1>2, FS_Subset
  <1> QED BY <1>3, FS_CardinalityType

\* An entry before the entries of later arguments.
LEMMA EntryBefore ==
  ASSUME Len(Args) \in Nat, NEW i \in 1..Len(Args), NEW j \in Nat, i < j, NEW s, ParsedRight(j, s),
         NEW entry \in [name : {t.name : t \in Tokens}, value : Nat],
         Args[entry.value] = Word \/ (IsFlag(entry.value) /\ Args[entry.value].name = entry.name),
         FlagsFrom(i) = FlagsFrom(j) \cup {i}
  PROVE  ParsedRight(i, <<entry>> \o s)
  <1> DEFINE E == [name : {t.name : t \in Tokens}, value : Nat]
  <1>1. s \in Seq(E) /\ Len(s) = Cardinality(FlagsFrom(j)) /\ entry \in E
    BY DEF ParsedRight
  <1>2. PICK u : u = <<entry>> \o s  OBVIOUS
  <1> HIDE DEF E
  <1>3. u \in Seq(E) /\ Len(u) = Len(s) + 1 /\ u[1] = entry /\ \A x \in 1..Len(s) : u[x + 1] = s[x]
    BY <1>1, <1>2
  <1>4. \A x \in 1..Len(u) : x = 1 \/ (x - 1 \in 1..Len(s) /\ u[x] = s[x - 1])
    BY <1>1, <1>3
  <1>5. \A x \in 1..Len(u) : Args[u[x].value] = Word \/ (IsFlag(u[x].value) /\ Args[u[x].value].name = u[x].name)
    BY ZenonT(60), <1>3, <1>4 DEF ParsedRight
  <1>6. i \notin FlagsFrom(j)
    BY DEF FlagsFrom
  <1>7. IsFiniteSet(FlagsFrom(j))
    BY FlagsFinite
  <1>8. Cardinality(FlagsFrom(i)) = Cardinality(FlagsFrom(j)) + 1
    BY <1>6, <1>7, FS_AddElement
  <1> QED BY <1>1, <1>2, <1>3, <1>5, <1>8 DEF ParsedRight, E

LEMMA ParseRight ==
  ASSUME Len(Args) \in Nat, \A i \in 1..Len(Args) : Args[i] \in Tokens
  PROVE  ParsedRight(1, parseRawArgs)
  <1>0. PICK n \in Nat : n = Len(Args)
    OBVIOUS
  <1> DEFINE U == {m \in 0..(n + 1) : ~ParsedRight(n + 2 - m, ParseFrom[n + 2 - m])}
  <1>1. ASSUME NEW i \in 1..(n + 2),
               i <= n => ParsedRight(i + 1, ParseFrom[i + 1]) /\ ParsedRight(i + 2, ParseFrom[i + 2])
        PROVE  ParsedRight(i, ParseFrom[i])
    <2>1. ParseFrom[i] = IF i > n THEN <<>> ELSE parseRawArg(i, ParseFrom[i + 1], ParseFrom[i + 2])
      BY <1>0, ParseUnfolds
    <2>2. ASSUME FlagsFrom(i) = {} PROVE ParsedRight(i, <<>>)
      <3>1. Cardinality(FlagsFrom(i)) = 0
        BY <2>2, FS_EmptySet
      <3> QED BY <3>1 DEF ParsedRight
    <2>3. CASE i > n
      <3>1. i..Len(Args) = {}
        BY <1>0, <2>3
      <3>2. FlagsFrom(i) = {}
        BY <3>1 DEF FlagsFrom
      <3> QED BY <2>1, <2>2, <2>3, <3>2
    <2>4. CASE i <= n
      <3>0. /\ i \in 1..Len(Args) /\ i..Len(Args) = {i} \cup (i + 1)..Len(Args) /\ i \in Nat /\ i + 1 \in Nat /\ i + 2 \in Nat
            /\ ~(i > n)
        BY <1>0, <2>4
      <3>1. PICK nx : nx = ParseFrom[i + 1]  OBVIOUS
      <3>2. PICK af : af = ParseFrom[i + 2]  OBVIOUS
      <3>3. ParsedRight(i + 1, nx) /\ ParsedRight(i + 2, af) /\ ParseFrom[i] = parseRawArg(i, nx, af)
        BY <1>1, <2>1, <2>4, <3>0, <3>1, <3>2
      <3>4. PICK t : t = Args[i]  OBVIOUS
      <3>5. t \in Tokens /\ t.name \in {x.name : x \in Tokens}
        BY <3>0, <3>4
      <3>6. CASE Stops(i)
        <4>1. Args[i] = End
          BY <3>6 DEF Stops, Args
        <4>2. FlagsFrom(i) = {}
          BY <3>0, <4>1 DEF FlagsFrom
        <4>3. ParseFrom[i] = <<>>
          BY <3>3, <3>6 DEF parseRawArg
        <4> QED BY <2>2, <4>2, <4>3
      <3>7. CASE ~Stops(i) /\ t.form \notin Forms
        <4>1. Args[i] # End /\ ~IsFlag(i)
          BY <3>4, <3>7 DEF Stops, Args, IsFlag
        <4>2. FlagsFrom(i) = FlagsFrom(i + 1)
          BY <3>0, <4>1 DEF FlagsFrom
        <4>3. ParseFrom[i] = nx
          BY <3>3, <3>4, <3>7 DEF parseRawArg, Args
        <4> QED BY <3>3, <4>2, <4>3 DEF ParsedRight
      <3>8. CASE ~Stops(i) /\ t.form \in Forms
        <4>0. Args[i] # End /\ IsFlag(i)
          BY <3>4, <3>8 DEF Stops, Args, IsFlag
        <4> DEFINE takes == t.form = "bare" /\ i < Len(Args) /\ Args[i + 1] = Word
        <4>1. FlagsFrom(i) = FlagsFrom(i + 1) \cup {i}
          BY <3>0, <4>0 DEF FlagsFrom
        <4>2. PICK entry : entry = [name |-> t.name, value |-> IF takes THEN i + 1 ELSE i]  OBVIOUS
        <4>3. ParseFrom[i] = <<entry>> \o (IF takes THEN af ELSE nx)
          BY <3>3, <3>4, <3>8, <4>2 DEF parseRawArg, Args
        <4>4. entry.name = t.name /\ entry.value = (IF takes THEN i + 1 ELSE i)
          BY <4>2
        <4>5. entry \in [name : {x.name : x \in Tokens}, value : Nat]
          BY <3>0, <3>5, <4>2
        <4>6. CASE takes
          <5>1. i + 1 \in 1..Len(Args) /\ (i + 1)..Len(Args) = {i + 1} \cup (i + 2)..Len(Args)
            BY <1>0, <3>0, <4>6
          <5>2. Args[i + 1] # End /\ ~IsFlag(i + 1)
            BY <4>6, TokenFacts DEF IsFlag
          <5>3. FlagsFrom(i + 1) = FlagsFrom(i + 2)
            BY <5>1, <5>2 DEF FlagsFrom
          <5>4. Args[entry.value] = Word /\ ParseFrom[i] = <<entry>> \o af /\ i < i + 2
            BY <3>0, <4>3, <4>4, <4>6
          <5> HIDE DEF takes
          <5> QED BY <1>0, <3>0, <3>3, <4>1, <4>5, <5>3, <5>4, EntryBefore
        <4>7. CASE ~takes
          <5>1. entry.value = i /\ ParseFrom[i] = <<entry>> \o nx /\ i < i + 1
            BY <3>0, <4>3, <4>4, <4>7
          <5> HIDE DEF takes
          <5> QED BY <1>0, <3>0, <3>3, <3>4, <4>0, <4>1, <4>4, <4>5, <5>1, EntryBefore
        <4> QED BY <4>6, <4>7
      <3> QED BY <3>6, <3>7, <3>8
    <2> QED BY <1>0, <2>3, <2>4
  <1>2. U = {}
    <2> SUFFICES ASSUME U # {} PROVE FALSE  OBVIOUS
    <2>1. PICK m \in U : \A j \in U : m <= j
      <3> HIDE DEF U
      <3>1. U \in SUBSET Nat
        BY <1>0 DEF U
      <3> QED BY <3>1, LeastNatural
    <2>2. m \in 0..(n + 1) /\ ~ParsedRight(n + 2 - m, ParseFrom[n + 2 - m])
      OBVIOUS
    <2>3. PICK i : i = n + 2 - m  OBVIOUS
    <2>4. i \in 1..(n + 2)
      BY <1>0, <2>2, <2>3
    <2>5. ASSUME NEW j, j = i + 1 \/ j = i + 2, i <= n PROVE ParsedRight(j, ParseFrom[j])
      <3>1. PICK x : x = n + 2 - j  OBVIOUS
      <3>2. x \in 0..(n + 1) /\ ~(m <= x) /\ n + 2 - x = j
        <4>1. j \in Nat /\ i \in Nat /\ m \in Nat /\ i < j /\ j <= n + 2 /\ 1 <= j
          BY <1>0, <2>2, <2>4, <2>5
        <4> QED BY <1>0, <2>3, <3>1, <4>1
      <3>3. x \notin U
        <4> HIDE DEF U
        <4> QED BY <2>1, <3>2
      <3> QED BY <3>2, <3>3
    <2>6. ParsedRight(i, ParseFrom[i])
      BY <1>1, <2>4, <2>5
    <2> QED BY <2>2, <2>3, <2>6
  <1>3. n + 1 \in 0..(n + 1) /\ n + 2 - (n + 1) = 1
    BY <1>0
  <1> QED BY <1>2, <1>3 DEF parseRawArgs

LEMMA ArgsParsed ==
  ASSUME LoadTyped
  PROVE  ArgsParsedOnce
  <1>1. PICK n \in Nat : options.args \in [1..n -> Tokens]
    BY DEF LoadTyped, Inputs
  <1>2. Len(Args) = n /\ DOMAIN Args = 1..n /\ Args \in Seq(Tokens)
    BY <1>1 DEF Args
  <1>3. ParsedRight(1, parseRawArgs)
    BY <1>1, <1>2, ParseRight DEF Args
  <1>4. PICK entries : entries = parseRawArgs  OBVIOUS
  <1>5. DOMAIN entries = 1..Len(entries)
    BY <1>3, <1>4 DEF ParsedRight
  <1>6. FlagsFrom(1) = {i \in DOMAIN Args : Args[i].form \in Forms /\ \A e \in {j \in DOMAIN Args : Args[j] = End} : i < e}
    BY <1>2 DEF FlagsFrom, IsFlag
  <1>7. Len(entries) = Cardinality(FlagsFrom(1))
        /\ \A j \in 1..Len(entries) : Args[entries[j].value] = Word
             \/ (IsFlag(entries[j].value) /\ Args[entries[j].value].name = entries[j].name)
    BY <1>3, <1>4 DEF ParsedRight
  <1> QED BY <1>4, <1>5, <1>6, <1>7 DEF ArgsParsedOnce, IsFlag, Args

\* LoadExact, in every behaviour, for any number of loads and arguments: what a load gives
\* comes from the source with the last say, and each flag before "--" is read once.
THEOREM LoadExactAlways == Spec => []LoadExact
  <1>1. Init => LoadInv
    BY LoadStarts
  <1>2. [Next]_vars => [LoadNext]_loadVars
    BY DEF Next, vars, loadVars
  <1>3. LoadInv /\ [Next]_vars => LoadInv'
    BY <1>2, LoadStep
  <1>4. LoadInv => LoadExact
    BY LoadPriority, ArgsParsed DEF LoadExact, LoadInv
  <1> QED BY <1>1, <1>3, <1>4, PTL DEF Spec
=============================================================================
