------------------------------- MODULE MCApp --------------------------------
(***************************************************************************)
(* An application in one model: part says which piece of it the behaviour  *)
(* is about, the others keep their initial state.  "walk" gives the plan   *)
(* that "container" builds, and "lifecycle" starts and stops what was      *)
(* built; each hands over a finished result, so none of them overlap.      *)
(* "config" loads what the application is configured with.  Its HTTP       *)
(* server has "routes" registered, and requests meet "auth" and then a     *)
(* "handler" with policies; these share no state with the rest.  What runs *)
(* in goroutines of its own is in MCServices.                              *)
(***************************************************************************)
EXTENDS DixLifecycle, DixGraph, DixContainer, AuthEngine, HttpRoutes, ConfigLoad

VARIABLE part

Parts == {"lifecycle", "walk", "cache", "container", "auth", "routes", "handler", "config"}

\* One app and one plan, for the parts that do not look at them.
SomeApp ==
  /\ app = [roots |-> <<>>, imports |-> [m \in Mods |-> <<>>], name |-> [m \in Mods |-> NoName],
            active |-> [m \in Mods |-> Always], provider |-> 0, configured |-> TRUE, resolves |-> TRUE]
  /\ pass = "main" /\ profile = "default" /\ path = <<Frame(Root)>>
  /\ visited = {} /\ known = {} /\ flat = <<>> /\ bootFlat = <<>>
\* One route and the default options.
SomeRoute ==
  /\ route = [method |-> "GET", recover |-> TRUE, policies |-> <<>>] /\ resource = 1
  /\ visit = [v \in Visits |-> NoVisit]
SomeOptions ==
  /\ options = [priority |-> DefaultPriority, ignore |-> TRUE, defaults |-> {}, args |-> <<>>, flag |-> FALSE]
  /\ environ = NoValue /\ load = 0 /\ rank = 0 /\ failed = FALSE /\ k = NoValue /\ config = NoValue
  /\ given = [s \in Sources |-> NoValue]
SomePlan ==
  /\ plan = [provs |-> <<>>, setup |-> "none", invoke |-> "list", loggerFrom |-> "default"]
  /\ at = "validate" /\ registry = <<>> /\ instances = <<>> /\ rtLogger = "default" /\ broken = ""

Init ==
  /\ part \in Parts
  /\ LifecycleInit /\ (part = "lifecycle" \/ decl = [m \in Modules |-> {}])
  /\ IF part = "walk" THEN WalkInit ELSE SomeApp
  /\ CacheInit /\ (part = "cache" \/ ~declared)
  /\ IF part = "container" THEN ContainerInit ELSE SomePlan
  /\ AuthInit /\ (part = "auth" \/ authn = NoManager)
  /\ RoutesInit
  /\ IF part = "handler" THEN HandlerInit ELSE SomeRoute
  /\ IF part = "config" THEN LoadInit ELSE SomeOptions

Next ==
  /\ UNCHANGED part
  /\ IF part = "lifecycle" THEN LifecycleNext ELSE UNCHANGED lifecycleVars
  /\ IF part = "walk" THEN WalkNext ELSE UNCHANGED walkVars
  /\ IF part = "cache" THEN CacheNext ELSE UNCHANGED cacheVars
  /\ IF part = "container" THEN ContainerNext ELSE UNCHANGED containerVars
  /\ IF part = "auth" THEN AuthNext ELSE UNCHANGED authVars
  /\ IF part = "routes" THEN RoutesNext ELSE UNCHANGED routeVars
  /\ IF part = "handler" THEN HandlerNext ELSE UNCHANGED handlerVars
  /\ IF part = "config" THEN LoadNext ELSE UNCHANGED loadVars

vars == <<part, lifecycleVars, walkVars, cacheVars, containerVars, authVars, routeVars,
          handlerVars, loadVars>>

Spec == Init /\ [][Next]_vars

-----------------------------------------------------------------------------
\* From an App to a built container: the right modules in the right order, a plan that
\* is not stale, a Build that fails only for what validation cannot see, and a
\* container that agrees with the runtime.
BuildExact == FlattenExact /\ PlansFresh /\ ContainerExact

\* A request finds the route it should, and is answered as its policies demand.
HttpExact == RoutesExact /\ HandlerExact

\* What no step does: stop something that others still use (hooks of dependencies, the
\* container), or change what the environment of the process says.
StepsAllowed == DependentsStopFirst /\ NoHookAfterShutdown /\ EnvironmentStays

\* Apps with three modules: diamonds, shared imports, cycles (which the tests build by
\* adding to spec.imports), inactive modules on the way to active ones, two modules
\* of one name, and a provider of Profile in an unrestricted or a restricted module.
AppSet == [
  roots : {<<1>>, <<1, 2>>, <<3, 1>>},
  imports : { <<a, b, c>> : a \in {<<2>>, <<3, 2>>, <<2, 3>>},
                            b \in {<<>>, <<3>>, <<1>>, <<3, 1>>, <<2>>},
                            c \in {<<>>, <<1>>, <<2>>, <<2, 1>>} },
  name : {<<NoName, NoName, NoName>>, <<NoName, "x", "x">>},
  active : { <<Always, b, c>> : b \in {Always, OnlyDev, NotDev, Off}, c \in {Always, OnlyDev} },
  provider : {0, 2, 3}, configured : BOOLEAN, resolves : BOOLEAN ]

\* The bounded inputs of the route tables.
PathSet == {<<"a">>, <<"{x}">>, <<"a","b">>, <<"a","{x}">>, <<"{x}","b">>, <<"{y}","b">>, <<"{x}","{y}">>}
QuerySet == UNION {[1..n -> {"a", "b"}] : n \in 1..2}
=============================================================================
