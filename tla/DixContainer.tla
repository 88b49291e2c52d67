---------------------------- MODULE DixContainer ----------------------------
(***************************************************************************)
(* dix: from a flattened plan to a built container: validation of the      *)
(* declared services, their registration in the do injector, the           *)
(* framework's own services, contribution collections, setups and invokes. *)
(*                                                                         *)
(* A service is a name.  "a" and "b" stand for services of the             *)
(* application, "list" and "map" for the collections of one role (the two  *)
(* other maps behave like "map"), "c1" and "c2" for the contributions of   *)
(* the two providers to that role.  A service of the injector is a record: *)
(* what it resolves first, whether its constructor succeeds, its value.    *)
(***************************************************************************)
EXTENDS Integers, Sequences, FiniteSets, TLC

VARIABLES
  plan,      \* the plan and the options of the app
  at,        \* what Build does next, or how it ended
  registry,  \* the injector's services
  instances, \* the services resolved so far, with the logger each was given
  rtLogger,  \* Runtime.logger
  broken     \* the service that could not be resolved, where at = "failed"

containerVars == <<plan, at, registry, instances, rtLogger, broken>>

Contribution(i) == <<"c1", "c2">>[i]
NoInto == [on |-> FALSE, key |-> "", order |-> 0]
Into(k, o) == [on |-> TRUE, key |-> k, order |-> o]
AtMostOne(S) == {{}} \cup { {s} : s \in S }

\* A typed provider: Value, Provider0 and so on, with As and Into.
Provider(out, deps, alias, into) == [out |-> out, deps |-> deps, alias |-> alias, into |-> into]
\* Contribute0, Contribute1 and so on: the only service is the contribution.
Contribute(i, deps, into) == Provider(Contribution(i), deps, "", into)
\* WithLogger, or UseLogger1 and the other options that resolve one from the container.
LoggerOptions == {"default", "configured", "container"}

Plans == [
  provs : { <<p, q>> :
    p \in { Provider(o, d, "", t) : o \in {"logger", "profile", "observer", "a", "list"},
              d \in AtMostOne({"logger", "b", "list"}), t \in {NoInto, Into("", 0), Into("k", 0), Into("k", 1)} }
          \cup { Provider(o, d, "b", NoInto) : o \in {"logger", "observer", "a"}, d \in AtMostOne({"logger", "list"}) },
    q \in { Provider(o, d, "", t) : o \in {"a", "b"}, d \in AtMostOne({"logger", "a", "list"}), t \in {NoInto, Into("k", 0)} }
          \cup { Contribute(2, d, t) : d \in AtMostOne({"logger", "a"}), t \in {Into("k", 0), Into("m", 0)} } },
  setup : {"none", "needs b", "alias b", "override a", "override1 a"},
  invoke : {"b", "list", "map"},
  loggerFrom : LoggerOptions ]

ContainerInit ==
  /\ plan \in Plans /\ at = "validate"
  /\ registry = <<>> /\ instances = <<>> /\ rtLogger = "default" /\ broken = ""

-----------------------------------------------------------------------------
(* What the plan declares. *)

Provs == DOMAIN plan.provs
declaresProviderOutput(s) == \E i \in Provs : plan.provs[i].out = s
Contributors == { i \in Provs : plan.provs[i].into.on }

\* The metadata of a setup: Setup1, or BindAlias, OverrideValue and Override1 of package
\* advanced.
SetupNeeds ==
  CASE plan.setup = "needs b" -> {"b"} [] plan.setup = "alias b" -> {"a"}
    [] plan.setup = "override1 a" -> {"logger"} [] OTHER -> {}
SetupProvides == IF plan.setup = "alias b" THEN <<"b">> ELSE <<>>
SetupOverrides == IF plan.setup \in {"override a", "override1 a"} THEN {"a"} ELSE {}
InvokeNeeds == {plan.invoke}

Outputs(i) == <<plan.provs[i].out>> \o IF plan.provs[i].alias = "" THEN <<>> ELSE <<plan.provs[i].alias>>
CoreNames == SelectSeq(<<"logger", "profile">>, LAMBDA s : ~declaresProviderOutput(s))
Names == Outputs(1) \o Outputs(2) \o SetupProvides
explicitServiceOutputs == { Names[k] : k \in DOMAIN Names }
syntheticOutputs == IF Contributors = {} THEN {} ELSE {"list", "map"} \ explicitServiceOutputs

\* Fault: the alias of a provider is not checked against what is known.
collectOutputsNoAlias == CoreNames \o <<plan.provs[1].out, plan.provs[2].out>> \o SetupProvides

\* collectExplicitOutputs, in order: a name that is already known is an error.
collectOutputs == CoreNames \o Names

Unique(s) == \A k, l \in DOMAIN s : s[k] = s[l] => k = l
KnownNames == { collectOutputs[k] : k \in DOMAIN collectOutputs } \cup syntheticOutputs

\* validateTypedGraphReport gives no error.
Valid ==
  /\ Unique(collectOutputs)
  /\ \A i \in Provs : plan.provs[i].deps \subseteq KnownNames
  /\ SetupNeeds \cup SetupOverrides \cup InvokeNeeds \subseteq KnownNames

-----------------------------------------------------------------------------
(* The injector of samber/do. *)

Service(deps, ok, val) == [deps |-> deps, ok |-> ok, val |-> val]
Entry(name, service) == [name |-> name, is |-> service]

\* Services whose constructor and dependencies succeed; one that depends on itself
\* never does.
Resolvable(reg) ==
  LET Depth[n \in 0..8] ==
        IF n = 0 THEN {}
        ELSE LET S == Depth[n - 1] IN { s \in DOMAIN reg : reg[s].ok /\ reg[s].deps \subseteq S }
  IN Depth[8]
\* A service with all it is made from.
MadeFrom(reg, s) ==
  LET Depth[n \in 0..8] ==
        IF n = 0 THEN {s}
        ELSE LET S == Depth[n - 1] IN S \cup UNION { reg[t].deps : t \in S \cap DOMAIN reg }
  IN Depth[8]

\* A name can be provided once: the second time the injector panics.
CanProvide(reg, entries) ==
  /\ \A k \in DOMAIN entries : entries[k].name \notin DOMAIN reg
  /\ \A k, l \in DOMAIN entries : entries[k].name = entries[l].name => k = l
Add(reg, entries) ==
  reg @@ [ s \in { entries[k].name : k \in DOMAIN entries } |->
             entries[CHOOSE k \in DOMAIN entries : entries[k].name = s].is ]
ProvideAll(entries, next) ==
  IF CanProvide(registry, entries)
    THEN registry' = Add(registry, entries) /\ at' = next
    ELSE at' = "panic" /\ UNCHANGED registry

Without(f, s) == [ t \in DOMAIN f \ {s} |-> f[t] ]
\* do.OverrideNamed: the next resolution gives the new service.
OverrideIn(reg, s, service) == (s :> service) @@ reg

\* What resolving s leaves behind: its instances, each with the logger it was given.
InstancesAfter(s) ==
  instances @@ [ t \in MadeFrom(registry, s) |->
                   IF "logger" \in registry[t].deps THEN registry["logger"].val ELSE "none" ]

\* Resolve s and go on, or let Build fail (cleanupBuildFailure shuts the container).
Resolving(s, next) ==
  IF s \in Resolvable(registry)
    THEN at' = next /\ instances' = InstancesAfter(s) /\ UNCHANGED broken
    ELSE at' = "failed" /\ broken' = s /\ UNCHANGED instances

-----------------------------------------------------------------------------
(* buildPlan.Build. *)

validateTypedGraph ==
  /\ at = "validate" /\ at' = IF Valid THEN "core" ELSE "invalid"
  /\ UNCHANGED <<plan, registry, instances, rtLogger, broken>>

SpecLogger == IF plan.loggerFrom = "configured" THEN "configured" ELSE "default"
CoreEntries == [k \in DOMAIN CoreNames |->
  Entry(CoreNames[k], Service({}, TRUE, IF CoreNames[k] = "logger" THEN SpecLogger ELSE "plan"))]

\* newRuntime and registerRuntimeCoreServices.
RegisterCore ==
  /\ at = "core" /\ ProvideAll(CoreEntries, "config") /\ rtLogger' = SpecLogger
  /\ UNCHANGED <<plan, instances, broken>>

\* What the provider functions register: the service, its aliases, its contributions.
ProviderEntries(i) ==
  LET p == plan.provs[i] IN
  <<Entry(p.out, Service(p.deps, TRUE, "declared"))>>
  \o (IF p.alias = "" THEN <<>> ELSE <<Entry(p.alias, Service({p.out}, TRUE, "alias"))>>)
  \o (IF ~p.into.on \/ p.out = Contribution(i) THEN <<>>
      ELSE <<Entry(Contribution(i), Service({p.out}, TRUE, "contribution"))>>)
registerProviders == ProviderEntries(1) \o ProviderEntries(2)

needsProviderRegistration ==
  plan.loggerFrom = "container" \/ \E s \in {"logger", "profile", "observer"} : declaresProviderOutput(s)

\* prepareFrameworkConfig: the providers are registered early when the framework needs
\* one of them.
PrepareConfig ==
  /\ at = "config"
  /\ IF needsProviderRegistration
       THEN ProvideAll(registerProviders, "profile")
       ELSE at' = "providers" /\ UNCHANGED registry
  /\ UNCHANGED <<plan, instances, rtLogger, broken>>

\* Fault: a declared profile is left to its provider.
applyNoProfile ==
  /\ at = "profile" /\ at' = "logger"
  /\ UNCHANGED <<plan, registry, instances, rtLogger, broken>>

\* applyRuntimeProfile: the profile the plan was made for replaces a declared one.
applyRuntimeProfile ==
  /\ at = "profile" /\ at' = "logger"
  /\ registry' = IF declaresProviderOutput("profile") THEN OverrideIn(registry, "profile", Service({}, TRUE, "plan")) ELSE registry
  /\ UNCHANGED <<plan, instances, rtLogger, broken>>

applyConfiguredLogger ==
  /\ at' = "observers" /\ rtLogger' = "configured"
  /\ registry' = OverrideIn(registry, "logger", Service({}, TRUE, "configured"))
  /\ UNCHANGED <<instances, broken>>

\* Fault: the resolved logger is used by the runtime only.
applyResolvedToRuntime ==
  /\ Resolving("a", "observers")
  /\ rtLogger' = IF at' = "failed" THEN rtLogger ELSE "resolved"
  /\ UNCHANGED registry

\* applyResolvedLogger, with UseLogger1 of "a".
applyResolvedLogger ==
  /\ Resolving("a", "observers")
  /\ rtLogger' = IF at' = "failed" THEN rtLogger ELSE "resolved"
  /\ registry' = IF at' = "failed" THEN registry
                 ELSE OverrideIn(registry, "logger", Service({}, TRUE, "resolved"))

applyDeclaredSlogLogger ==
  /\ Resolving("logger", "observers")
  /\ rtLogger' = IF at' = "failed" THEN rtLogger ELSE "declared"
  /\ UNCHANGED registry

\* An option wins over a resolver, and that over a declared logger.
applyFrameworkLogger ==
  /\ at = "logger" /\ UNCHANGED plan
  /\ CASE plan.loggerFrom = "configured" -> applyConfiguredLogger
       [] plan.loggerFrom = "container" -> applyResolvedLogger
       [] plan.loggerFrom = "default" /\ declaresProviderOutput("logger") -> applyDeclaredSlogLogger
       [] OTHER -> at' = "observers" /\ UNCHANGED <<registry, instances, rtLogger, broken>>

\* applyFrameworkEventLogger, applyFrameworkAppMeta and applyFrameworkObservers resolve
\* what is declared; one such service stands for them.
applyFrameworkObservers ==
  /\ at = "observers"
  /\ IF declaresProviderOutput("observer")
       THEN Resolving("observer", "collections")
       ELSE at' = "collections" /\ UNCHANGED <<instances, broken>>
  /\ UNCHANGED <<plan, registry, rtLogger>>

RegisterProviders ==
  /\ at = "providers" /\ ProvideAll(registerProviders, "collections")
  /\ UNCHANGED <<plan, instances, rtLogger, broken>>

\* Fault: contributions are collected in the order of the modules only.
orderedBySequence ==
  SelectSeq(<<1, 2>>, LAMBDA i : i \in Contributors)

\* orderedContributionRefs: by Order, then in the order of the modules.
orderedContributionRefs ==
  SortSeq(SelectSeq(<<1, 2>>, LAMBDA i : i \in Contributors),
          LAMBDA i, j : \/ plan.provs[i].into.order < plan.provs[j].into.order
                        \/ plan.provs[i].into.order = plan.provs[j].into.order /\ i < j)

\* contributionKey and the duplicate check of the maps.
KeysUsable ==
  /\ \A i \in Contributors : plan.provs[i].into.key # ""
  /\ \A i, j \in Contributors : plan.provs[i].into.key = plan.provs[j].into.key => i = j

\* Fault: a collection is registered whether or not the application provides it.
CollectionEntriesAlways ==
  LET refs == { Contribution(i) : i \in Contributors } IN
  IF Contributors = {} THEN <<>>
  ELSE <<Entry("list", Service(refs, TRUE, orderedContributionRefs)), Entry("map", Service(refs, KeysUsable, "map"))>>

\* registerCollectionProviders for the role, when something contributes to it: each
\* collection type the application does not provide itself.
CollectionEntries ==
  LET refs == { Contribution(i) : i \in Contributors } IN
  IF Contributors = {} THEN <<>>
  ELSE SelectSeq(<<Entry("list", Service(refs, TRUE, orderedContributionRefs)), Entry("map", Service(refs, KeysUsable, "map"))>>,
                 LAMBDA e : e.name \notin explicitServiceOutputs)

RegisterCollections ==
  /\ at = "collections" /\ ProvideAll(CollectionEntries, "setup")
  /\ UNCHANGED <<plan, instances, rtLogger, broken>>

\* OverrideValue, or Override1 with a provider that takes the logger.
SetupOverride == Service(SetupNeeds, TRUE, "override")
SetupEntries == IF plan.setup = "alias b" THEN <<Entry("b", Service({"a"}, TRUE, "alias"))>> ELSE <<>>

\* runModuleSetups.
RunSetup ==
  /\ at = "setup"
  /\ CASE plan.setup = "none" -> at' = "invoke" /\ UNCHANGED <<registry, instances, broken>>
       [] plan.setup = "needs b" -> Resolving("b", "invoke") /\ UNCHANGED registry
       [] plan.setup = "alias b" -> ProvideAll(SetupEntries, "invoke") /\ UNCHANGED <<instances, broken>>
       [] OTHER ->
            /\ registry' = OverrideIn(registry, "a", SetupOverride) /\ instances' = Without(instances, "a")
            /\ at' = "invoke" /\ UNCHANGED broken
  /\ UNCHANGED <<plan, rtLogger>>

\* runModuleInvokes.
RunInvoke ==
  /\ at = "invoke" /\ Resolving(plan.invoke, "built")
  /\ UNCHANGED <<plan, registry, rtLogger>>

ContainerNext ==
  \/ validateTypedGraph \/ RegisterCore \/ PrepareConfig \/ applyRuntimeProfile \/ applyFrameworkLogger
  \/ applyFrameworkObservers \/ RegisterProviders \/ RegisterCollections \/ RunSetup \/ RunInvoke

-----------------------------------------------------------------------------
(* Properties. *)

\* The container as it would be with everything registered.
Final ==
  LET all == Add(<<>>, CoreEntries \o registerProviders \o CollectionEntries \o SetupEntries)
  IN IF "a" \in SetupOverrides /\ broken = plan.invoke THEN OverrideIn(all, "a", SetupOverride) ELSE all
\* What is registered only after the framework's own services were resolved.
LateNames == syntheticOutputs \cup { SetupProvides[k] : k \in DOMAIN SetupProvides }

\* A plan that validates never registers a service twice, and its Build fails only for
\* what validation does not look at: services that need each other, unusable keys of a
\* map, a logger resolver's own needs, or a framework service made from one that is
\* registered later.
ValidPlanBuilds ==
  /\ at # "panic"
  /\ at = "failed" =>
       \/ broken \notin DOMAIN Final
       \/ broken \notin Resolvable(Final)
       \/ broken \in {"a", "logger", "observer"} /\ MadeFrom(Final, broken) \cap LateNames # {}

\* Once the framework is configured, the container's logger is the one the runtime
\* logs with and its profile the one the modules were chosen for; and no service was
\* given another logger, except those the logger resolver itself needed.
FrameworkConsistent ==
  at \in {"collections", "setup", "invoke", "built"} =>
    /\ registry["logger"].val = rtLogger
    /\ registry["profile"].val = "plan"
    /\ \A s \in DOMAIN instances :
         instances[s] \notin {"none", rtLogger} =>
           plan.loggerFrom = "container" /\ s \in MadeFrom(Add(<<>>, CoreEntries \o registerProviders), "a")

\* The list of a role holds each of its contributions once, by Order and then by module.
ContributionsOrdered ==
  (at \in {"setup", "invoke", "built"} /\ "list" \in syntheticOutputs) =>
    LET l == registry["list"].val
        Key(i) == 2 * plan.provs[i].into.order + (i - 1)
    IN { l[k] : k \in DOMAIN l } = Contributors /\ Len(l) = Cardinality(Contributors)
       /\ \A k, m \in DOMAIN l : k < m => Key(l[k]) < Key(l[m])

ContainerExact == ValidPlanBuilds /\ FrameworkConsistent /\ ContributionsOrdered
=============================================================================
