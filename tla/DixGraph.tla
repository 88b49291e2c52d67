------------------------------ MODULE DixGraph ------------------------------
(***************************************************************************)
(* dix: from the modules of an App to the list of modules a Build uses.    *)
(*                                                                         *)
(* flattenModuleListWithActive walks the import graph depth first and adds *)
(* a module to the list when it leaves it, so imports come first.  Unless  *)
(* the App was given a profile, it walks twice: once over the modules that *)
(* no profile restricts, to find and resolve a provider of Profile, and    *)
(* once with the profile found.                                            *)
(*                                                                         *)
(* Then the plan cache: goroutines that call Build or Validate of one App. *)
(***************************************************************************)
EXTENDS Integers, Sequences, FiniteSets

CONSTANTS
  Builders, \* goroutines calling App.Build, Validate or Start
  Mods,     \* modules
  ModNames, \* names of modules
  Apps      \* the Apps that are built, AppRecords

Root == 0 \* the App itself: its children are app.roots
Profiles == {"default", "dev"}

\* When a module is active: profiles, excludeProfiles and disabled of moduleSpec.
Always == [profiles |-> {}, exclude |-> {}, disabled |-> FALSE]
OnlyDev == [profiles |-> {"dev"}, exclude |-> {}, disabled |-> FALSE]
NotDev == [profiles |-> {}, exclude |-> {"dev"}, disabled |-> FALSE]
Off == [profiles |-> {}, exclude |-> {}, disabled |-> TRUE]

\* An App: its modules, what each imports, when it is active, and its name if it has one.
NoName == "unnamed"
AppRecords == [
  roots : Seq(Mods), imports : [Mods -> Seq(Mods)], name : [Mods -> ModNames],
  active : [Mods -> [profiles : SUBSET Profiles, exclude : SUBSET Profiles, disabled : BOOLEAN]],
  provider : Mods \cup {0},  \* the module whose provider says "dev", if any
  configured : BOOLEAN,      \* appSpec.profileConfigured
  resolves : BOOLEAN ]       \* the bootstrap plan is valid and the provider does not fail

ASSUME GraphAssumption ==
  IsFiniteSet(Mods) /\ Root \notin Mods /\ NoName \in ModNames /\ Apps \subseteq AppRecords

VARIABLES
  app,      \* the App: roots, imports, names, activity, and who provides Profile
  pass,     \* "bootstrap", "main", then "done" or "failed"
  profile,  \* the profile of the pass
  path,     \* moduleWalkState.path and .visiting: the modules being visited
  visited,  \* moduleWalkState.visited
  known,    \* moduleWalkState.knownNames, as the modules that registered their name
  flat,     \* the list of the visitor
  bootFlat  \* the list of the bootstrap pass

walkVars == <<app, pass, profile, path, visited, known, flat, bootFlat>>

Frame(m) == [mod |-> m, next |-> 1]

WalkInit ==
  /\ app \in { a \in Apps : (a.provider = 0 \/ a.configured) => a.resolves }
  /\ pass = IF app.configured THEN "main" ELSE "bootstrap"
  /\ profile = "default"
  /\ path = <<Frame(Root)>> /\ visited = {} /\ known = {} /\ flat = <<>> /\ bootFlat = <<>>

-----------------------------------------------------------------------------
isActiveForProfile(m, p) ==
  /\ ~app.active[m].disabled /\ p \notin app.active[m].exclude
  /\ app.active[m].profiles = {} \/ p \in app.active[m].profiles

\* Fault: the bootstrap pass takes the modules of the default profile.
BootstrapAsDefault(m) == isActiveForProfile(m, "default")

isActiveForProfileBootstrap(m) ==
  ~app.active[m].disabled /\ app.active[m].profiles = {} /\ app.active[m].exclude = {}

Active(m) == IF pass = "bootstrap" THEN isActiveForProfileBootstrap(m) ELSE isActiveForProfile(m, profile)

Children(m) == IF m = Root THEN app.roots ELSE app.imports[m]
Top == path[Len(path)]
Rest == [path EXCEPT ![Len(path)].next = @ + 1]
Visiting == { path[i].mod : i \in 2..Len(path) }
ModuleAtHand == Children(Top.mod)[Top.next]
SameName(m, n) == m # n /\ app.name[m] # NoName /\ app.name[m] = app.name[n]

Fail == pass' = "failed" /\ UNCHANGED <<app, profile, path, visited, known, flat, bootFlat>>

\* Fault: a module already visited is not recognised.
beginVisitAlways(m) ==
  IF \E n \in known : SameName(m, n) THEN Fail
  ELSE /\ known' = known \cup {m}
       /\ IF m \in Visiting THEN Fail
          ELSE path' = Append(Rest, Frame(m)) /\ UNCHANGED <<app, pass, profile, visited, flat, bootFlat>>

\* beginVisit: the name first, then what was visited, then what is being visited.
beginVisit(m) ==
  IF (\E n \in known : SameName(m, n)) \/ (m \notin visited /\ m \in Visiting) THEN Fail
  ELSE /\ known' = known \cup {m}
       /\ path' = IF m \in visited THEN Rest ELSE Append(Rest, Frame(m))
       /\ UNCHANGED <<app, pass, profile, visited, flat, bootFlat>>

\* walkAll and walkChildren: the next child of the module being visited.
Walk ==
  /\ pass \in {"bootstrap", "main"} /\ Top.next <= Len(Children(Top.mod))
  /\ IF Active(ModuleAtHand)
       THEN beginVisit(ModuleAtHand)
       ELSE path' = Rest /\ UNCHANGED <<app, pass, profile, visited, known, flat, bootFlat>>

\* finishVisit: leave the module.
Finish ==
  /\ pass \in {"bootstrap", "main"} /\ Top.mod # Root /\ Top.next > Len(Children(Top.mod))
  /\ path' = SubSeq(path, 1, Len(path) - 1)
  /\ visited' = visited \cup {Top.mod} /\ flat' = Append(flat, Top.mod)
  /\ UNCHANGED <<app, pass, profile, known, bootFlat>>

InFlat(m) == \E i \in DOMAIN flat : flat[i] = m

\* resolveBuildProfile after the bootstrap pass: a declared Profile is resolved from
\* a container of its own, which may fail; otherwise the profile of the spec is used.
ResolveProfile ==
  /\ pass = "bootstrap" /\ Top.mod = Root /\ Top.next > Len(app.roots)
  /\ IF InFlat(app.provider) /\ ~app.resolves THEN Fail
     ELSE /\ pass' = "main"
          /\ profile' = IF InFlat(app.provider) THEN "dev" ELSE "default"
          /\ path' = <<Frame(Root)>> /\ visited' = {} /\ known' = {}
          /\ flat' = <<>> /\ bootFlat' = flat
          /\ UNCHANGED app

\* newUnvalidatedBuildPlan returns the plan.
Planned ==
  /\ pass = "main" /\ Top.mod = Root /\ Top.next > Len(app.roots)
  /\ pass' = "done"
  /\ UNCHANGED <<app, profile, path, visited, known, flat, bootFlat>>

WalkNext == Walk \/ Finish \/ ResolveProfile \/ Planned

-----------------------------------------------------------------------------
(* What the walk must give, without walking. *)

ActiveIn(boot, m) == IF boot THEN isActiveForProfileBootstrap(m) ELSE isActiveForProfile(m, profile)
ActiveChildren(boot, m) == { Children(m)[i] : i \in { j \in DOMAIN Children(m) : ActiveIn(boot, Children(m)[j]) } }
Closed(boot, S) == ActiveChildren(boot, Root) \subseteq S /\ \A m \in S : ActiveChildren(boot, m) \subseteq S
Reachable(boot) == { m \in Mods : \A S \in SUBSET Mods : Closed(boot, S) => m \in S }
Cyclic(boot) == \E S \in SUBSET Reachable(boot) :
                  S # {} /\ \A m \in S : ActiveChildren(boot, m) \cap S # {}
Ambiguous(boot) == \E m, n \in Reachable(boot) : SameName(m, n)
Bad(boot) == Cyclic(boot) \/ Ambiguous(boot)

\* flattenModuleList returns exactly the active modules that can be reached through
\* active modules, each once and after its imports, and fails exactly when these have
\* an import cycle or share a name; the modules the profile was taken from are among
\* them; and a profile provided by a restricted module decides nothing.
FlattenExact ==
  /\ pass = "done" =>
       /\ ~Bad(FALSE)
       /\ { flat[i] : i \in DOMAIN flat } = Reachable(FALSE) /\ Len(flat) = Cardinality(Reachable(FALSE))
       /\ \A i, j \in DOMAIN flat : flat[j] \in ActiveChildren(FALSE, flat[i]) => j < i
       /\ ~app.configured => /\ { bootFlat[i] : i \in DOMAIN bootFlat } = Reachable(TRUE)
                             /\ Reachable(TRUE) \subseteq Reachable(FALSE)
       /\ profile = "dev" <=> ~app.configured /\ app.provider \in Reachable(TRUE)
  /\ pass = "failed" =>
       Bad(FALSE) \/ (~app.configured /\ (Bad(TRUE) \/ (app.provider \in Reachable(TRUE) /\ ~app.resolves)))

-----------------------------------------------------------------------------
(* appPlanCache. *)

VARIABLES
  declared,  \* the bootstrap modules provide Profile: buildPlanCacheable is false
  current,   \* what the provider would say now, e.g. from the environment
  cache,     \* appPlanCache: NoPlan until ready
  plans,     \* number of plans computed
  builder,   \* where a goroutine is
  got,       \* the plan it computed, then the plan it returns
  seen       \* history: what the provider would have said since its call began

cacheVars == <<declared, current, cache, plans, builder, got, seen>>

NoPlan == [id |-> 0, profile |-> "default"]

CacheInit ==
  /\ declared \in BOOLEAN /\ current = "default"
  /\ cache = NoPlan /\ plans = 0
  /\ builder = [b \in Builders |-> "idle"]
  /\ got = [b \in Builders |-> NoPlan] /\ seen = [b \in Builders |-> {}]

\* The environment the provider reads changes; a configured profile never does.
SetProfile(p) ==
  /\ declared /\ p # current /\ current' = p
  /\ seen' = [b \in Builders |-> IF builder[b] \in {"idle", "done"} THEN seen[b] ELSE seen[b] \cup {p}]
  /\ UNCHANGED <<declared, cache, plans, builder, got>>

\* Fault: a plan is cached although a provider decides the profile.
CacheableAlways == TRUE

buildPlanCacheable == ~declared

\* cachedBuildPlan: what is cached is returned, else a plan is computed.
LookUpPlan(b) ==
  /\ builder[b] = "idle"
  /\ seen' = [seen EXCEPT ![b] = {current}]
  /\ IF buildPlanCacheable /\ cache.id # 0
       THEN got' = [got EXCEPT ![b] = cache] /\ builder' = [builder EXCEPT ![b] = "done"]
       ELSE builder' = [builder EXCEPT ![b] = "compute"] /\ UNCHANGED got
  /\ UNCHANGED <<declared, current, cache, plans>>

ComputePlan(b) ==
  /\ builder[b] = "compute"
  /\ plans' = plans + 1
  /\ got' = [got EXCEPT ![b] = [id |-> plans + 1, profile |-> current]]
  /\ builder' = [builder EXCEPT ![b] = IF buildPlanCacheable THEN "store" ELSE "done"]
  /\ UNCHANGED <<declared, current, cache, seen>>

\* Fault: a goroutine that computed a plan stores it in any case.
StorePlanAlways(b) ==
  /\ builder[b] = "store"
  /\ cache' = got[b] /\ got' = [got EXCEPT ![b] = cache']
  /\ builder' = [builder EXCEPT ![b] = "done"]
  /\ UNCHANGED <<declared, current, plans, seen>>

\* Under the lock: the first to come stores, all return what is stored.
StorePlan(b) ==
  /\ builder[b] = "store"
  /\ cache' = IF cache.id = 0 THEN got[b] ELSE cache
  /\ got' = [got EXCEPT ![b] = cache']
  /\ builder' = [builder EXCEPT ![b] = "done"]
  /\ UNCHANGED <<declared, current, plans, seen>>

CacheNext ==
  \/ \E p \in Profiles : SetProfile(p)
  \/ \E b \in Builders : LookUpPlan(b) \/ ComputePlan(b) \/ StorePlan(b)

\* A Build uses the profile its provider gave during that very call, never one from
\* an earlier Build; and when nothing decides the profile at run time, all calls of
\* one App share one plan however they interleave.
PlansFresh ==
  \A b \in Builders : builder[b] = "done" =>
    /\ got[b].profile \in seen[b]
    /\ ~declared => got[b] = cache
=============================================================================
