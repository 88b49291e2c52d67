----------------------------- MODULE AuthEngine -----------------------------
(***************************************************************************)
(* authx: Engine and ProviderManager, and the guard of authx/http that a   *)
(* middleware calls for every request.                                     *)
(*                                                                         *)
(* Check and Can work on a copy of the engine's configuration, taken under *)
(* its lock at their beginning, while other goroutines register providers, *)
(* add hooks and replace the manager or the authorizer.  A provider is     *)
(* known by its verdict on the credentials of its type.                    *)
(***************************************************************************)
EXTENDS Integers, Sequences, FiniteSets

CONSTANTS
  Requests,    \* requests a middleware is serving
  Registrars,  \* goroutines that call RegisterProvider
  MaxSettings  \* bound: calls of SetAuthenticationManager, SetAuthorizer, RegisterHook

Types     == {"password", "token"}
\* A provider accepts, refuses, or succeeds without a principal.
Verdicts  == {"accepts", "refuses", "empty"}
NoManager == 0
Func      == -1   \* an AuthenticationManagerFunc, which accepts and registers nothing

VARIABLES
  managers,   \* the ProviderManagers made so far: providers by credential type
  authn,      \* Engine.authn: an index of managers, NoManager or Func
  authz,      \* Engine.authz: "none", or an authorizer that allows, denies or fails
  hooks,      \* how many hooks are registered
  settings,   \* calls counted against MaxSettings
  req,        \* the requests: where they are and what they work with
  inForce,    \* for each request the managers that were Engine.authn meanwhile
  accepted,   \* one of those accepted its type of credential meanwhile
  allowed,    \* an authorizer that allows was Engine.authz meanwhile
  reg         \* the registrars

engineVars == <<managers, authn, authz, hooks, settings>>
authVars == <<engineVars, req, inForce, accepted, allowed, reg>>

NoRequest == [at |-> "new", type |-> "none", manager |-> NoManager, authorizer |-> "none", hooks |-> 0,
              before |-> {}, after |-> {}, verdict |-> "", status |-> 0]

\* NewEngine without options, or with a manager for all types and an authorizer.
AuthInit ==
  /\ \/ managers = <<>> /\ authn = NoManager /\ authz = "none"
     \/ managers = <<[t \in Types |-> "accepts"]>> /\ authn = 1 /\ authz = "allows"
  /\ hooks = 0 /\ settings = 0
  /\ req = [r \in Requests |-> NoRequest] /\ inForce = [r \in Requests |-> {}]
  /\ accepted = [r \in Requests |-> FALSE] /\ allowed = [r \in Requests |-> FALSE]
  /\ reg = [g \in Registrars |-> [at |-> "new", manager |-> NoManager, type |-> "none", kept |-> TRUE]]

-----------------------------------------------------------------------------
(* What the observer of a request could have seen of the configuration. *)

AcceptsType(ms, m, t) == m = Func \/ (m > 0 /\ ms[m][t] = "accepts")

UnderWay(r) == req[r].at \notin {"new", "answered"}

\* Called after every change of the configuration, with its new values.
Witness(ms, an, az) ==
  /\ inForce' = [r \in Requests |-> IF UnderWay(r) THEN inForce[r] \cup {an} ELSE inForce[r]]
  /\ accepted' = [r \in Requests |->
       accepted[r] \/ (UnderWay(r) /\ \E m \in inForce'[r] : AcceptsType(ms, m, req[r].type))]
  /\ allowed' = [r \in Requests |-> allowed[r] \/ (UnderWay(r) /\ az = "allows")]

-----------------------------------------------------------------------------
(* Configuration. *)

NewManager == [t \in Types |-> "none"]

\* Fault: a manager is made for every call.
resolveAlwaysNew(g, t) ==
  /\ reg[g].at = "new"
  /\ managers' = Append(managers, NewManager) /\ authn' = Len(managers) + 1
  /\ reg' = [reg EXCEPT ![g] = [at |-> "resolved", manager |-> authn', type |-> t, kept |-> TRUE]]

\* resolveProviderRegistrar, under the engine's lock.
resolveProviderRegistrar(g, t) ==
  /\ reg[g].at = "new"
  /\ IF authn = NoManager
       THEN managers' = Append(managers, NewManager) /\ authn' = Len(managers) + 1
       ELSE UNCHANGED <<managers, authn>>
  /\ reg' = [reg EXCEPT ![g] = [at |-> IF authn' = Func THEN "unsupported" ELSE "resolved",
                                manager |-> authn', type |-> t, kept |-> TRUE]]

RegisterProvider(g) ==
  \E t \in Types : resolveProviderRegistrar(g, t) /\ Witness(managers', authn', authz)
                   /\ UNCHANGED <<authz, hooks, settings, req>>

\* ProviderManager.Register, after the lock is released: the last one wins.
Register(g) ==
  /\ reg[g].at = "resolved"
  /\ \E v \in Verdicts :
       managers' = [managers EXCEPT ![reg[g].manager] = [@ EXCEPT ![reg[g].type] = v]]
  /\ reg' = [reg EXCEPT ![g].at = "done"]
  /\ Witness(managers', authn, authz) /\ UNCHANGED <<authn, authz, hooks, settings, req>>

Setting == settings < MaxSettings /\ settings' = settings + 1

SetAuthenticationManager ==
  /\ Setting
  /\ \/ authn' = Func /\ UNCHANGED managers
     \/ authn' = Len(managers) + 1 /\ managers' = Append(managers, NewManager)
  /\ reg' = [g \in Registrars |-> [reg[g] EXCEPT !.kept = FALSE]]
  /\ Witness(managers', authn', authz) /\ UNCHANGED <<authz, hooks, req>>

SetAuthorizer ==
  /\ Setting /\ \E a \in {"allows", "denies", "fails"} : authz' = a
  /\ Witness(managers, authn, authz') /\ UNCHANGED <<managers, authn, hooks, req, reg>>

RegisterHook ==
  /\ Setting /\ hooks' = hooks + 1
  /\ UNCHANGED <<managers, authn, authz, req, inForce, accepted, allowed, reg>>

-----------------------------------------------------------------------------
(* A request.  An error is the set of the sentinels in its chain. *)

StatusCodeFromError(err) ==
  IF err \cap {"ManagerNotConfigured", "AuthorizerNotConfigured"} # {} THEN 500
  ELSE IF err \cap {"InvalidCredential", "ProviderNotFound", "Unauthenticated"} # {} THEN 401
  ELSE IF err \cap {"PrincipalNotFound", "InvalidModel"} # {} THEN 403
  ELSE 500

\* The middleware answers for an error.
Refuse(r, err) == req' = [req EXCEPT ![r] = [@ EXCEPT !.at = "answered", !.status = StatusCodeFromError(err)]]
AuthGoto(r, f) == req' = [req EXCEPT ![r] = f]

\* The middleware calls Guard.Require, whose resolver finds a credential, finds none or
\* fails; then Check copies manager and hooks.
Check(r) ==
  /\ req[r].at = "new"
  /\ \/ \E t \in Types :
          /\ inForce' = [inForce EXCEPT ![r] = {authn}]
          /\ accepted' = [accepted EXCEPT ![r] = AcceptsType(managers, authn, t)]
          /\ allowed' = [allowed EXCEPT ![r] = authz = "allows"]
          /\ IF authn = NoManager
               THEN req' = [req EXCEPT ![r] = [NoRequest EXCEPT !.at = "answered", !.type = t,
                                               !.status = StatusCodeFromError({"ManagerNotConfigured"})]]
               ELSE req' = [req EXCEPT ![r] = [NoRequest EXCEPT !.at = "before check", !.type = t,
                                               !.manager = authn, !.hooks = hooks]]
     \/ \E err \in {{"InvalidCredential"}, {}} : Refuse(r, err) /\ UNCHANGED <<inForce, accepted, allowed>>
  /\ UNCHANGED <<engineVars, reg>>

\* runBeforeCheckHooks, runBeforeCanHooks: the first one that fails ends the request.
RunBefore(r, from, to) ==
  /\ req[r].at = from
  /\ \/ AuthGoto(r, [req[r] EXCEPT !.at = to, !.before = 1..req[r].hooks, !.after = {}])
     \/ req[r].hooks > 0 /\ Refuse(r, {})
  /\ UNCHANGED <<engineVars, inForce, accepted, allowed, reg>>

\* ProviderManager.Authenticate: the provider for the credential's type; its error is
\* joined with ErrUnauthenticated.
Lookup(r) == IF req[r].manager = Func THEN "accepts" ELSE managers[req[r].manager][req[r].type]

\* Fault: the hooks are read again.
AfterCheckRereads(r, v) ==
  AuthGoto(r, [req[r] EXCEPT !.at = "checked", !.after = 1..hooks, !.verdict = v])

\* runAfterCheckHooks, for the hooks of the copy.
AfterCheck(r, v) ==
  AuthGoto(r, [req[r] EXCEPT !.at = "checked", !.after = 1..req[r].hooks, !.verdict = v])

Authenticate(r) ==
  /\ req[r].at = "authenticate"
  /\ AfterCheck(r, Lookup(r))
  /\ UNCHANGED <<engineVars, inForce, accepted, allowed, reg>>

\* Fault: a result without a principal goes on to the authorizer.
principalUnchecked(r) == {}

\* What the guards require of a result: a principal, and for TypedGuard one of its type.
principalFromResult(r) == IF req[r].verdict = "empty" THEN {"PrincipalNotFound"} ELSE {}

\* The errors of Check, and then those of the guard.
CheckError(r) ==
  CASE req[r].verdict = "none"    -> {"ProviderNotFound"}
    [] req[r].verdict = "refuses" -> {"Unauthenticated"}
    [] OTHER                      -> principalFromResult(r)

\* Require resolves the authorization model, which may fail or be incomplete, and Can
\* copies authorizer and hooks.
Can(r) ==
  /\ req[r].at = "checked"
  /\ IF CheckError(r) # {} THEN Refuse(r, CheckError(r))
     ELSE \/ \E err \in {{}, {"InvalidModel"}} : Refuse(r, err)
          \/ authz = "none" /\ Refuse(r, {"AuthorizerNotConfigured"})
          \/ authz # "none" /\ AuthGoto(r, [req[r] EXCEPT !.at = "before can", !.authorizer = authz, !.hooks = hooks])
  /\ UNCHANGED <<engineVars, inForce, accepted, allowed, reg>>

\* Fault: a decision is looked at without the error it came with.
AnswerFailOpen(r) == IF req[r].authorizer = "denies" THEN 403 ELSE 200

\* The answer of the middleware to the decision and error of Can.
Answer(r) ==
  CASE req[r].authorizer = "allows" -> 200
    [] req[r].authorizer = "denies" -> 403
    [] OTHER                        -> StatusCodeFromError({})

\* Authorize, and runAfterCanHooks.
Authorize(r) ==
  /\ req[r].at = "authorize"
  /\ AuthGoto(r, [req[r] EXCEPT !.at = "answered", !.after = 1..req[r].hooks, !.status = Answer(r)])
  /\ UNCHANGED <<engineVars, inForce, accepted, allowed, reg>>

-----------------------------------------------------------------------------
AuthNext ==
  \/ SetAuthenticationManager \/ SetAuthorizer \/ RegisterHook
  \/ \E g \in Registrars : RegisterProvider(g) \/ Register(g)
  \/ \E r \in Requests :
       \/ Check(r) \/ RunBefore(r, "before check", "authenticate") \/ Authenticate(r)
       \/ Can(r) \/ RunBefore(r, "before can", "authorize") \/ Authorize(r)

-----------------------------------------------------------------------------
(* Properties. *)

\* A request reaches the handler only if, between its beginning and now, a manager in
\* force accepted its credential and an authorizer in force allowed it: what was
\* replaced before the request began no longer lets anyone in.
ServedOnlyIfAllowed == \A r \in Requests : req[r].status = 200 => accepted[r] /\ allowed[r]

\* Whatever is registered meanwhile, AfterCheck and AfterCan are called for exactly the
\* hooks whose BeforeCheck and BeforeCan were.
HooksPaired == \A r \in Requests : req[r].after # {} => req[r].after = req[r].before

\* Unless the manager was replaced since it was resolved, what RegisterProvider has
\* registered is found by the next request.
RegisteredFound ==
  \A g \in Registrars : reg[g].at = "done" /\ reg[g].kept =>
    authn > 0 /\ managers[authn][reg[g].type] # "none"

\* Only failures of the setup are answered with 500 once Check has succeeded or failed,
\* and credentials that were refused with 401.
StatusFaithful ==
  \A r \in Requests : req[r].at = "answered" =>
    /\ req[r].verdict \in {"none", "refuses"} => req[r].status = 401
    /\ req[r].verdict = "empty" => req[r].status = 403
    /\ req[r].status = 200 => req[r].verdict = "accepts"

AuthExact == ServedOnlyIfAllowed /\ HooksPaired /\ RegisteredFound /\ StatusFaithful
=============================================================================
