------------------------------ MODULE ApiBoundary ------------------------------
(***************************************************************************)
(* The HTTP boundary of the backend: how a server is launched in local or  *)
(* share mode, which settings its environment resolves to, and what every  *)
(* request passes before a handler runs: the body cap, the documentation   *)
(* guard, the JSON parser, authentication, the budgets of RateLimits, and  *)
(* the validation of parameters.                                           *)
(*                                                                         *)
(* An environment variable is a member of a small set: "unset", the values *)
(* the parser accepts, and one it does not.  A key is named by where it    *)
(* comes from; generated keys are numbered.  The settings are cached when  *)
(* they are first read, after which the environment is not read again.     *)
(* A request is one action: the dependencies and the handlers are          *)
(* coroutines of one event loop and never suspend.                         *)
(*                                                                         *)
(* Name_Fault is the definition Name with one plausible mistake in it.     *)
(***************************************************************************)
EXTENDS RateLimits, FiniteSets

CONSTANTS
  Environments,    \* the environments a server may be launched in
  Hosts            \* the peers of the requests

\* The limiter's subjects: the key's fingerprint, the local client, the peers.
ASSUME SubjectAssumption == {"principal", "local"} \cup Hosts \subseteq Subjects

\* What the parsers tell apart in each variable; KEYS may hold the CLI's manual key.
EnvironmentType ==
  [mode         : {"unset", "local", "share", "unknown"},
   authEnabled  : {"unset", "true", "false", "other"},
   authMode     : {"unset", "api_key", "jwt", "unknown"},
   keys         : {"unset", "blank", "configured", "manual"},
   limitEnabled : {"unset", "true", "false"},
   strategy     : {"unset", "principal", "ip", "unknown"},
   window       : {"unset", "valid", "invalid"},
   maxRequests  : {"unset", "valid", "invalid", "overCeiling"}]

ASSUME EnvironmentAssumption == Environments \subseteq EnvironmentType

VARIABLES
  phase,           \* stopped, prepared, announced, serving or refused
  env,             \* the process environment, until the settings are cached
  launcher,        \* the command that starts the server: cli or uvicorn
  bound,           \* what it binds: loopback or a network address
  auth,            \* the cached ApiAuthSettings
  limits,          \* the cached ApiRateLimitSettings
  generated,       \* how many share keys have been generated
  printed,         \* the generated key in the startup summary
  served           \* the key with which the last request ran a protected handler

launchVars   == <<phase, env, launcher, bound, auth, limits, generated, printed>>
boundaryVars == <<launchVars, served, budgetVars>>

Unread == "unread"
NoSettings == [enabled |-> FALSE]

Key(source) == <<source, 0>>
NoKey == Key("none")
Nobody == Key("nobody")
GeneratedKey(n) == <<"generated", n>>

\* classify_bind_host; a wildcard counts as a network address.
HostClasses == {"loopback", "network", "invalid"}

ManualKeys == {"omitted", "manual", "blank", "comma"}

\* os.getenv with the parsers' case folding.
BoundaryInit ==
  /\ BudgetInit
  /\ phase = "stopped"
  /\ env \in Environments
  /\ launcher = "none"
  /\ bound = "loopback"
  /\ auth = NoSettings
  /\ limits = NoSettings
  /\ generated = 0
  /\ printed = NoKey
  /\ served = Nobody

\* _parse_bool_env: what is no boolean falls back to the default.
BoolOr(value, default) ==
  IF value \in {"true", "false"} THEN value = "true" ELSE default

RunMode == IF env.mode = "unset" THEN "local" ELSE env.mode

AuthEnabled == BoolOr(env.authEnabled, RunMode = "share")

\* get_api_auth_settings does not raise.
AuthResolves ==
  /\ RunMode \in {"local", "share"}
  /\ RunMode = "share" => AuthEnabled
  /\ env.keys # "blank"
  /\ env.authMode # "unknown"


\* Share mode generates a key when none is configured.
NeedsKey == env.keys = "unset" /\ AuthEnabled /\ RunMode = "share"

ResolvedAuth ==
  [enabled   |-> AuthEnabled,
   jwt       |-> env.authMode = "jwt",
   share     |-> RunMode = "share",
   keys      |-> IF NeedsKey THEN {GeneratedKey(generated + 1)}
                 ELSE IF env.keys = "unset" THEN {} ELSE {Key(env.keys)},
   generated |-> IF NeedsKey THEN GeneratedKey(generated + 1) ELSE NoKey]

\* Every reading of the settings resolves them again.
ReadAuth_Fault ==
  /\ auth' = ResolvedAuth
  /\ generated' = generated + (IF NeedsKey THEN 1 ELSE 0)

\* get_api_auth_settings behind its cache.
ReadAuth ==
  /\ auth' = IF auth = NoSettings THEN ResolvedAuth ELSE auth
  /\ generated' = generated + (IF auth = NoSettings /\ NeedsKey THEN 1 ELSE 0)

\* get_api_rate_limit_settings does not raise; the numbers that pass are the
\* constants of RateLimits.
LimitsResolve ==
  /\ RunMode \in {"local", "share"}
  /\ env.strategy # "unknown"
  /\ env.window # "invalid"
  /\ env.maxRequests \notin {"invalid", "overCeiling"}

ResolvedLimits ==
  [enabled  |-> BoolOr(env.limitEnabled, RunMode = "share"),
   strategy |-> IF env.strategy = "unset" THEN "principal" ELSE env.strategy]

\* validate_fastapi_boundary_settings, of settings read now or cached.
Validates ==
  LET a == IF auth = NoSettings THEN ResolvedAuth ELSE auth
  IN  /\ auth = NoSettings => AuthResolves
      /\ limits = NoSettings => LimitsResolve
      /\ a.enabled => ~a.jwt /\ a.keys # {}

CacheSettings ==
  /\ ReadAuth
  /\ limits' = IF limits = NoSettings THEN ResolvedLimits ELSE limits

Refuse ==
  /\ phase' = "refused"
  /\ env' = Unread
  /\ UNCHANGED <<auth, limits, generated>>

-----------------------------------------------------------------------------
\* Local mode only binds to loopback (_validate_cli_bind_policy).
BindAllowed(mode, host) ==
  /\ host # "invalid"
  /\ mode = "local" => host = "loopback"

\* The environment the CLI leaves: its mode, and the manual key if one is given.
CliEnvironment(mode, key) ==
  [env EXCEPT !.mode = mode, !.keys = IF key = "omitted" THEN @ ELSE key]

\* run_from_args up to the summary.  The option parser knows --api-key only
\* in share mode.  Environment, caches and validation follow one another in
\* the same process; the settings are resolved in the new environment.
RunCli(mode, host, key) ==
  /\ phase = "stopped"
  /\ mode = "local" => key = "omitted"
  /\ launcher' = "cli"
  /\ bound' = host
  /\ IF BindAllowed(mode, host) /\ key \notin {"blank", "comma"}
     THEN /\ phase' = "prepared"
          /\ env' = CliEnvironment(mode, key)
          /\ auth' = NoSettings
          /\ limits' = NoSettings
          /\ UNCHANGED generated
     ELSE Refuse
  /\ UNCHANGED <<printed, served, budgetVars>>

\* prepare_cli_runtime validates the settings, which fills the caches, and
\* the summary prints the key that was generated for them.
AnnounceCli ==
  /\ phase = "prepared"
  /\ IF Validates
     THEN /\ CacheSettings
          /\ printed' = auth'.generated
          /\ phase' = "announced"
          /\ UNCHANGED env
     ELSE Refuse /\ UNCHANGED printed
  /\ UNCHANGED <<launcher, bound, served, budgetVars>>

\* Uvicorn started directly, as the desktop app does: nothing looks at the
\* host, and only the application's lifespan at the settings.
RunUvicorn(host) ==
  /\ phase = "stopped"
  /\ host # "invalid"
  /\ phase' = "announced"
  /\ launcher' = "uvicorn"
  /\ bound' = host
  /\ UNCHANGED <<env, auth, limits, generated, printed, served, budgetVars>>

\* _app_lifespan: the same validation before the first request.
Lifespan ==
  /\ phase = "announced"
  /\ IF Validates
     THEN CacheSettings /\ phase' = "serving" /\ env' = Unread
     ELSE Refuse
  /\ UNCHANGED <<launcher, bound, printed, served, budgetVars>>

-----------------------------------------------------------------------------
\* The route families and who looks after them.
ReadRoutes == {"read", "alerts"}
Commands == {"start", "cancel", "playback"}
Protected == ReadRoutes \cup Commands
Routes == Protected \cup {"health", "detectors", "docs"}

\* Bodies and parameters: over MAX_HTTP_REQUEST_BODY_BYTES, no JSON, outside
\* the schema, or acceptable.
Bodies(route) ==
  CASE route \in {"start", "playback"} -> {"oversized", "malformed", "invalid", "valid"}
    [] route = "cancel" -> {"oversized", "invalid", "valid"}
    [] route \in ReadRoutes \cup {"detectors"} -> {"invalid", "valid"}
    [] OTHER -> {"valid"}

\* The keys a caller may present; surrounding blanks are stripped, a blank
\* header is a missing one.
PresentedKeys == {NoKey, Key("wrong")} \cup auth.keys

\* Whatever key is presented opens the server.
Authenticated_Fault(key) == ~auth.enabled \/ key # NoKey

Authenticated(key) == ~auth.enabled \/ key \in auth.keys

\* build_rate_limit_subject: the key's fingerprint, the local client, the peer.
SubjectOf(key, host) ==
  IF limits.strategy = "ip" THEN host
  ELSE IF auth.enabled THEN "principal" ELSE "local"

\* What the middlewares and the parser turn away before any dependency runs:
\* 413, the hidden documentation, 422.
Passes(route, body) ==
  /\ body \notin {"oversized", "malformed"}
  /\ ~(route = "docs" /\ auth.share)

\* 401 (require_http_principal).
Admitted(route, key) == Authenticated(key) \/ route \notin Protected

\* Once the budgets admit it: parameters are validated, then the handler runs.
Handle(route, body, key) ==
  served' = IF body # "invalid" /\ route \in Protected THEN key ELSE Nobody

\* The answer to each kind of refusal is an ApiDomainError in one envelope.
TurnAway == served' = Nobody

\* The budgets of the route, charged once the caller is known; 429 otherwise.
Budgeted(route, body, key, s) ==
  \/ /\ route = "start"
     /\ \/ ChargeStart(s) /\ Handle(route, body, key)
        \/ (ChargeGuardOnly(s) \/ RefuseStart(s)) /\ TurnAway
  \/ /\ route = "cancel"
     /\ \/ ChargeCancel(s) /\ Handle(route, body, key)
        \/ RefuseCancelOrRead("control", s) /\ TurnAway
  \/ /\ route \in {"playback", "alerts"}
     /\ \/ ChargeRead(route, s) /\ Handle(route, body, key)
        \/ RefuseCancelOrRead(route, s) /\ TurnAway

Limited(route) == limits.enabled /\ route \in Commands \cup {"alerts"}

Request(route, body, key, host) ==
  /\ IF ~Passes(route, body) \/ ~Admitted(route, key)
     THEN TurnAway /\ UNCHANGED <<counters, cancels>>
     ELSE IF Limited(route) THEN Budgeted(route, body, key, SubjectOf(key, host))
     ELSE Handle(route, body, key) /\ UNCHANGED <<counters, cancels>>
  /\ UNCHANGED <<now, launchVars>>

BoundaryTick ==
  /\ phase = "serving"
  /\ Tick
  /\ UNCHANGED <<launchVars, served>>

BoundaryNext ==
  \/ \E mode \in {"local", "share"}, host \in HostClasses, key \in ManualKeys :
       RunCli(mode, host, key)
  \/ AnnounceCli
  \/ \E host \in HostClasses : RunUvicorn(host)
  \/ Lifespan
  \/ /\ phase = "serving"
     /\ \E route \in Routes : \E body \in Bodies(route) :
          \E key \in PresentedKeys, host \in Hosts : Request(route, body, key, host)
  \/ BoundaryTick

BoundarySpec == BoundaryInit /\ [][BoundaryNext]_boundaryVars

-----------------------------------------------------------------------------
\* Whoever the operator gives the printed key to gets in: the key of the
\* startup summary is the one the running server accepts, though the settings
\* are read again after it was printed (api_server_cli, lru_cache).
PrintedKeyAuthenticates ==
  phase = "serving" /\ printed # NoKey => Authenticated(printed) /\ auth.enabled

\* A server in share mode, and one the CLI bound beyond loopback, never runs the
\* handler of a session, alert or playback route for a caller whose key is not
\* one of the server's own; health and the detector list are for anyone
\* (_validate_cli_bind_policy, get_api_auth_settings, authenticate_api_request).
ExposedServesKeyHolders ==
  phase = "serving" /\ (auth.share \/ (launcher = "cli" /\ bound # "loopback"))
    => served \in auth.keys \cup {Nobody}

=============================================================================
