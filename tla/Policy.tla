-------------------------------- MODULE Policy --------------------------------
(***************************************************************************)
(* The routing policy: the validation that accepts or rejects a            *)
(* configuration when the gateway starts (config.py), the resolution of    *)
(* each request against the accepted one (policy.py), and the two checks   *)
(* of the handler that complete it (server.py:139-147).                    *)
(*                                                                         *)
(* A configuration is a record whose fields are those of GatewayConfig     *)
(* that routing looks at.  Tuples are sequences where their order or a     *)
(* duplicate matters, and sets where neither does.                         *)
(***************************************************************************)
EXTENDS Integers, Sequences, FiniteSets

CONSTANTS
  Configs,        \* the configurations the gateway may be started with
  Requests,       \* [tenant, models, model, endpoint, header, body]: the
                  \* principal's tenant and models ({} allows all), the
                  \* model and endpoint (method and path) asked for, and the
                  \* two ways to state a privacy class
  Listing,        \* the endpoint GET /v1/models
  None            \* Python's None: a flag or a class not given

Classes == {"standard", "sensitive", "restricted"}
NeedsLocal(class) == class \in {"sensitive", "restricted"}

VARIABLES config, phase, request, decision

vars == <<config, phase, request, decision>>

Elements(s) == {s[i] : i \in DOMAIN s}

(* What parsing makes of a configuration: tuples and, for the global        *)
(* redaction, a flag; and of a request: only the listing names no model.    *)
IsTuple(s) == s \in Seq(Elements(s))

ASSUME PolicyAssumption ==
  /\ None \notin BOOLEAN /\ None \notin Classes
  /\ \A cfg \in Configs :
       /\ IsTuple(cfg.routes) /\ IsTuple(cfg.tenants) /\ IsTuple(cfg.rules)
       /\ \A t \in Elements(cfg.tenants) : IsTuple(t.backends)
       /\ cfg.redact \in BOOLEAN
  /\ \A req \in Requests : req.model = None <=> req.endpoint = Listing

(* The position of the first, and of the last, element of s in set S; 0 if  *)
(* there is none.                                                           *)
First(s, S) ==
  IF \E i \in DOMAIN s : s[i] \in S
  THEN CHOOSE i \in DOMAIN s : s[i] \in S /\ \A j \in 1..(i - 1) : s[j] \notin S
  ELSE 0
Last(s, S) ==
  IF \E i \in DOMAIN s : s[i] \in S
  THEN CHOOSE i \in DOMAIN s : s[i] \in S /\ \A j \in (i + 1)..Len(s) : s[j] \notin S
  ELSE 0

(* Routes and tenant policies are looked up in dictionaries built from the  *)
(* tuples: the last of a name wins.                                         *)
Route(cfg, name) == Last(cfg.routes, {r \in Elements(cfg.routes) : r.name = name})
TenantPolicy(cfg, tenant) ==
  Last(cfg.tenants, {t \in Elements(cfg.tenants) : t.tenant = tenant})
-------------------------------------------------------------------------------
RouteNames(cfg) == {r.name : r \in Elements(cfg.routes)}
PolicyTenants(cfg) == {t.tenant : t \in Elements(cfg.tenants)}
AllModels(cfg) == UNION {r.models : r \in Elements(cfg.routes)}

(* _parse_route, _parse_endpoint and parse_config: routes need models and   *)
(* endpoints; some way to authenticate; static keys name known models.      *)
ValidRoutes(cfg) ==
  /\ cfg.routes # <<>>
  /\ \A r \in Elements(cfg.routes) : r.models # {} /\ r.endpoints # {}

ValidKeys(cfg) ==
  /\ cfg.keys # {} \/ cfg.dynamicAuth
  /\ \A key \in cfg.keys : key.models \subseteq AllModels(cfg)

AuthTenants(cfg) == {key.tenant : key \in cfg.keys}

(* _validate_policy, the bindings of tenants. *)
ValidTenants(cfg) ==
  /\ cfg.tenants # <<>>
  /\ Cardinality(PolicyTenants(cfg)) = Len(cfg.tenants)
  /\ AuthTenants(cfg) \subseteq PolicyTenants(cfg)
  /\ ~cfg.dynamicAuth => PolicyTenants(cfg) \subseteq AuthTenants(cfg)
  /\ \A t \in Elements(cfg.tenants) :
       /\ t.models # {} /\ t.models \subseteq AllModels(cfg)
       /\ t.backends # <<>> /\ Elements(t.backends) \subseteq RouteNames(cfg)
       /\ t.classes \subseteq Classes

(* _validate_policy, the lists of redact_before_forward. *)
ValidRedaction(cfg) ==
  /\ cfg.redactTenants \subseteq PolicyTenants(cfg)
  /\ cfg.redactRoutes \subseteq RouteNames(cfg)
  /\ cfg.redactClasses \subseteq Classes

(* Mutant: a rule may name a backend outside the tenant's allowlist. *)
ValidRuleAnyBackend(cfg, rule) ==
  /\ rule.tenant \in PolicyTenants(cfg)
  /\ rule.backend \in RouteNames(cfg)
  /\ rule.class \in Classes
  /\ LET tenant == cfg.tenants[TenantPolicy(cfg, rule.tenant)]
         backend == cfg.routes[Route(cfg, rule.backend)]
     IN /\ rule.model \in tenant.models \cap backend.models
        /\ rule.class \in tenant.classes
        /\ NeedsLocal(rule.class) => backend.local

(* _validate_policy, the routing rules. *)
ValidRule(cfg, rule) ==
  /\ rule.tenant \in PolicyTenants(cfg)
  /\ rule.backend \in RouteNames(cfg)
  /\ rule.class \in Classes
  /\ LET tenant == cfg.tenants[TenantPolicy(cfg, rule.tenant)]
         backend == cfg.routes[Route(cfg, rule.backend)]
     IN /\ rule.model \in tenant.models \cap backend.models
        /\ rule.backend \in Elements(tenant.backends)
        /\ rule.class \in tenant.classes
        /\ NeedsLocal(rule.class) => backend.local

Key(rule) == <<rule.tenant, rule.model, rule.class>>

ValidRules(cfg) ==
  /\ Cardinality({Key(rule) : rule \in Elements(cfg.rules)}) = Len(cfg.rules)
  /\ \A rule \in Elements(cfg.rules) : ValidRule(cfg, rule)

(* parse_config and _parse_policy: a policy section is consistent if there  *)
(* is one.                                                                  *)
Valid(cfg) ==
  /\ ValidRoutes(cfg) /\ ValidKeys(cfg)
  /\ cfg.enabled => /\ cfg.default \in Classes
                    /\ ValidTenants(cfg) /\ ValidRedaction(cfg) /\ ValidRules(cfg)
-------------------------------------------------------------------------------
Denied == [route |-> 0, redact |-> FALSE]

(* _first_bool *)
FirstBool(flags) ==
  LET i == First(flags, BOOLEAN) IN IF i = 0 THEN FALSE ELSE flags[i]

(* A list of redact_before_forward can only turn redaction on. *)
Listed(condition) == IF condition THEN TRUE ELSE None

(* Mutant: the global default is looked at before the lists. *)
RedactDefaultFirst(cfg, tenant, rule, route, class) ==
  FirstBool(<<IF rule = 0 THEN None ELSE cfg.rules[rule].redact,
              tenant.redact, route.redact, cfg.classRedact[class],
              cfg.redact,
              Listed(tenant.tenant \in cfg.redactTenants),
              Listed(route.name \in cfg.redactRoutes),
              Listed(class \in cfg.redactClasses)>>)

(* _redact_before_forward; rule is a position in cfg.rules, or 0 *)
Redact(cfg, tenant, rule, route, class) ==
  FirstBool(<<IF rule = 0 THEN None ELSE cfg.rules[rule].redact,
              tenant.redact, route.redact, cfg.classRedact[class],
              Listed(tenant.tenant \in cfg.redactTenants),
              Listed(route.name \in cfg.redactRoutes),
              Listed(class \in cfg.redactClasses),
              cfg.redact>>)

(* privacy_class_for_payload: the header wins over the body. *)
Class(cfg, req) ==
  IF req.header # None THEN req.header
  ELSE IF req.body # None THEN req.body
  ELSE cfg.default

(* Mutants: the search does not skip external backends, or those that do    *)
(* not declare the model.                                                   *)
EligibleExternal(cfg, class, models) ==
  {n \in RouteNames(cfg) : models \subseteq cfg.routes[Route(cfg, n)].models}

EligibleAnyModel(cfg, class, models) ==
  {n \in RouteNames(cfg) : NeedsLocal(class) => cfg.routes[Route(cfg, n)].local}

(* The names of the tenant's backends that an allowlist search considers;   *)
(* the listing of models does not look at the model.                        *)
Eligible(cfg, class, models) ==
  {n \in RouteNames(cfg) :
     LET r == cfg.routes[Route(cfg, n)]
     IN /\ NeedsLocal(class) => r.local
        /\ models \subseteq r.models}

FromAllowlist(cfg, tenant, class, models) ==
  LET i == First(tenant.backends, Eligible(cfg, class, models))
  IN IF i = 0 THEN 0 ELSE Route(cfg, tenant.backends[i])

RuleFor(cfg, tenant, model, class) ==
  First(cfg.rules, {r \in Elements(cfg.rules) : Key(r) = <<tenant, model, class>>})

(* The route of a rule, or of the search. *)
Chosen(cfg, tenant, model, class) ==
  LET rule == RuleFor(cfg, tenant.tenant, model, class)
  IN IF rule # 0 THEN Route(cfg, cfg.rules[rule].backend)
     ELSE FromAllowlist(cfg, tenant, class, {model})

(* The checks of the chosen route, whatever chose it. *)
Passes(cfg, tenant, class, route) ==
  /\ route # 0
  /\ cfg.routes[route].name \in Elements(tenant.backends)
  /\ NeedsLocal(class) => cfg.routes[route].local

(* resolve() with a policy *)
Resolve(cfg, tenant, model, class) ==
  LET p == cfg.tenants[TenantPolicy(cfg, tenant)]
      route == Chosen(cfg, p, model, class)
      rule == RuleFor(cfg, tenant, model, class)
  IN IF /\ TenantPolicy(cfg, tenant) # 0
        /\ model \in p.models
        /\ class \in p.classes
        /\ Passes(cfg, p, class, route)
     THEN [route |-> route,
           redact |-> Redact(cfg, p, rule, cfg.routes[route], class)]
     ELSE Denied

(* route_for_models_endpoint() with a policy *)
ResolveListing(cfg, tenant, class) ==
  LET p == cfg.tenants[TenantPolicy(cfg, tenant)]
      route == FromAllowlist(cfg, p, class, {})
  IN IF TenantPolicy(cfg, tenant) # 0 /\ class \in p.classes /\ route # 0
     THEN [route |-> route, redact |-> Redact(cfg, p, 0, cfg.routes[route], class)]
     ELSE Denied

(* Without a policy section: the first route that declares the model, or    *)
(* the first of all for a listing; the privacy class is not looked at.      *)
Legacy(cfg, req) ==
  LET route == First(cfg.routes, {r \in Elements(cfg.routes) : req.model \in r.models})
  IN IF req.endpoint = Listing THEN [route |-> 1, redact |-> cfg.redact]
     ELSE IF route = 0 THEN Denied
     ELSE [route |-> route,
           redact |-> FirstBool(<<cfg.routes[route].redact, cfg.redact>>)]

(* The checks of the handler: the endpoints of the route, and the models of *)
(* the principal if it is bound to any; a GET names no model.               *)
Admits(cfg, req, route) ==
  /\ req.endpoint \in cfg.routes[route].endpoints
  /\ req.model # None /\ req.models # {} => req.model \in req.models

Resolved(cfg, req) ==
  LET class == Class(cfg, req)
  IN IF class \notin Classes THEN Denied
     ELSE IF ~cfg.enabled THEN Legacy(cfg, req)
     ELSE IF req.endpoint = Listing THEN ResolveListing(cfg, req.tenant, class)
     ELSE Resolve(cfg, req.tenant, req.model, class)

Decide(cfg, req) ==
  LET found == Resolved(cfg, req)
  IN IF found # Denied /\ Admits(cfg, req, found.route) THEN found ELSE Denied
-------------------------------------------------------------------------------
Init ==
  /\ config \in Configs
  /\ phase = "starting"
  /\ request = None
  /\ decision = Denied

(* The gateway starts only with a valid configuration. *)
Start ==
  /\ phase = "starting"
  /\ phase' = IF Valid(config) THEN "serving" ELSE "rejected"
  /\ UNCHANGED <<config, request, decision>>

Serve ==
  /\ phase = "serving"
  /\ request' \in Requests
  /\ decision' = Decide(config, request')
  /\ phase' = "decided"
  /\ UNCHANGED config

Finish ==
  /\ phase = "decided"
  /\ phase' = "serving"
  /\ request' = None
  /\ decision' = Denied
  /\ UNCHANGED config

Next == Start \/ Serve \/ Finish

Spec == Init /\ [][Next]_vars
-------------------------------------------------------------------------------
Decided == phase = "decided"
Routed == Decided /\ decision # Denied
TheRoute == config.routes[decision.route]
TheClass == Class(config, request)
ThePolicy == config.tenants[TenantPolicy(config, request.tenant)]

ModelsOf(req) == {req.model} \ {None}

(* What links a request to a route (docs/configuration.md, "Required policy *)
(* links"), as far as the tenant is concerned; a listing names no model.    *)
Linked(req, class, t, r) ==
  /\ class \in t.classes
  /\ ModelsOf(req) \subseteq t.models \cap r.models
  /\ r.name \in Elements(t.backends)
  /\ NeedsLocal(class) => r.local

(* With a policy, no request is routed unless every link holds between what *)
(* was validated at start-up and what is looked up per request, duplicates  *)
(* of names and the order of lists included (policy.py:44-116,              *)
(* server.py:139-147).                                                      *)
RequiredLinks ==
  Routed /\ config.enabled =>
    /\ TenantPolicy(config, request.tenant) # 0
    /\ Linked(request, TheClass, ThePolicy, TheRoute)
    /\ request.endpoint \in TheRoute.endpoints
    /\ request.models = {} \/ ModelsOf(request) \subseteq request.models

(* Conversely a request is denied only if no backend of its tenant is       *)
(* linked to it, its key does not have the model, or a backend that is      *)
(* linked does not have the endpoint: the search settles on a backend       *)
(* before the endpoint is looked at (policy.py:44-116, server.py:139-147).  *)
DenialsAreDue ==
  Decided /\ decision = Denied /\ config.enabled =>
    \/ TheClass \notin Classes
    \/ TenantPolicy(config, request.tenant) = 0
    \/ request.models # {} /\ ~(ModelsOf(request) \subseteq request.models)
    \/ LET linked == {r \in {config.routes[Route(config, n)] : n \in RouteNames(config)} :
                        Linked(request, TheClass, ThePolicy, r)}
       IN linked = {} \/ \E r \in linked : request.endpoint \notin r.endpoints

(* A rule that validation accepts is obeyed: none of the checks of resolve() *)
(* that follow the lookup can turn it into a denial (config.py:507-526,     *)
(* policy.py:61-68).                                                        *)
RulesAreObeyed ==
  Decided /\ config.enabled /\ request.endpoint # Listing =>
    \A rule \in Elements(config.rules) :
      Key(rule) = <<request.tenant, request.model, TheClass>> =>
        LET route == Route(config, rule.backend)
        IN Admits(config, request, route) => decision.route = route

(* A request goes out unredacted only if no redact_before_forward list and  *)
(* no default covers it, or a more specific flag says false                 *)
(* (policy.py:118-136).                                                     *)
ListedIsRedacted ==
  Routed /\ ~decision.redact /\ config.enabled =>
    \/ /\ request.tenant \notin config.redactTenants
       /\ TheRoute.name \notin config.redactRoutes
       /\ TheClass \notin config.redactClasses
       /\ ~config.redact
    \/ FALSE \in {ThePolicy.redact, TheRoute.redact, config.classRedact[TheClass]}
    \/ \E rule \in Elements(config.rules) :
         /\ request.endpoint # Listing
         /\ Key(rule) = <<request.tenant, request.model, TheClass>>
         /\ rule.redact = FALSE
===============================================================================
