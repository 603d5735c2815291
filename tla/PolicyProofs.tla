----------------------------- MODULE PolicyProofs -----------------------------
(***************************************************************************)
(* For every configuration that validation accepts and every request: what *)
(* resolution looks up is linked as the policy demands, what it denies has *)
(* no link, and rules and redaction lists are obeyed.                      *)
(***************************************************************************)
EXTENDS Policy, FiniteSetTheorems, WellFoundedInduction, TLAPS

(* A set of numbers that has any has a least one. *)
LEMMA Least ==
  ASSUME NEW T \in SUBSET Nat, T # {}
  PROVE  \E i \in T : \A j \in T : i <= j
<1> DEFINE Less == {p \in Nat \X Nat : p[1] < p[2]}
<1>1. IsWellFoundedOn(Less, Nat)
  BY NatLessThanWellFounded DEF OpToRel
<1>2. ASSUME NEW i \in T, NEW j \in T, ~(i <= j) PROVE <<j, i>> \in Less
  BY <1>2
<1>3. \E i \in T : \A j \in T : ~(<<j, i>> \in Less)
  <2> HIDE DEF Less
  <2> QED BY <1>1, WFMin
<1> QED BY <1>2, <1>3

(* Searches through a tuple find the first, and the last, of a set. *)
LEMMA FirstFacts ==
  ASSUME NEW s, IsTuple(s), NEW S
  PROVE  \/ First(s, S) = 0 /\ \A i \in DOMAIN s : s[i] \notin S
         \/ /\ First(s, S) \in DOMAIN s /\ First(s, S) # 0 /\ s[First(s, S)] \in S
            /\ \A j \in 1..(First(s, S) - 1) : s[j] \notin S
<1>1. DOMAIN s = 1..Len(s) /\ Len(s) \in Nat
  BY DEF IsTuple
<1>2. CASE \E i \in DOMAIN s : s[i] \in S
  <2> DEFINE T == {i \in DOMAIN s : s[i] \in S}
  <2>1. T \in SUBSET Nat /\ T # {}
    BY <1>1, <1>2
  <2>2. PICK n \in T : \A j \in T : n <= j
    BY <2>1, Least
  <2>3. n \in DOMAIN s /\ s[n] \in S /\ \A j \in 1..(n - 1) : s[j] \notin S
    BY <1>1, <2>2
  <2>4. \E i \in DOMAIN s : s[i] \in S /\ \A j \in 1..(i - 1) : s[j] \notin S
    BY <2>3
  <2>5. First(s, S) = CHOOSE i \in DOMAIN s : s[i] \in S /\ \A j \in 1..(i - 1) : s[j] \notin S
    BY <1>2 DEF First
  <2>6. /\ First(s, S) \in DOMAIN s /\ s[First(s, S)] \in S
        /\ \A j \in 1..(First(s, S) - 1) : s[j] \notin S
    BY <2>4, <2>5
  <2> QED BY <1>1, <2>6
<1>3. CASE ~\E i \in DOMAIN s : s[i] \in S
  BY <1>3 DEF First
<1> QED BY <1>2, <1>3

LEMMA LastFacts ==
  ASSUME NEW s, IsTuple(s), NEW S
  PROVE  \/ Last(s, S) = 0 /\ \A i \in DOMAIN s : s[i] \notin S
         \/ Last(s, S) \in DOMAIN s /\ Last(s, S) # 0 /\ s[Last(s, S)] \in S
<1>1. DOMAIN s = 1..Len(s) /\ Len(s) \in Nat
  BY DEF IsTuple
<1>2. CASE \E i \in DOMAIN s : s[i] \in S
  <2> DEFINE T == {k \in 0..Len(s) : Len(s) - k \in DOMAIN s /\ s[Len(s) - k] \in S}
  <2>1. T \in SUBSET Nat /\ T # {}
    <3>1. PICK i \in DOMAIN s : s[i] \in S
      BY <1>2
    <3>2. Len(s) - i \in 0..Len(s) /\ Len(s) - (Len(s) - i) = i
      BY <1>1
    <3>3. Len(s) - i \in T
      BY <3>1, <3>2
    <3> QED BY <1>1, <3>3
  <2>2. PICK k \in T : \A j \in T : k <= j
    BY <2>1, Least
  <2> DEFINE n == Len(s) - k
  <2>3. k \in 0..Len(s) /\ n \in DOMAIN s /\ s[n] \in S
    OBVIOUS
  <2>4. ASSUME NEW j \in (n + 1)..Len(s) PROVE s[j] \notin S
    <3>1. Len(s) - j \in 0..Len(s) /\ Len(s) - (Len(s) - j) = j /\ j \in DOMAIN s /\ Len(s) - j < k
      BY <1>1, <2>3
    <3>2. Len(s) - j \notin T
      BY <1>1, <2>2, <2>3, <3>1
    <3> QED BY <3>1, <3>2
  <2>5. \E i \in DOMAIN s : s[i] \in S /\ \A j \in (i + 1)..Len(s) : s[j] \notin S
    BY <2>3, <2>4
  <2>6. Last(s, S) = CHOOSE i \in DOMAIN s : s[i] \in S /\ \A j \in (i + 1)..Len(s) : s[j] \notin S
    BY <1>2 DEF Last
  <2>7. Last(s, S) \in DOMAIN s /\ s[Last(s, S)] \in S
    BY <2>5, <2>6
  <2> QED BY <1>1, <2>7
<1>3. CASE ~\E i \in DOMAIN s : s[i] \in S
  BY <1>3 DEF Last
<1> QED BY <1>2, <1>3
-------------------------------------------------------------------------------
(* The dictionaries give a route and a tenant policy of the name asked for. *)
LEMMA RouteFacts ==
  ASSUME NEW cfg \in Configs, NEW name \in RouteNames(cfg)
  PROVE  /\ Route(cfg, name) \in DOMAIN cfg.routes /\ Route(cfg, name) # 0
         /\ cfg.routes[Route(cfg, name)].name = name
<1> DEFINE S == {r \in Elements(cfg.routes) : r.name = name}
<1>1. IsTuple(cfg.routes)
  BY PolicyAssumption
<1>2. \E i \in DOMAIN cfg.routes : cfg.routes[i] \in S
  BY DEF RouteNames, Elements
<1>3. Route(cfg, name) = Last(cfg.routes, S)
  BY DEF Route
<1>4. Last(cfg.routes, S) \in DOMAIN cfg.routes /\ Last(cfg.routes, S) # 0
      /\ cfg.routes[Last(cfg.routes, S)] \in S
  <2> HIDE DEF S
  <2> QED BY <1>1, <1>2, LastFacts
<1> QED BY <1>3, <1>4

LEMMA TenantFacts ==
  ASSUME NEW cfg \in Configs, NEW tenant
  PROVE  /\ TenantPolicy(cfg, tenant) # 0 <=> tenant \in PolicyTenants(cfg)
         /\ TenantPolicy(cfg, tenant) # 0 =>
              /\ TenantPolicy(cfg, tenant) \in DOMAIN cfg.tenants
              /\ cfg.tenants[TenantPolicy(cfg, tenant)] \in Elements(cfg.tenants)
              /\ cfg.tenants[TenantPolicy(cfg, tenant)].tenant = tenant
<1> DEFINE S == {t \in Elements(cfg.tenants) : t.tenant = tenant}
           n == Last(cfg.tenants, S)
<1>1. IsTuple(cfg.tenants)
  BY PolicyAssumption
<1>2. tenant \in PolicyTenants(cfg) <=> \E i \in DOMAIN cfg.tenants : cfg.tenants[i] \in S
  BY DEF PolicyTenants, Elements
<1>3. TenantPolicy(cfg, tenant) = n
  BY DEF TenantPolicy
<1>4. \/ n = 0 /\ \A i \in DOMAIN cfg.tenants : cfg.tenants[i] \notin S
      \/ n \in DOMAIN cfg.tenants /\ n # 0 /\ cfg.tenants[n] \in S
  <2> HIDE DEF S
  <2> QED BY <1>1, LastFacts
<1>5. n # 0 => cfg.tenants[n] \in Elements(cfg.tenants) /\ cfg.tenants[n].tenant = tenant
  BY <1>4
<1> HIDE DEF n
<1> QED BY <1>2, <1>3, <1>4, <1>5

(* The rule of a key, if there is one, is a rule of the policy. *)
LEMMA RuleFacts ==
  ASSUME NEW cfg \in Configs, NEW tenant, NEW model, NEW class
  PROVE  LET n == RuleFor(cfg, tenant, model, class)
         IN \/ /\ n = 0
               /\ \A rule \in Elements(cfg.rules) : Key(rule) # <<tenant, model, class>>
            \/ /\ n # 0 /\ n \in DOMAIN cfg.rules /\ cfg.rules[n] \in Elements(cfg.rules)
               /\ Key(cfg.rules[n]) = <<tenant, model, class>>
<1> DEFINE S == {r \in Elements(cfg.rules) : Key(r) = <<tenant, model, class>>}
           n == First(cfg.rules, S)
<1>1. IsTuple(cfg.rules)
  BY PolicyAssumption
<1>2. \/ n = 0 /\ \A i \in DOMAIN cfg.rules : cfg.rules[i] \notin S
      \/ n \in DOMAIN cfg.rules /\ n # 0 /\ cfg.rules[n] \in S
  <2> HIDE DEF S
  <2> QED BY <1>1, FirstFacts
<1>3. RuleFor(cfg, tenant, model, class) = n
  BY DEF RuleFor
<1>4. (\A i \in DOMAIN cfg.rules : cfg.rules[i] \notin S) =>
        \A rule \in Elements(cfg.rules) : Key(rule) # <<tenant, model, class>>
  BY DEF Elements
<1>5. n # 0 => cfg.rules[n] \in Elements(cfg.rules) /\ Key(cfg.rules[n]) = <<tenant, model, class>>
  BY <1>2
<1> HIDE DEF n, S
<1> QED BY <1>2, <1>3, <1>4, <1>5

(* The search through the allowlist finds an eligible backend if there is   *)
(* one.                                                                     *)
LEMMA AllowlistFacts ==
  ASSUME NEW cfg \in Configs, NEW t \in Elements(cfg.tenants), NEW class, NEW models
  PROVE  LET n == FromAllowlist(cfg, t, class, models)
         IN \/ /\ n = 0
               /\ \A name \in Elements(t.backends) : name \notin Eligible(cfg, class, models)
            \/ /\ n # 0 /\ \E name \in RouteNames(cfg) : n = Route(cfg, name)
               /\ cfg.routes[n].name \in Elements(t.backends)
               /\ NeedsLocal(class) => cfg.routes[n].local
               /\ models \subseteq cfg.routes[n].models
<1> DEFINE E == Eligible(cfg, class, models)
           i == First(t.backends, E)
<1>1. IsTuple(t.backends)
  BY PolicyAssumption
<1>2. \/ i = 0 /\ \A j \in DOMAIN t.backends : t.backends[j] \notin E
      \/ i \in DOMAIN t.backends /\ i # 0 /\ t.backends[i] \in E
  <2> HIDE DEF E
  <2> QED BY <1>1, FirstFacts
<1>3. FromAllowlist(cfg, t, class, models) = IF i = 0 THEN 0 ELSE Route(cfg, t.backends[i])
  BY DEF FromAllowlist
<1>4. CASE i = 0
  <2>1. \A j \in DOMAIN t.backends : t.backends[j] \notin E
    BY <1>1, <1>2, <1>4
  <2> QED BY <1>3, <1>4, <2>1 DEF Elements
<1>5. CASE i # 0
  <2> DEFINE name == t.backends[i]
  <2>1. name \in E /\ i \in DOMAIN t.backends
    BY <1>2, <1>5
  <2>2. /\ name \in RouteNames(cfg)
        /\ NeedsLocal(class) => cfg.routes[Route(cfg, name)].local
        /\ models \subseteq cfg.routes[Route(cfg, name)].models
    BY <2>1 DEF Eligible
  <2>3. name \in Elements(t.backends)
    BY <2>1 DEF Elements
  <2>4. FromAllowlist(cfg, t, class, models) = Route(cfg, name)
    BY <1>3, <1>5
  <2> HIDE DEF name, E, i
  <2>5. /\ Route(cfg, name) \in DOMAIN cfg.routes /\ Route(cfg, name) # 0
        /\ cfg.routes[Route(cfg, name)].name = name
    BY <2>2, RouteFacts
  <2> QED BY <2>2, <2>3, <2>4, <2>5
<1> QED BY <1>4, <1>5
-------------------------------------------------------------------------------
(* A rule that validation accepts is linked in every respect. *)
LEMMA ValidRuleFacts ==
  ASSUME NEW cfg \in Configs, Valid(cfg), cfg.enabled, NEW rule \in Elements(cfg.rules),
         NEW tenant, NEW model, NEW class, Key(rule) = <<tenant, model, class>>
  PROVE  LET t == cfg.tenants[TenantPolicy(cfg, tenant)]
             r == cfg.routes[Route(cfg, rule.backend)]
         IN /\ class \in Classes /\ TenantPolicy(cfg, tenant) # 0
            /\ rule.backend \in RouteNames(cfg) /\ Route(cfg, rule.backend) # 0
            /\ model \in t.models /\ model \in r.models /\ class \in t.classes
            /\ r.name \in Elements(t.backends)
            /\ NeedsLocal(class) => r.local
<1>1. rule.tenant = tenant /\ rule.model = model /\ rule.class = class
  BY DEF Key
<1>2. ValidRule(cfg, rule)
  BY DEF Valid, ValidRules
<1>3. /\ class \in Classes /\ tenant \in PolicyTenants(cfg) /\ rule.backend \in RouteNames(cfg)
      /\ model \in cfg.tenants[TenantPolicy(cfg, tenant)].models
      /\ model \in cfg.routes[Route(cfg, rule.backend)].models
      /\ rule.backend \in Elements(cfg.tenants[TenantPolicy(cfg, tenant)].backends)
      /\ class \in cfg.tenants[TenantPolicy(cfg, tenant)].classes
      /\ NeedsLocal(class) => cfg.routes[Route(cfg, rule.backend)].local
  BY <1>1, <1>2 DEF ValidRule
<1>4. Route(cfg, rule.backend) # 0 /\ cfg.routes[Route(cfg, rule.backend)].name = rule.backend
  BY <1>3, RouteFacts
<1>5. TenantPolicy(cfg, tenant) # 0
  BY <1>3, TenantFacts
<1> QED BY <1>3, <1>4, <1>5

(* No two rules have one key: there are as many keys as rules. *)
LEMMA OneRuleEach ==
  ASSUME NEW cfg \in Configs, Valid(cfg), cfg.enabled,
         NEW q \in Elements(cfg.rules), NEW r \in Elements(cfg.rules), Key(q) = Key(r)
  PROVE  q = r
<1> DEFINE n == Len(cfg.rules)
           K == {Key(rule) : rule \in Elements(cfg.rules)}
           f == [i \in 1..n |-> Key(cfg.rules[i])]
<1>1. IsTuple(cfg.rules)
  BY PolicyAssumption
<1>2. n \in Nat /\ DOMAIN cfg.rules = 1..n
  BY <1>1 DEF IsTuple
<1>3. f \in Surjection(1..n, K)
  <2>1. f \in [1..n -> K]
    BY <1>2 DEF Elements
  <2>2. \A k \in K : \E i \in 1..n : f[i] = k
    BY <1>2 DEF Elements
  <2> QED BY <2>1, <2>2 DEF Surjection
<1>4. Cardinality(K) = n
  BY DEF Valid, ValidRules
<1>5. IsFiniteSet(1..n) /\ Cardinality(1..n) = n
  <2>1. 1 \in Int /\ n \in Int
    BY <1>2
  <2>2. IsFiniteSet(1..n) /\ Cardinality(1..n) = (IF 1 > n THEN 0 ELSE n - 1 + 1)
    <3> HIDE DEF n
    <3> QED BY <2>1, FS_Interval
  <2> QED BY <1>2, <2>2
<1>6. f \in Injection(1..n, K)
  <2> HIDE DEF f, n, K
  <2> QED BY <1>3, <1>4, <1>5, FS_Surjection
<1>7. PICK i \in 1..n : cfg.rules[i] = q
  BY <1>2 DEF Elements
<1>8. PICK j \in 1..n : cfg.rules[j] = r
  BY <1>2 DEF Elements
<1>9. f[i] = f[j]
  BY <1>7, <1>8
<1>10. i = j
  <2> HIDE DEF f, n, K
  <2> QED BY <1>6, <1>9 DEF Injection, IsInjective
<1> QED BY <1>7, <1>8, <1>10
-------------------------------------------------------------------------------
(* What resolution finds is linked to the request... *)
Links(cfg, req, n) ==
  /\ n # 0 /\ \E name \in RouteNames(cfg) : n = Route(cfg, name)
  /\ TenantPolicy(cfg, req.tenant) # 0
  /\ Linked(req, Class(cfg, req), cfg.tenants[TenantPolicy(cfg, req.tenant)], cfg.routes[n])

LEMMA ChosenFacts ==
  ASSUME NEW cfg \in Configs, Valid(cfg), cfg.enabled,
         NEW tenant, TenantPolicy(cfg, tenant) # 0, NEW model, NEW class
  PROVE  LET t == cfg.tenants[TenantPolicy(cfg, tenant)]
             n == Chosen(cfg, t, model, class)
         IN n # 0 => /\ \E name \in RouteNames(cfg) : n = Route(cfg, name)
                     /\ model \in cfg.routes[n].models
                     /\ Passes(cfg, t, class, n)
<1> DEFINE t == cfg.tenants[TenantPolicy(cfg, tenant)]
           k == RuleFor(cfg, tenant, model, class)
           n == Chosen(cfg, t, model, class)
<1>1. t.tenant = tenant /\ t \in Elements(cfg.tenants)
  BY TenantFacts
<1>2. n = IF k # 0 THEN Route(cfg, cfg.rules[k].backend) ELSE FromAllowlist(cfg, t, class, {model})
  BY <1>1 DEF Chosen
<1>3. CASE k # 0
  <2> DEFINE rule == cfg.rules[k]
  <2>1. rule \in Elements(cfg.rules) /\ Key(rule) = <<tenant, model, class>>
    BY <1>3, RuleFacts
  <2>2. n = Route(cfg, rule.backend)
    BY <1>2, <1>3
  <2> HIDE DEF k, n, rule
  <2>3. /\ rule.backend \in RouteNames(cfg) /\ Route(cfg, rule.backend) # 0
        /\ model \in cfg.routes[Route(cfg, rule.backend)].models
        /\ cfg.routes[Route(cfg, rule.backend)].name \in Elements(t.backends)
        /\ NeedsLocal(class) => cfg.routes[Route(cfg, rule.backend)].local
    BY <2>1, ValidRuleFacts
  <2> QED BY <2>2, <2>3 DEF Passes, n
<1>4. CASE k = 0
  <2>1. n = FromAllowlist(cfg, t, class, {model})
    BY <1>2, <1>4
  <2>2. n # 0 => /\ \E name \in RouteNames(cfg) : n = Route(cfg, name)
                 /\ cfg.routes[n].name \in Elements(t.backends)
                 /\ NeedsLocal(class) => cfg.routes[n].local
                 /\ {model} \subseteq cfg.routes[n].models
    <3> HIDE DEF n, t
    <3> QED BY <1>1, <2>1, AllowlistFacts
  <2> QED BY <2>2 DEF Passes
<1> QED BY <1>3, <1>4

LEMMA ResolvedLinks ==
  ASSUME NEW cfg \in Configs, Valid(cfg), cfg.enabled, NEW req \in Requests,
         Resolved(cfg, req) # Denied
  PROVE  Links(cfg, req, Resolved(cfg, req).route)
<1> DEFINE class == Class(cfg, req)
           t == cfg.tenants[TenantPolicy(cfg, req.tenant)]
<1>1. CASE req.endpoint = Listing
  <2> DEFINE n == FromAllowlist(cfg, t, class, {})
  <2>1. Resolved(cfg, req) = ResolveListing(cfg, req.tenant, class)
    BY <1>1 DEF Resolved
  <2>2. /\ TenantPolicy(cfg, req.tenant) # 0 /\ class \in t.classes /\ n # 0
        /\ Resolved(cfg, req).route = n
    BY <2>1 DEF ResolveListing
  <2>3. t \in Elements(cfg.tenants)
    BY <2>2, TenantFacts
  <2>4. /\ \E name \in RouteNames(cfg) : n = Route(cfg, name)
        /\ cfg.routes[n].name \in Elements(t.backends)
        /\ NeedsLocal(class) => cfg.routes[n].local
    <3> HIDE DEF t, class
    <3> QED BY <2>2, <2>3, AllowlistFacts
  <2>5. ModelsOf(req) = {}
    BY <1>1, PolicyAssumption DEF ModelsOf
  <2> HIDE DEF n
  <2> QED BY <2>2, <2>4, <2>5 DEF Links, Linked
<1>2. CASE req.endpoint # Listing
  <2> DEFINE n == Chosen(cfg, t, req.model, class)
  <2>1. Resolved(cfg, req) = Resolve(cfg, req.tenant, req.model, class)
    BY <1>2 DEF Resolved
  <2>2. /\ TenantPolicy(cfg, req.tenant) # 0 /\ class \in t.classes /\ req.model \in t.models
        /\ Passes(cfg, t, class, n) /\ Resolved(cfg, req).route = n
    BY <2>1 DEF Resolve
  <2>3. n # 0 /\ cfg.routes[n].name \in Elements(t.backends)
        /\ (NeedsLocal(class) => cfg.routes[n].local)
    BY <2>2 DEF Passes
  <2>4. /\ \E name \in RouteNames(cfg) : n = Route(cfg, name)
        /\ req.model \in cfg.routes[n].models
    BY <2>2, <2>3, ChosenFacts
  <2> HIDE DEF n
  <2> QED BY <2>2, <2>3, <2>4 DEF Links, Linked, ModelsOf
<1> QED BY <1>1, <1>2

(* ...and it finds something if anything is linked. *)
LEMMA ResolvedComplete ==
  ASSUME NEW cfg \in Configs, Valid(cfg), cfg.enabled, NEW req \in Requests,
         Class(cfg, req) \in Classes, NEW name \in RouteNames(cfg),
         Links(cfg, req, Route(cfg, name))
  PROVE  Resolved(cfg, req) # Denied
<1> DEFINE class == Class(cfg, req)
           t == cfg.tenants[TenantPolicy(cfg, req.tenant)]
           r == cfg.routes[Route(cfg, name)]
<1>1. /\ TenantPolicy(cfg, req.tenant) # 0
      /\ class \in t.classes /\ ModelsOf(req) \subseteq t.models /\ ModelsOf(req) \subseteq r.models
      /\ r.name \in Elements(t.backends) /\ (NeedsLocal(class) => r.local)
  BY DEF Links, Linked
<1>2. r.name = name
  BY RouteFacts
<1>3. t \in Elements(cfg.tenants) /\ t.tenant = req.tenant
  BY <1>1, TenantFacts
<1>4. name \in Elements(t.backends) /\ \A models : models \subseteq r.models => name \in Eligible(cfg, class, models)
  BY <1>1, <1>2 DEF Eligible
<1>5. \A models : models \subseteq r.models => FromAllowlist(cfg, t, class, models) # 0
  <2> SUFFICES ASSUME NEW models, models \subseteq r.models
               PROVE  FromAllowlist(cfg, t, class, models) # 0
    OBVIOUS
  <2>1. name \in Eligible(cfg, class, models)
    BY <1>4
  <2> HIDE DEF t, class, r
  <2> QED BY <1>3, <1>4, <2>1, AllowlistFacts
<1>6. CASE req.endpoint = Listing
  <2> DEFINE n == FromAllowlist(cfg, t, class, {})
  <2>1. Resolved(cfg, req) = ResolveListing(cfg, req.tenant, class)
    BY <1>6 DEF Resolved
  <2>2. n # 0
    BY <1>5
  <2>3. Resolved(cfg, req).route = n
    BY <1>1, <2>1, <2>2 DEF ResolveListing
  <2> QED BY <2>2, <2>3 DEF Denied
<1>7. CASE req.endpoint # Listing
  <2> DEFINE n == Chosen(cfg, t, req.model, class)
             k == RuleFor(cfg, req.tenant, req.model, class)
  <2>1. Resolved(cfg, req) = Resolve(cfg, req.tenant, req.model, class)
    BY <1>7 DEF Resolved
  <2>2. req.model \in t.models /\ req.model \in r.models
    BY <1>1, <1>7, PolicyAssumption DEF ModelsOf
  <2>3. n # 0
    <3>1. CASE k # 0
      <4>1. n = Route(cfg, cfg.rules[k].backend)
        BY <1>3, <3>1 DEF Chosen
      <4>2. cfg.rules[k] \in Elements(cfg.rules) /\ Key(cfg.rules[k]) = <<req.tenant, req.model, class>>
        BY <3>1, RuleFacts
      <4> HIDE DEF k, n, class
      <4> QED BY <4>1, <4>2, ValidRuleFacts
    <3>2. CASE k = 0
      <4>1. n = FromAllowlist(cfg, t, class, {req.model})
        BY <1>3, <3>2 DEF Chosen
      <4> QED BY <1>5, <2>2, <4>1
    <3> QED BY <3>1, <3>2
  <2>4. Passes(cfg, t, class, n)
    BY <1>1, <2>3, ChosenFacts
  <2>5. Resolved(cfg, req).route = n
    BY <1>1, <2>1, <2>2, <2>4 DEF Resolve
  <2> QED BY <2>3, <2>5 DEF Denied
<1> QED BY <1>6, <1>7

(* The rule of the request's key decides its route. *)
LEMMA RuleDecides ==
  ASSUME NEW cfg \in Configs, Valid(cfg), cfg.enabled, NEW req \in Requests,
         req.endpoint # Listing, NEW rule \in Elements(cfg.rules),
         Key(rule) = <<req.tenant, req.model, Class(cfg, req)>>,
         Admits(cfg, req, Route(cfg, rule.backend))
  PROVE  Decide(cfg, req).route = Route(cfg, rule.backend)
<1> DEFINE class == Class(cfg, req)
           t == cfg.tenants[TenantPolicy(cfg, req.tenant)]
           k == RuleFor(cfg, req.tenant, req.model, class)
           n == Route(cfg, rule.backend)
<1>1. /\ class \in Classes /\ TenantPolicy(cfg, req.tenant) # 0
      /\ n # 0
      /\ req.model \in t.models /\ class \in t.classes
      /\ cfg.routes[n].name \in Elements(t.backends)
      /\ NeedsLocal(class) => cfg.routes[n].local
  BY ValidRuleFacts
<1>2. t.tenant = req.tenant
  BY <1>1, TenantFacts
<1>3. k # 0 /\ cfg.rules[k] \in Elements(cfg.rules) /\ Key(cfg.rules[k]) = Key(rule)
  <2> HIDE DEF class
  <2> QED BY RuleFacts DEF class
<1>4. cfg.rules[k] = rule
  <2> HIDE DEF k
  <2> QED BY <1>3, OneRuleEach
<1>5. Chosen(cfg, t, req.model, class) = n
  BY <1>2, <1>3, <1>4 DEF Chosen
<1>6. Passes(cfg, t, class, n)
  BY <1>1 DEF Passes
<1>7. Resolved(cfg, req) = Resolve(cfg, req.tenant, req.model, class)
  BY <1>1 DEF Resolved
<1>8. Resolved(cfg, req).route = n
  BY <1>1, <1>5, <1>6, <1>7 DEF Resolve
<1>9. Resolved(cfg, req) # Denied
  BY <1>1, <1>8 DEF Denied
<1> QED BY <1>8, <1>9 DEF Decide

(* A decision not to redact has a flag that says so, and no list before it. *)
LEMMA RedactFacts ==
  ASSUME NEW cfg \in Configs, NEW t, NEW k, NEW r, NEW class, ~Redact(cfg, t, k, r, class)
  PROVE  \/ k # 0 /\ cfg.rules[k].redact = FALSE
         \/ FALSE \in {t.redact, r.redact, cfg.classRedact[class]}
         \/ /\ t.tenant \notin cfg.redactTenants /\ r.name \notin cfg.redactRoutes
            /\ class \notin cfg.redactClasses /\ ~cfg.redact
<1> DEFINE a1 == IF k = 0 THEN None ELSE cfg.rules[k].redact
           a5 == Listed(t.tenant \in cfg.redactTenants)
           a6 == Listed(r.name \in cfg.redactRoutes)
           a7 == Listed(class \in cfg.redactClasses)
           flags == <<a1, t.redact, r.redact, cfg.classRedact[class], a5, a6, a7, cfg.redact>>
           i == First(flags, BOOLEAN)
<1>a. a5 \in {TRUE, None} /\ a6 \in {TRUE, None} /\ a7 \in {TRUE, None}
  BY DEF Listed
<1>b. /\ t.tenant \in cfg.redactTenants => a5 \in BOOLEAN
      /\ r.name \in cfg.redactRoutes => a6 \in BOOLEAN
      /\ class \in cfg.redactClasses => a7 \in BOOLEAN
  BY DEF Listed
<1>c. k = 0 => a1 = None
  OBVIOUS
<1>d. k # 0 => a1 = cfg.rules[k].redact
  OBVIOUS
<1>n. None \notin BOOLEAN /\ cfg.redact \in BOOLEAN
  BY PolicyAssumption
<1>1. Redact(cfg, t, k, r, class) = FirstBool(flags)
  BY DEF Redact
<1> HIDE DEF a1, a5, a6, a7
<1>2. /\ DOMAIN flags = 1..8 /\ flags[1] = a1 /\ flags[2] = t.redact /\ flags[3] = r.redact
      /\ flags[4] = cfg.classRedact[class] /\ flags[5] = a5 /\ flags[6] = a6 /\ flags[7] = a7
      /\ flags[8] = cfg.redact
  OBVIOUS
<1>3. IsTuple(flags)
  <2> DEFINE T == Elements(flags)
  <2>1. /\ a1 \in T /\ t.redact \in T /\ r.redact \in T /\ cfg.classRedact[class] \in T
        /\ a5 \in T /\ a6 \in T /\ a7 \in T /\ cfg.redact \in T
    BY <1>2 DEF Elements
  <2> HIDE DEF T
  <2>2. flags \in Seq(T)
    BY <2>1
  <2> QED BY <2>2 DEF T, IsTuple
<1>4. FirstBool(flags) = IF i = 0 THEN FALSE ELSE flags[i]
  BY DEF FirstBool
<1>5. /\ i = 0 => \A j \in 1..8 : flags[j] \notin BOOLEAN
      /\ i # 0 => i \in 1..8 /\ flags[i] \in BOOLEAN /\ \A j \in 1..(i - 1) : flags[j] \notin BOOLEAN
  <2> HIDE DEF flags
  <2> QED BY <1>2, <1>3, FirstFacts
<1> HIDE DEF flags, i
<1>6. i # 0
  BY <1>2, <1>5, <1>n
<1>7. i \in 1..8 /\ flags[i] = FALSE
  BY <1>1, <1>4, <1>5, <1>6
<1>8. CASE i = 1
  <2>1. a1 = FALSE
    BY <1>2, <1>7, <1>8
  <2>2. k # 0
    BY <1>c, <1>n, <2>1
  <2> QED BY <1>d, <2>1, <2>2
<1>9. CASE i \in {2, 3, 4}
  BY <1>2, <1>7, <1>9
<1>10. CASE i \in {5, 6, 7}
  BY <1>2, <1>7, <1>10, <1>a, <1>n
<1>11. CASE i = 8
  <2>1. flags[5] \notin BOOLEAN /\ flags[6] \notin BOOLEAN /\ flags[7] \notin BOOLEAN /\ ~cfg.redact
    BY <1>2, <1>5, <1>7, <1>11
  <2>2. a5 \notin BOOLEAN /\ a6 \notin BOOLEAN /\ a7 \notin BOOLEAN
    BY <1>2, <2>1
  <2>3. t.tenant \notin cfg.redactTenants /\ r.name \notin cfg.redactRoutes /\ class \notin cfg.redactClasses
    BY <1>b, <2>2
  <2>4. ~cfg.redact
    BY <2>1
  <2>5. /\ t.tenant \notin cfg.redactTenants /\ r.name \notin cfg.redactRoutes
        /\ class \notin cfg.redactClasses /\ ~cfg.redact
    BY <2>3, <2>4
  <2> QED BY <2>5
<1>12. i = 1 \/ i \in {2, 3, 4} \/ i \in {5, 6, 7} \/ i = 8
  <2>1. i \in 1..8
    BY <1>7
  <2> QED BY <2>1
<1> QED BY <1>8, <1>9, <1>10, <1>11, <1>12
-------------------------------------------------------------------------------
(* A gateway that serves has a valid configuration, and its decisions are   *)
(* those of Decide.                                                         *)
IInv ==
  /\ config \in Configs
  /\ phase \in {"serving", "decided"} => Valid(config)
  /\ phase = "decided" => request \in Requests /\ decision = Decide(config, request)

LEMMA Invariance == Spec => []IInv
<1>1. Init => IInv
  BY DEF Init, IInv
<1>2. IInv /\ [Next]_vars => IInv'
  <2> SUFFICES ASSUME IInv, [Next]_vars PROVE IInv'
    OBVIOUS
  <2>1. CASE Start
    BY <2>1 DEF Start, IInv
  <2>2. CASE Serve
    BY <2>2 DEF Serve, IInv
  <2>3. CASE Finish
    BY <2>3 DEF Finish, IInv
  <2>4. CASE UNCHANGED vars
    BY <2>4 DEF IInv, vars
  <2> QED BY <2>1, <2>2, <2>3, <2>4 DEF Next
<1> QED BY <1>1, <1>2, PTL DEF Spec

(* With a policy, every request that is routed is linked to its route by    *)
(* each of the links the policy demands (policy.py:44-116,                  *)
(* server.py:139-147).                                                      *)
THEOREM LinksRequired == Spec => []RequiredLinks
<1>1. IInv => RequiredLinks
  <2> SUFFICES ASSUME IInv, Routed, config.enabled
               PROVE  /\ TenantPolicy(config, request.tenant) # 0
                      /\ Linked(request, TheClass, ThePolicy, TheRoute)
                      /\ request.endpoint \in TheRoute.endpoints
                      /\ request.models = {} \/ ModelsOf(request) \subseteq request.models
    BY DEF RequiredLinks
  <2> DEFINE found == Resolved(config, request)
  <2>1. /\ config \in Configs /\ Valid(config) /\ request \in Requests
        /\ decision = Decide(config, request)
    BY DEF IInv, Routed, Decided
  <2>2. found # Denied /\ decision = found /\ Admits(config, request, found.route)
    BY <2>1 DEF Decide, Routed
  <2> HIDE DEF found
  <2>3. Links(config, request, decision.route)
    BY <2>1, <2>2, ResolvedLinks DEF found
  <2>4. Admits(config, request, decision.route)
    BY <2>2
  <2>5. /\ TenantPolicy(config, request.tenant) # 0
        /\ Linked(request, TheClass, ThePolicy, TheRoute)
    BY <2>3 DEF Links, TheClass, ThePolicy, TheRoute
  <2>6. /\ request.endpoint \in TheRoute.endpoints
        /\ request.models = {} \/ ModelsOf(request) \subseteq request.models
    BY <2>4 DEF Admits, TheRoute, ModelsOf
  <2> QED BY <2>5, <2>6
<1> QED BY <1>1, Invariance, PTL

(* With a policy, a request that is denied lacks a link to every backend,   *)
(* or one that is linked lacks the endpoint (policy.py:44-116,              *)
(* server.py:139-147).                                                      *)
THEOREM DenialsDue == Spec => []DenialsAreDue
<1>1. IInv => DenialsAreDue
  <2> DEFINE linked == {r \in {config.routes[Route(config, n)] : n \in RouteNames(config)} :
                          Linked(request, TheClass, ThePolicy, r)}
  <2> SUFFICES ASSUME IInv, Decided, decision = Denied, config.enabled,
                      TheClass \in Classes, TenantPolicy(config, request.tenant) # 0,
                      request.models = {} \/ ModelsOf(request) \subseteq request.models,
                      linked # {}, \A r \in linked : request.endpoint \in r.endpoints
               PROVE  FALSE
    BY DEF DenialsAreDue
  <2> DEFINE found == Resolved(config, request)
  <2>1. /\ config \in Configs /\ Valid(config) /\ request \in Requests
        /\ Denied = Decide(config, request)
    BY DEF IInv, Decided
  <2>2. PICK n \in RouteNames(config) :
          Linked(request, TheClass, ThePolicy, config.routes[Route(config, n)])
    OBVIOUS
  <2>3. Route(config, n) # 0
    BY <2>1, RouteFacts
  <2>4. Links(config, request, Route(config, n))
    BY <2>2, <2>3 DEF Links, TheClass, ThePolicy
  <2> HIDE DEF found
  <2>5. found # Denied
    BY <2>1, <2>4, ResolvedComplete DEF found, TheClass
  <2>6. Links(config, request, found.route)
    BY <2>1, <2>5, ResolvedLinks DEF found
  <2>7. config.routes[found.route] \in linked
    BY <2>6 DEF Links, TheClass, ThePolicy
  <2>8. Admits(config, request, found.route)
    <3>1. request.endpoint \in config.routes[found.route].endpoints
      <4> HIDE DEF linked
      <4> QED BY <2>7
    <3>2. request.model # None /\ request.models # {} => request.model \in request.models
      BY DEF ModelsOf
    <3> QED BY <3>1, <3>2 DEF Admits
  <2> QED BY <2>1, <2>5, <2>8 DEF Decide, found
<1> QED BY <1>1, Invariance, PTL

(* A rule that validation accepted decides the route of the requests it is  *)
(* about (config.py:507-526, policy.py:61-68).                              *)
THEOREM RulesObeyed == Spec => []RulesAreObeyed
<1>1. IInv => RulesAreObeyed
  <2> SUFFICES ASSUME IInv, Decided, config.enabled, request.endpoint # Listing,
                      NEW rule \in Elements(config.rules),
                      Key(rule) = <<request.tenant, request.model, TheClass>>,
                      Admits(config, request, Route(config, rule.backend))
               PROVE  decision.route = Route(config, rule.backend)
    BY DEF RulesAreObeyed
  <2>1. /\ config \in Configs /\ Valid(config) /\ request \in Requests
        /\ decision = Decide(config, request)
    BY DEF IInv, Decided
  <2> QED BY <2>1, RuleDecides DEF TheClass
<1> QED BY <1>1, Invariance, PTL

(* With a policy, a request is passed on unredacted only if no list and no  *)
(* default covers it or a more specific flag says so (policy.py:118-136).   *)
THEOREM ListedRedacted == Spec => []ListedIsRedacted
<1>1. IInv => ListedIsRedacted
  <2> SUFFICES ASSUME IInv, Routed, ~decision.redact, config.enabled
               PROVE  \/ /\ request.tenant \notin config.redactTenants
                         /\ TheRoute.name \notin config.redactRoutes
                         /\ TheClass \notin config.redactClasses
                         /\ ~config.redact
                      \/ FALSE \in {ThePolicy.redact, TheRoute.redact,
                                    config.classRedact[TheClass]}
                      \/ \E rule \in Elements(config.rules) :
                           /\ request.endpoint # Listing
                           /\ Key(rule) = <<request.tenant, request.model, TheClass>>
                           /\ rule.redact = FALSE
    BY DEF ListedIsRedacted
  <2>1. /\ config \in Configs /\ Valid(config) /\ request \in Requests
        /\ decision = Resolved(config, request) /\ decision # Denied
    BY DEF IInv, Routed, Decided, Decide
  <2> DEFINE k == IF request.endpoint = Listing THEN 0
                  ELSE RuleFor(config, request.tenant, request.model, TheClass)
  <2>2. /\ decision.redact = Redact(config, ThePolicy, k, TheRoute, TheClass)
        /\ TenantPolicy(config, request.tenant) # 0
    <3>1. CASE request.endpoint = Listing
      <4>1. decision = ResolveListing(config, request.tenant, TheClass)
        BY <2>1, <3>1 DEF Resolved, TheClass
      <4> QED BY <2>1, <3>1, <4>1 DEF ResolveListing, ThePolicy, TheRoute
    <3>2. CASE request.endpoint # Listing
      <4>1. decision = Resolve(config, request.tenant, request.model, TheClass)
        BY <2>1, <3>2 DEF Resolved, TheClass
      <4> QED BY <2>1, <3>2, <4>1 DEF Resolve, ThePolicy, TheRoute
    <3> QED BY <3>1, <3>2
  <2>3. ThePolicy.tenant = request.tenant
    BY <2>1, <2>2, TenantFacts DEF ThePolicy
  <2>4. k # 0 => /\ request.endpoint # Listing /\ config.rules[k] \in Elements(config.rules)
                 /\ Key(config.rules[k]) = <<request.tenant, request.model, TheClass>>
    BY <2>1, RuleFacts
  <2> HIDE DEF k
  <2>5. \/ k # 0 /\ config.rules[k].redact = FALSE
        \/ FALSE \in {ThePolicy.redact, TheRoute.redact, config.classRedact[TheClass]}
        \/ /\ ThePolicy.tenant \notin config.redactTenants
           /\ TheRoute.name \notin config.redactRoutes
           /\ TheClass \notin config.redactClasses /\ ~config.redact
    BY <2>1, <2>2, RedactFacts
  <2> QED BY <2>3, <2>4, <2>5
<1> QED BY <1>1, Invariance, PTL
===============================================================================
