------------------------------- MODULE MCPolicy -------------------------------
(* Every configuration of two routes (of distinct names or of one), one     *)
(* tenant policy and at most one rule, or two of one key; for fixed routes, *)
(* every binding of two tenants; and, for a fixed routing, every            *)
(* combination of the redaction settings.  For fixed routes, every          *)
(* assignment of endpoints and of the models of a key.  And routes without  *)
(* a policy.                                                                *)
EXTENDS Policy

CONSTANTS t1, t2, m1, m2, m3, b1, b2, chat, list, none

NoClassRedact == [c \in Classes |-> None]

BaseRoute(n, l, ms) ==
  [name |-> n, local |-> l, models |-> ms, endpoints |-> {chat, list}, redact |-> None]

RouteLists ==
  {<<BaseRoute(b1, l1, ms1), BaseRoute(n, l2, ms2)>> :
     n \in {b1, b2}, l1 \in BOOLEAN, l2 \in BOOLEAN,
     ms1 \in {{m1}, {m1, m2}}, ms2 \in {{m1}, {m2}, {m1, m2}}}

Tenant(t, ms, bs, cs) ==
  [tenant |-> t, models |-> ms, backends |-> bs, classes |-> cs, redact |-> None]

TenantLists ==
  {<<Tenant(t1, ms, bs, cs)>> :
     ms \in {{m1}, {m1, m2}, {m1, m3}},
     bs \in {<<b1>>, <<b1, b2>>, <<b2, b1>>},
     cs \in {{"standard"}, {"sensitive"}, {"standard", "restricted"}}}

RuleOf(t, m, c, b) ==
  [tenant |-> t, model |-> m, class |-> c, backend |-> b, redact |-> None]

Rules == {RuleOf(t1, m, c, b) : m \in {m1, m2}, c \in Classes, b \in {b1, b2}}

RuleLists ==
  {<<>>, <<RuleOf(t2, m1, "standard", b1)>>}
  \cup {<<r>> : r \in Rules}
  \cup {<<RuleOf(t1, m, c, b1), RuleOf(t1, m, c, b2)>> : m \in {m1, m2}, c \in Classes}

Config(en, rs, ts, rules) ==
  [enabled |-> en, default |-> "standard", routes |-> rs, tenants |-> ts,
   rules |-> rules, keys |-> {[tenant |-> t1, models |-> {}]}, dynamicAuth |-> TRUE,
   classRedact |-> NoClassRedact, redactTenants |-> {}, redactRoutes |-> {},
   redactClasses |-> {}, redact |-> FALSE]

RoutingConfigs ==
  {Config(TRUE, rs, ts, rules) : rs \in RouteLists, ts \in TenantLists,
                                 rules \in RuleLists}

(* Bindings of tenants: none, unbound, bound twice, or with lists that an   *)
(* operator may leave empty.                                                *)
BindingConfigs ==
  {[Config(TRUE, <<BaseRoute(b1, TRUE, {m1}), BaseRoute(b2, FALSE, {m1, m2})>>, ts, <<>>)
    EXCEPT !.keys = {[tenant |-> t, models |-> {}] : t \in auth},
           !.dynamicAuth = dynamic] :
     ts \in {<<>>, <<Tenant(t1, {m1}, <<b1>>, Classes)>>,
            <<Tenant(t1, {m1}, <<b1>>, Classes), Tenant(t2, {m2}, <<b2>>, {"standard"})>>,
            <<Tenant(t2, {m1, m2}, <<b2, b1>>, Classes), Tenant(t1, {m1}, <<b1>>, {})>>,
            <<Tenant(t1, {m1}, <<b1>>, Classes), Tenant(t1, {m2}, <<b2>>, Classes)>>,
            <<Tenant(t1, {}, <<b1>>, Classes)>>, <<Tenant(t1, {m1}, <<>>, Classes)>>},
     auth \in SUBSET {t1, t2}, dynamic \in BOOLEAN}

Flags == BOOLEAN \cup {None}

RedactionConfigs ==
  {[Config(TRUE,
           <<[BaseRoute(b1, TRUE, {m1}) EXCEPT !.redact = route]>>,
           <<[tenant |-> t1, models |-> {m1}, backends |-> <<b1>>,
              classes |-> {"standard", "restricted"}, redact |-> tenant]>>,
           <<[tenant |-> t1, model |-> m1, class |-> "restricted",
              backend |-> b1, redact |-> rule]>>)
    EXCEPT !.classRedact["restricted"] = class, !.redactTenants = ts,
           !.redactRoutes = rs, !.redactClasses = cs, !.redact = all] :
     route \in Flags, tenant \in Flags, rule \in Flags, class \in Flags,
     ts \in {{}, {t1}, {t2}}, rs \in {{}, {b1}}, cs \in {{}, {"restricted"}},
     all \in BOOLEAN}

(* Every assignment of endpoints to two routes, and of models to the key.   *)
EndpointConfigs ==
  {[Config(en, <<[BaseRoute(b1, TRUE, {m1}) EXCEPT !.endpoints = es1],
                 [BaseRoute(b2, TRUE, {m1, m2}) EXCEPT !.endpoints = es2]>>,
           <<Tenant(t1, {m1, m2}, bs, {"standard"})>>, <<>>)
    EXCEPT !.keys = {[tenant |-> t1, models |-> ms]}] :
     en \in BOOLEAN, es1 \in SUBSET {chat, list}, es2 \in SUBSET {chat, list},
     bs \in {<<b1>>, <<b1, b2>>, <<b2, b1>>}, ms \in {{}, {m1}, {m1, m3}}}

(* Without a policy. *)
PlainConfigs == {Config(FALSE, rs, <<>>, <<>>) : rs \in RouteLists}

MCConfigs ==
  RoutingConfigs \cup BindingConfigs \cup RedactionConfigs \cup EndpointConfigs
    \cup PlainConfigs

MCRequests ==
  [tenant : {t1, t2}, models : {{}, {m1}}, model : {m1, m2, m3}, endpoint : {chat},
   header : Classes \cup {none}, body : {none}]
  \cup
  [tenant : {t1}, models : {{}, {m1}}, model : {none}, endpoint : {list},
   header : Classes \cup {none}, body : {none, "restricted", "secret"}]
===============================================================================
