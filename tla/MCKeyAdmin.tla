------------------------------ MODULE MCKeyAdmin ------------------------------
(* Admin requests on two keys, from a file that does not exist or holds one *)
(* key.                                                                     *)
EXTENDS KeyAdmin

CONSTANTS k1, k2, acme, beta, s1, s2, s3, a1, a2, blank, none

MCIds == {k1, k2}
MCTenants == {acme, beta}
MCSecrets == {s1, s2, s3}
MCOneAdmin == {a1}
MCTwoAdmins == {a1, a2}

Ask(op, id, tenant, revoked) ==
  [op |-> op, id |-> id, tenant |-> tenant, revoked |-> revoked]

MCRequests ==
  {Ask("issue", k, acme, none) : k \in MCIds}
  \cup {Ask("rotate", k, none, none) : k \in MCIds}
  \cup {Ask("update", k1, none, TRUE), Ask("update", k1, none, FALSE),
        Ask("update", k2, beta, none)}

MCBlankRequests ==
  MCRequests \cup {Ask("issue", blank, blank, none),
                   Ask("update", k1, blank, none)}

MCInitContents ==
  {Absent, Json({[id |-> k1, tenant |-> acme, secret |-> s1, revoked |-> FALSE]})}
===============================================================================
