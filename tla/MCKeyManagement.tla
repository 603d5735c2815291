--------------------------- MODULE MCKeyManagement ---------------------------
(* Two request threads beside an admin thread that issues, rotates, revokes *)
(* and restores a key.                                                      *)
EXTENDS KeyManagement, TLC

CONSTANTS k1, acme, root, s0, s1, s2, w1, w2, a1, blank, none

MCIds == {k1}
MCTenants == {acme}
MCSecrets == {s1, s2}
MCStatic == {[id |-> root, tenant |-> acme, secret |-> s0, revoked |-> FALSE]}
MCSupplied == {s1, s0}
MCWorkers == {w1, w2}
MCOneWorker == {w1}
Threads == Permutations(MCWorkers)
MCAdmins == {a1}

Ask(op, tenant, revoked) ==
  [op |-> op, id |-> k1, tenant |-> tenant, revoked |-> revoked]

MCRequests ==
  {Ask("issue", acme, none), Ask("rotate", none, none),
   Ask("update", none, TRUE), Ask("update", none, FALSE)}

MCInitContents ==
  {Absent, Json({[id |-> k1, tenant |-> acme, secret |-> s1, revoked |-> FALSE]})}
===============================================================================
