------------------------------ MODULE MCKeyStore ------------------------------
(* Two request threads over a file that is missing, damaged, or grants or   *)
(* revokes one key; a static key beside it.                                 *)
EXTENDS KeyStore

CONSTANTS k1, acme, root, s1, s0, w1, w2, blank, none

MCIds == {k1}
MCTenants == {acme}
MCSecrets == {s1}
MCStatic == {[id |-> root, tenant |-> acme, secret |-> s0, revoked |-> FALSE]}
MCSupplied == {s1, s0}
MCWorkers == {w1, w2}

Key(r) == [id |-> k1, tenant |-> acme, secret |-> s1, revoked |-> r]

MCContents == {Absent, Garbage, Json({Key(FALSE)}), Json({Key(TRUE)})}
===============================================================================
