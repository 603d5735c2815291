---------------------------- MODULE MCJwtVerifier ----------------------------
(* Two request threads; a file that is missing, unusable, or has one key,   *)
(* another one under the same id, or one under another id.                  *)
EXTENDS JwtVerifier, TLC

CONSTANTS k, j, old, new, idp, us, acme, w1, w2, none

MCWorkers == {w1, w2}

MCContents == {Absent, Unusable, Jwks(k :> old), Jwks(k :> new), Jwks(j :> old)}

Signed1 == [form |-> "proper", kid |-> k, key |-> old, iss |-> idp,
            aud |-> {us}, exp |-> 1, tenant |-> acme]

(* One thread is given the token that the old key signed, the other one     *)
(* that the new key signed, one without claims, or one for another audience.*)
MCTokens ==
  w1 :> {Signed1} @@
  w2 :> {[Signed1 EXCEPT !.key = new], [Signed1 EXCEPT !.form = "claimless"],
         [Signed1 EXCEPT !.aud = {}]}
===============================================================================
