----------------------------- MODULE KeyRegistry -----------------------------
(***************************************************************************)
(* What the key management endpoint promises: a table of keys with unique  *)
(* ids, on which every request that succeeds acts at once and alone.       *)
(* There is no file, no caching and no failure here; KeyAdmin implements   *)
(* it when one request is served at a time.                                *)
(***************************************************************************)
EXTENDS KeyFile

CONSTANT Requests       \* the requests clients may send

VARIABLES
  table,                \* the keys
  made                  \* the secrets generated so far

IdsUnique(recs) == \A r, q \in recs : r.id = q.id => r = q

Init ==
  /\ table \in SUBSET Record
  /\ IdsUnique(table)
  /\ made = {r.secret : r \in table}

(* A secret is generated for a request that may yet be refused. *)
Generate(s) ==
  /\ s \notin made
  /\ made' = made \cup {s}
  /\ UNCHANGED table

(* An update, or an issue or a rotation with a secret that no key has. *)
Serve(req, s) ==
  /\ Acceptable(req, table)
  /\ MakesSecret(req) => s \in made /\ \A r \in table : r.secret # s
  /\ table' = Applied(req, s, table)
  /\ UNCHANGED made

Next ==
  \E s \in Secrets : \/ Generate(s)
                     \/ \E req \in Requests : Serve(req, s)

Spec == Init /\ [][Next]_<<table, made>>
===============================================================================
