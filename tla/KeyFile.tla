------------------------------- MODULE KeyFile -------------------------------
(***************************************************************************)
(* The dynamic API key file (auth.api_key_file) as the two programs that   *)
(* share it see it: the request threads that load it (KeyStore) and the    *)
(* admin endpoint that rewrites it (KeyAdmin).                             *)
(*                                                                         *)
(* A content is a kind and a set of records.  The text of the file is      *)
(* abstracted to what the readers tell apart: no file, an empty file       *)
(* (truncated, not yet written), text that is not JSON, or a JSON          *)
(* document with its records.                                              *)
(***************************************************************************)
EXTENDS Integers

CONSTANTS
  Ids,            \* key ids that are not blank
  Tenants,        \* tenant names that are not blank
  Secrets,        \* plaintexts of generated keys; a hash matches exactly one
  Blank,          \* a string that str.strip() leaves empty
  None,           \* Python's None: no mtime yet, a field not supplied
  StaticKeys,     \* the keys written in the configuration itself
  CoarseMtime     \* may two changes of the file share one st_mtime_ns?

Record == [id: Ids \cup {Blank}, tenant: Tenants \cup {Blank},
           secret: Secrets, revoked: BOOLEAN]

ASSUME KeyFileAssumption ==
  /\ None \notin Nat \cup BOOLEAN \cup Ids
  /\ Blank \notin Ids \cup Tenants
  /\ CoarseMtime \in BOOLEAN
  /\ \A k \in StaticKeys : k.secret \notin Secrets /\ k.id # None

Absent  == [kind |-> "absent",  recs |-> {}]
Empty   == [kind |-> "empty",   recs |-> {}]
Garbage == [kind |-> "garbage", recs |-> {}]
Json(R) == [kind |-> "json",    recs |-> R]

Content == {Absent, Empty, Garbage} \cup [kind : {"json"}, recs : SUBSET Record]

(* _parse_key_record refuses a record whose id or tenant is blank. *)
Malformed(r) == r.id = Blank \/ r.tenant = Blank

(* A load fails as a whole: one malformed record refuses every key. *)
LoadFails(c) == c.kind # "json" \/ \E r \in c.recs : Malformed(r)

(* What a load that read c leaves in the store (lines 57-66). *)
Loaded(c) == [keys |-> IF LoadFails(c) THEN {} ELSE c.recs,
              err  |-> LoadFails(c)]

(* What a store should know of c: a file that does not exist holds no key. *)
ViewOf(c) == IF c = Absent THEN [keys |-> {}, err |-> FALSE] ELSE Loaded(c)

Denied == [id |-> None, tenant |-> None]
Principal(k) == [id |-> k.id, tenant |-> k.tenant]

Outcome == {Denied} \cup {Principal(k) : k \in StaticKeys \cup Record}

(* The records that authenticate a supplied secret, static keys included. *)
Matching(keys, secret) ==
  {k \in StaticKeys \cup keys : ~k.revoked /\ k.secret = secret}

(* APIKeyStore.authenticate once the keys are loaded: a failed load refuses *)
(* every key, the static ones too.                                          *)
Decision(view, secret) ==
  IF view.err \/ Matching(view.keys, secret) = {}
  THEN Denied
  ELSE Principal(CHOOSE k \in Matching(view.keys, secret) : TRUE)

-------------------------------------------------------------------------------
(* The requests of POST /admin/api-keys.  A revoke is an update that sets   *)
(* revoked; an update leaves alone the fields it does not supply.  The list *)
(* of allowed models travels with the tenant.                               *)
Request ==
  [op : {"issue", "rotate", "update"}, id : Ids \cup {Blank},
   tenant : Tenants \cup {Blank, None}, revoked : BOOLEAN \cup {None}]

MakesSecret(req) == req.op \in {"issue", "rotate"}

Known(recs, id) == \E r \in recs : r.id = id

(* Mutant: nothing checks whether the id exists. *)
AcceptableAlways(req, recs) == TRUE

(* An issue is refused for an id that exists, the others for one that does  *)
(* not.                                                                     *)
Acceptable(req, recs) == (req.op = "issue") # Known(recs, req.id)

(* Mutants: fields that were not supplied are stored as None; an update     *)
(* takes the tenant only.                                                   *)
ChangedBlindly(r, req, secret) ==
  IF req.op = "rotate"
  THEN [r EXCEPT !.secret = secret, !.revoked = FALSE]
  ELSE [r EXCEPT !.tenant = req.tenant, !.revoked = req.revoked]

ChangedTenantOnly(r, req, secret) ==
  IF req.op = "rotate"
  THEN [r EXCEPT !.secret = secret, !.revoked = FALSE]
  ELSE [r EXCEPT !.tenant = IF req.tenant = None THEN @ ELSE req.tenant]

Changed(r, req, secret) ==
  IF req.op = "rotate"
  THEN [r EXCEPT !.secret = secret, !.revoked = FALSE]
  ELSE [r EXCEPT !.tenant = IF req.tenant = None THEN @ ELSE req.tenant,
                 !.revoked = IF req.revoked = None THEN @ ELSE req.revoked]

(* The records an acceptable request leaves.  Nothing looks at whether its  *)
(* id or its tenant is blank.                                               *)
Applied(req, secret, recs) ==
  IF req.op = "issue"
  THEN recs \cup {[id |-> req.id, tenant |-> req.tenant, secret |-> secret,
                   revoked |-> FALSE]}
  ELSE {IF r.id = req.id THEN Changed(r, req, secret) ELSE r : r \in recs}
-------------------------------------------------------------------------------
(* The modification times a change of the file may leave. *)
NextMtimes(m) == IF CoarseMtime THEN {m, m + 1} ELSE {m + 1}
=============================================================================
