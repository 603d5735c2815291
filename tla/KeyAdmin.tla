------------------------------- MODULE KeyAdmin -------------------------------
(***************************************************************************)
(* The admin endpoint: issue_api_key, update_api_key and rotate_api_key,   *)
(* each a read of the whole key file, a change in memory, and a rewrite in *)
(* place that first truncates the file.  Each request runs in a thread of  *)
(* its own and nothing excludes another one.                               *)
(*                                                                         *)
(* A step ends at each file operation.  A file operation may fail, and the *)
(* process may stop between two of them (Faults).                          *)
(***************************************************************************)
EXTENDS KeyFile, FiniteSets

CONSTANTS
  Admins,         \* threads that serve admin requests
  Requests,       \* the requests clients send
  InitContents,   \* the file when the gateway starts
  Faults          \* may file operations fail and the process stop?

ASSUME KeyAdminAssumption ==
  /\ Requests \subseteq Request
  /\ \A req \in Requests : req.op = "issue" => req.tenant # None
  /\ InitContents \subseteq Content
  /\ Faults \in BOOLEAN

VARIABLES
  content,        \* what the file holds
  step,           \* where each admin thread is
  req,            \* the request it serves
  secret,         \* the plaintext it generated
  recs,           \* the records it is going to write
  old,            \* history: the secret the addressed key had when read
  reply,          \* the status of its last answer
  made,           \* history: the secrets generated so far
  stored,         \* history: the last records written in full
  dead            \* history: the secrets that were revoked or rotated away

adminVars == <<step, req, secret, recs, old, reply, made, stored, dead>>
vars == <<content, step, req, secret, recs, old, reply, made, stored,
          dead>>

TypeOK ==
  /\ content \in Content
  /\ step \in [Admins -> {"idle", "exists", "read", "open", "write"}]
  /\ req \in [Admins -> Requests \cup {None}]
  /\ secret \in [Admins -> Secrets \cup {None}]
  /\ recs \in [Admins -> SUBSET Record]
  /\ old \in [Admins -> SUBSET Secrets]
  /\ reply \in [Admins -> {"none", "done", "refused", "raised"}]
  /\ made \in SUBSET Secrets
  /\ stored \in SUBSET Record
  /\ dead \in SUBSET made

(* A request is over: forget what the thread held of it. *)
Answer(a, status) ==
  /\ step' = [step EXCEPT ![a] = "idle"]
  /\ req' = [req EXCEPT ![a] = None]
  /\ secret' = [secret EXCEPT ![a] = None]
  /\ recs' = [recs EXCEPT ![a] = {}]
  /\ old' = [old EXCEPT ![a] = {}]
  /\ reply' = [reply EXCEPT ![a] = status]

Refuse(a) == Answer(a, "refused") /\ UNCHANGED <<made, stored, dead>>

(* An exception that the endpoint does not catch ends it without an answer. *)
Raise(a) == Answer(a, "raised") /\ UNCHANGED <<made, stored, dead>>

Init ==
  /\ content \in InitContents
  /\ step = [a \in Admins |-> "idle"]
  /\ req = [a \in Admins |-> None]
  /\ secret = [a \in Admins |-> None]
  /\ recs = [a \in Admins |-> {}]
  /\ old = [a \in Admins |-> {}]
  /\ reply = [a \in Admins |-> "none"]
  /\ made = {r.secret : r \in content.recs}
  /\ stored = content.recs
  /\ dead = {}

(* An authenticated request with a known action; the secret of an issue or *)
(* a rotation is drawn before anything is read.                            *)
Receive(a, q) ==
  /\ step[a] = "idle"
  /\ step' = [step EXCEPT ![a] = "exists"]
  /\ req' = [req EXCEPT ![a] = q]
  /\ reply' = [reply EXCEPT ![a] = "none"]
  /\ IF MakesSecret(q)
     THEN \E s \in Secrets \ made : /\ secret' = [secret EXCEPT ![a] = s]
                                    /\ made' = made \cup {s}
     ELSE UNCHANGED <<secret, made>>
  /\ UNCHANGED <<content, recs, old, stored, dead>>

(* Mutant: it is applied without looking for the id. *)
ApplyUnchecked(a, R) ==
  /\ step' = [step EXCEPT ![a] = "open"]
  /\ recs' = [recs EXCEPT ![a] = Applied(req[a], secret[a], R)]
  /\ old' = [old EXCEPT ![a] = {r.secret : r \in {x \in R : x.id = req[a].id}}]
  /\ UNCHANGED <<req, secret, reply, made, stored, dead>>

(* The request is applied to the records that were read, or refused. *)
Apply(a, R) ==
  IF Acceptable(req[a], R)
  THEN /\ step' = [step EXCEPT ![a] = "open"]
       /\ recs' = [recs EXCEPT ![a] = Applied(req[a], secret[a], R)]
       /\ old' = [old EXCEPT ![a] = {r.secret : r \in {x \in R : x.id = req[a].id}}]
       /\ UNCHANGED <<req, secret, reply, made, stored, dead>>
  ELSE Refuse(a)

(* target.exists(): a file that is not there holds no record. *)
Exists(a) ==
  /\ step[a] = "exists"
  /\ IF content = Absent
     THEN Apply(a, {})
     ELSE /\ step' = [step EXCEPT ![a] = "read"]
          /\ UNCHANGED <<req, secret, recs, old, reply, made, stored, dead>>
  /\ UNCHANGED content

(* Mutant: a file that cannot be parsed counts as one without records. *)
ReadLenient(a) ==
  /\ step[a] = "read"
  /\ Apply(a, content.recs)
  /\ UNCHANGED content

(* read_text() and json.loads(): a list of objects will do, malformed       *)
(* records included.  What cannot be read may be text, which is refused, or *)
(* JSON of another form: raw.get raises AttributeError for one that is not  *)
(* an object (auth.py:231), dict(item) TypeError, and server.py:293 catches *)
(* neither.                                                                 *)
Read(a) ==
  /\ step[a] = "read"
  /\ IF content.kind = "json"
     THEN Apply(a, content.recs)
     ELSE Refuse(a) \/ (content = Garbage /\ Raise(a))
  /\ UNCHANGED content

(* write_text() opens the file for writing, which empties it... *)
Open(a) ==
  /\ step[a] = "open"
  /\ content' = Empty
  /\ step' = [step EXCEPT ![a] = "write"]
  /\ UNCHANGED <<req, secret, recs, old, reply, made, stored, dead>>

(* ...and writes from its start.  Over an empty file that gives the new     *)
(* text.  Over what another thread has written since, a longer old text     *)
(* sticks out behind the new one.                                           *)
Overlaid(a) ==
  {Json(recs[a])} \cup IF content \in {Empty, Json(recs[a])} THEN {} ELSE {Garbage}

Kills(q) == q.op = "rotate" \/ (q.op = "update" /\ q.revoked = TRUE)
Revives(q) == q.op = "update" /\ q.revoked = FALSE

Write(a) ==
  /\ step[a] = "write"
  /\ content' \in Overlaid(a)
  /\ stored' = IF content'.kind = "json" THEN content'.recs ELSE stored
  /\ dead' = (dead \cup IF Kills(req[a]) THEN old[a] ELSE {})
                   \ IF Revives(req[a]) THEN old[a] ELSE {}
  /\ Answer(a, "done")
  /\ UNCHANGED made

(* The directory or the file cannot be opened: OSError, answered with 400. *)
OpenFails(a) ==
  /\ Faults
  /\ step[a] = "open"
  /\ Refuse(a)
  /\ UNCHANGED content

(* The disk is full: some of the text is written, or none. *)
WritePartly(a) ==
  /\ Faults
  /\ step[a] = "write"
  /\ content' = Garbage
  /\ Refuse(a)

WriteFails(a) ==
  /\ Faults
  /\ step[a] = "write"
  /\ Refuse(a)
  /\ UNCHANGED content

(* The process stops, and what its threads had not written is gone. *)
Stop ==
  /\ step' = [a \in Admins |-> "idle"]
  /\ req' = [a \in Admins |-> None]
  /\ secret' = [a \in Admins |-> None]
  /\ recs' = [a \in Admins |-> {}]
  /\ old' = [a \in Admins |-> {}]
  /\ reply' = [a \in Admins |-> "none"]
  /\ UNCHANGED <<content, made, stored, dead>>

Crash == Faults /\ Stop

(* The steps that change the file, and the others. *)
Rewrites(a) == Open(a) \/ Write(a) \/ WritePartly(a)

Prepares(a) ==
  \/ \E q \in Requests : Receive(a, q)
  \/ Exists(a) \/ Read(a) \/ OpenFails(a) \/ WriteFails(a)

Next == \/ \E a \in Admins : Rewrites(a) \/ Prepares(a)
        \/ Crash

Spec == Init /\ [][Next]_vars
-------------------------------------------------------------------------------
(* Served one at a time, the requests act on the last records written as    *)
(* on a table that each changes at once: no half-applied request, whatever  *)
(* fails and whenever the process stops (auth.py:70-126, 226-240).          *)
Registry == INSTANCE KeyRegistry WITH table <- stored
ImplementsRegistry == Registry!Spec

(* A secret that an acknowledged request revoked or rotated away is not     *)
(* live in the file, until an acknowledged update un-revokes its key.       *)
RevokedStaysRevoked ==
  \A r \in content.recs : r.secret \in dead => r.revoked

(* The file cannot be read, and no request is about to write what it had   *)
(* read before the damage.                                                  *)
Damaged ==
  /\ content.kind \in {"empty", "garbage"}
  /\ \A a \in Admins : step[a] \notin {"open", "write"}

(* A file that cannot be read is never taken for an empty one: no request,  *)
(* alone or with others, after any crash or failed write, gets as far as to *)
(* replace it, so no revocation is forgotten by starting over.              *)
DamageIsNotReplaced == [][Damaged => Damaged']_vars

(* Whatever interleaves, a readable file has one record for an id and one   *)
(* key for a secret: the search that stops at the first match misses none.  *)
ReadableIsConsistent ==
  \A r, q \in content.recs : r.id = q.id \/ r.secret = q.secret => r = q
===============================================================================
