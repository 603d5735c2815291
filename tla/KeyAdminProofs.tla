----------------------------- MODULE KeyAdminProofs -----------------------------
(***************************************************************************)
(* The admin endpoint for any number of threads, keys and requests: what   *)
(* holds whatever interleaves, and, for requests that are served one at a  *)
(* time, that revocations last and that the endpoint implements the table  *)
(* of KeyRegistry through every failure and crash.                         *)
(***************************************************************************)
EXTENDS KeyAdmin, TLAPS

(* One record for an id, one key for a secret. *)
Consistent(R) == \A r, q \in R : r.id = q.id \/ r.secret = q.secret => r = q

(* The file the gateway starts with names no key twice. *)
StartsConsistent == \A c \in InitContents : Consistent(c.recs)

Serial == \A a, b \in Admins : a = b

Busy(a) == step[a] # "idle"
Making(a) == Busy(a) /\ MakesSecret(req[a])

(* A busy thread has a request, and its secret if it makes one; every       *)
(* secret in sight was made.                                                *)
Provenance ==
  /\ \A a \in Admins : Busy(a) => req[a] \in Requests
  /\ \A a \in Admins : Making(a) => secret[a] \in made
  /\ \A a \in Admins : old[a] \subseteq made /\ \A r \in recs[a] : r.secret \in made
  /\ \A r \in content.recs \cup stored : r.secret \in made

(* A secret that was drawn and not yet applied is nowhere else.             *)
Drawn(a) == Making(a) /\ step[a] \in {"exists", "read"}

Unused ==
  \A a \in Admins : Drawn(a) =>
    /\ secret[a] \notin dead
    /\ \A r \in content.recs \cup stored : r.secret # secret[a]
    /\ \A b \in Admins \ {a} : /\ secret[a] \notin old[b]
                               /\ \A r \in recs[b] : r.secret # secret[a]
                               /\ Making(b) => secret[b] # secret[a]

(* What is in the file, or about to be, names no key twice. *)
Unique ==
  Consistent(content.recs) /\ \A a \in Admins : Consistent(recs[a])

IInv == TypeOK /\ Provenance /\ Unused

(* Served one at a time: a file that can be read holds the last records     *)
(* written in full; a request about to write applies to just these.         *)
FileIsStored == content.kind \in {"json", "absent"} => content.recs = stored

Revoked(R, D) == \A r \in R : r.secret \in D => r.revoked

AppliesToStored ==
  \A a \in Admins :
    step[a] \in {"open", "write"} =>
      /\ Acceptable(req[a], stored)
      /\ recs[a] = Applied(req[a], secret[a], stored)
      /\ old[a] = {r.secret : r \in {x \in stored : x.id = req[a].id}}
      /\ Making(a) => secret[a] \notin dead /\ \A r \in stored : r.secret # secret[a]
      /\ step[a] = "write" => content = Empty

SInv ==
  /\ FileIsStored
  /\ AppliesToStored
  /\ Consistent(stored) /\ Revoked(stored, dead)

-------------------------------------------------------------------------------
(* What a request makes of records. *)
LEMMA AppliedType ==
  ASSUME NEW q \in Requests, NEW s, NEW R \in SUBSET Record,
         MakesSecret(q) => s \in Secrets
  PROVE  Applied(q, s, R) \in SUBSET Record
<1>1. q \in Request /\ (q.op = "issue" => q.tenant # None)
  BY KeyAdminAssumption
<1>2. CASE q.op = "issue"
  <2>1. s \in Secrets /\ q.id \in Ids \cup {Blank} /\ q.tenant \in Tenants \cup {Blank}
    BY <1>1, <1>2 DEF Request, MakesSecret
  <2>2. [id |-> q.id, tenant |-> q.tenant, secret |-> s, revoked |-> FALSE] \in Record
    BY <2>1 DEF Record
  <2> QED BY <1>2, <2>2 DEF Applied
<1>3. CASE q.op # "issue"
  <2>1. ASSUME NEW r \in R PROVE Changed(r, q, s) \in Record
    BY <1>1, <1>3, <2>1 DEF Changed, Request, Record, MakesSecret
  <2> QED BY <1>3, <2>1 DEF Applied
<1> QED BY <1>2, <1>3

LEMMA AppliedSecrets ==
  ASSUME NEW q \in Requests, NEW s, NEW R \in SUBSET Record
  PROVE  \A x \in Applied(q, s, R) :
           (\E r \in R : x.secret = r.secret) \/ (MakesSecret(q) /\ x.secret = s)
<1>1. CASE q.op = "issue"
  BY <1>1 DEF Applied, MakesSecret
<1>2. CASE q.op # "issue"
  <2>1. q \in Request
    BY KeyAdminAssumption
  <2>2. \A r \in R : \/ Changed(r, q, s).secret = r.secret
                     \/ MakesSecret(q) /\ Changed(r, q, s).secret = s
    BY <1>2, <2>1 DEF Changed, MakesSecret, Record
  <2> QED BY <1>2, <2>2 DEF Applied
<1> QED BY <1>1, <1>2

LEMMA AppliedConsistent ==
  ASSUME NEW q \in Requests, NEW s, NEW R \in SUBSET Record,
         Consistent(R), Acceptable(q, R), MakesSecret(q) => \A r \in R : r.secret # s
  PROVE  Consistent(Applied(q, s, R))
<1>0. q \in Request
  BY KeyAdminAssumption
<1>1. CASE q.op = "issue"
  <2>1. \A r \in R : r.id # q.id /\ r.secret # s
    BY <1>1 DEF Acceptable, Known, MakesSecret
  <2> DEFINE new == [id |-> q.id, tenant |-> q.tenant, secret |-> s, revoked |-> FALSE]
  <2>2. Applied(q, s, R) = R \cup {new}
    BY <1>1 DEF Applied
  <2>3. new.id = q.id /\ new.secret = s
    OBVIOUS
  <2> HIDE DEF new
  <2> QED BY <2>1, <2>2, <2>3 DEF Consistent
<1>2. CASE q.op # "issue"
  <2> DEFINE f(r) == IF r.id = q.id THEN Changed(r, q, s) ELSE r
  <2>1. \A r \in R : f(r).id = r.id
    BY DEF Changed, Record
  <2>2. \A r \in R : \/ f(r).secret = r.secret
                     \/ MakesSecret(q) /\ r.id = q.id /\ f(r).secret = s
    BY <1>0, <1>2 DEF Changed, Record, MakesSecret
  <2>4. ASSUME NEW r \in R, NEW p \in R, f(r).id = f(p).id \/ f(r).secret = f(p).secret
        PROVE  f(r) = f(p)
    <3>1. r.id = p.id \/ r.secret = p.secret
      BY <2>1, <2>2, <2>4
    <3> QED BY <3>1 DEF Consistent
  <2>5. Applied(q, s, R) = {f(r) : r \in R}
    BY <1>2 DEF Applied
  <2> QED BY <2>4, <2>5 DEF Consistent
<1> QED BY <1>1, <1>2
-------------------------------------------------------------------------------
LEMMA InitIInv == Init => IInv
<1> SUFFICES ASSUME Init PROVE IInv
  OBVIOUS
<1>0. content \in Content /\ content.recs \in SUBSET Record
  BY KeyAdminAssumption DEF Init, Content, Absent, Empty, Garbage
<1>1. {r.secret : r \in content.recs} \in SUBSET Secrets
  BY <1>0 DEF Record
<1>2. TypeOK
  BY <1>0, <1>1 DEF Init, TypeOK
<1>3. Provenance /\ Unused
  BY DEF Init, Provenance, Unused, Drawn, Making, Busy
<1> QED BY <1>2, <1>3 DEF IInv

(* The end of a request, whatever it left in the file.                      *)
LEMMA AnswerIInv ==
  ASSUME IInv, NEW a \in Admins, NEW status \in {"done", "refused", "raised"}, Answer(a, status),
         made' = made, dead' \in SUBSET made, dead' \subseteq dead \cup old[a],
         content' \in Content, content'.recs \in {content.recs, recs[a], {}},
         stored' \in {stored, recs[a], {}}
  PROVE  IInv'
<1> USE DEF IInv
<1>1. TypeOK'
  BY DEF TypeOK, Answer
<1>2. \A b \in Admins \ {a} : /\ step'[b] = step[b] /\ req'[b] = req[b]
                               /\ secret'[b] = secret[b]
                               /\ recs'[b] = recs[b] /\ old'[b] = old[b]
  BY DEF TypeOK, Answer
<1>3. step'[a] = "idle" /\ recs'[a] = {} /\ old'[a] = {}
  BY DEF TypeOK, Answer
<1>4. Provenance'
  BY <1>2, <1>3 DEF Provenance, Making, Busy
<1>5. Unused'
  BY <1>2, <1>3 DEF Unused, Drawn, Making, Busy
<1> QED BY <1>1, <1>4, <1>5

LEMMA RefuseIInv ==
  ASSUME IInv, NEW a \in Admins, Refuse(a) \/ Raise(a), content' \in Content,
         content'.recs \in {content.recs, {}}
  PROVE  IInv'
<1>1. made' = made /\ stored' = stored /\ dead' = dead /\ dead \in SUBSET made
  BY DEF Refuse, Raise, IInv, TypeOK
<1> QED BY <1>1, AnswerIInv DEF Refuse, Raise

LEMMA ApplyIInv ==
  ASSUME IInv, NEW a \in Admins, step[a] \in {"exists", "read"},
         Apply(a, content.recs), UNCHANGED content
  PROVE  IInv'
<1> DEFINE R == content.recs
<1>0. content \in Content /\ R \in SUBSET Record
  BY DEF IInv, TypeOK, Content, Absent, Empty, Garbage
<1>1. CASE ~Acceptable(req[a], R)
  BY <1>0, <1>1, RefuseIInv DEF Apply
<1>2. CASE Acceptable(req[a], R)
  <2> USE DEF IInv
  <2>1. /\ step' = [step EXCEPT ![a] = "open"]
        /\ recs' = [recs EXCEPT ![a] = Applied(req[a], secret[a], R)]
        /\ old' = [old EXCEPT ![a] = {r.secret : r \in {x \in R : x.id = req[a].id}}]
        /\ UNCHANGED <<content, req, secret, reply, made, stored, dead>>
    BY <1>2 DEF Apply
  <2>2. /\ req[a] \in Requests /\ Busy(a)
        /\ MakesSecret(req[a]) => Making(a) /\ secret[a] \in made /\ secret[a] \in Secrets
    BY DEF Provenance, Busy, Making, TypeOK
  <2>3. Applied(req[a], secret[a], R) \in SUBSET Record
    BY <1>0, <2>2, AppliedType
  <2>4. \A x \in Applied(req[a], secret[a], R) :
           (\E r \in R : x.secret = r.secret) \/ (Making(a) /\ x.secret = secret[a])
    BY <1>0, <2>2, AppliedSecrets
  <2>5. \A x \in {r.secret : r \in {x \in R : x.id = req[a].id}} : \E r \in R : x = r.secret
    OBVIOUS
  <2>6. \A r \in R : r.secret \in Secrets
    BY <1>0 DEF Record
  <2> HIDE DEF R
  <2>7. TypeOK'
    BY <2>1, <2>3, <2>5, <2>6 DEF TypeOK
  <2>8. /\ \A b \in Admins \ {a} : step'[b] = step[b] /\ recs'[b] = recs[b] /\ old'[b] = old[b]
        /\ step'[a] = "open" /\ recs'[a] = Applied(req[a], secret[a], R)
        /\ \A x \in old'[a] : \E r \in R : x = r.secret
    BY <2>1, <2>2, <2>5 DEF TypeOK
  <2>9. Provenance'
    <3>1. \A r \in R : r.secret \in made
      BY DEF R, Provenance
    <3>2. \A r \in recs'[a] : r.secret \in made
      BY <2>2, <2>4, <2>8, <3>1 DEF Making
    <3> QED BY <2>1, <2>2, <2>8, <3>1, <3>2 DEF Provenance, Making, Busy
  <2>10. Unused'
    <3> SUFFICES ASSUME NEW b \in Admins \ {a}, Drawn(b)
                 PROVE  \A r \in recs'[a] : r.secret # secret[b]
      BY <2>1, <2>8 DEF Unused, Drawn, Making, Busy, R
    <3>1. \A r \in R : r.secret # secret[b]
      BY DEF R, Unused
    <3> QED BY <2>4, <2>8, <3>1 DEF Unused
  <2> QED BY <2>7, <2>9, <2>10
<1> QED BY <1>1, <1>2

LEMMA NextIInv == IInv /\ [Next]_vars => IInv'
<1> SUFFICES ASSUME IInv, [Next]_vars PROVE IInv'
  OBVIOUS
<1>0. content \in Content /\ content.recs \in SUBSET Record
  BY DEF IInv, TypeOK, Content, Absent, Empty, Garbage
<1>1. ASSUME NEW a \in Admins, NEW q \in Requests, Receive(a, q) PROVE IInv'
  <2> USE <1>1 DEF IInv, Receive
  <2>1. TypeOK'
    BY DEF TypeOK
  <2>2. \A b \in Admins \ {a} : step'[b] = step[b] /\ req'[b] = req[b] /\ secret'[b] = secret[b]
    BY DEF TypeOK
  <2>3. step'[a] = "exists" /\ req'[a] = q
    BY DEF TypeOK
  <2>4. MakesSecret(q) => secret'[a] \notin made /\ secret'[a] \in made' /\ made' = made \cup {secret'[a]}
    BY DEF TypeOK
  <2>5. made \subseteq made'
    OBVIOUS
  <2>6. Provenance'
    BY <2>2, <2>3, <2>4, <2>5 DEF Provenance, Making, Busy
  <2>7. Unused'
    <3>1. ASSUME NEW b \in Admins \ {a}, Drawn(b)
          PROVE  MakesSecret(q) => secret[b] # secret'[a]
      <4>1. secret[b] \in made
        BY <3>1 DEF Provenance, Drawn
      <4> QED BY <2>4, <4>1
    <3>2. ASSUME MakesSecret(q)
          PROVE  /\ secret'[a] \notin dead
                 /\ \A r \in content.recs \cup stored : r.secret # secret'[a]
                 /\ \A b \in Admins \ {a} : /\ secret'[a] \notin old[b]
                                            /\ \A r \in recs[b] : r.secret # secret'[a]
                                            /\ Making(b) => secret[b] # secret'[a]
      BY <2>4, <3>2 DEF Provenance, TypeOK
    <3> QED BY <2>2, <2>3, <3>1, <3>2 DEF Unused, Drawn, Making, Busy
  <2> QED BY <2>1, <2>6, <2>7
<1>2. ASSUME NEW a \in Admins, Exists(a) PROVE IInv'
  <2>1. CASE content = Absent
    <3>1. content.recs = {}
      BY <2>1 DEF Absent
    <3>2. Apply(a, content.recs)
      BY <1>2, <2>1, <3>1 DEF Exists
    <3> QED BY <1>2, <3>2, ApplyIInv DEF Exists
  <2>2. CASE content # Absent
    <3> USE <1>2, <2>2 DEF IInv, Exists
    <3>1. TypeOK'
      BY DEF TypeOK
    <3>2. step'[a] = "read" /\ \A b \in Admins \ {a} : step'[b] = step[b]
      BY DEF TypeOK
    <3>3. Provenance'
      BY <3>2 DEF Provenance, Making, Busy
    <3>4. Unused'
      BY <3>2 DEF Unused, Drawn, Making, Busy
    <3> QED BY <3>1, <3>3, <3>4
  <2> QED BY <2>1, <2>2
<1>3. ASSUME NEW a \in Admins, Read(a) PROVE IInv'
  <2>1. CASE content.kind = "json"
    BY <1>3, <2>1, ApplyIInv DEF Read
  <2>2. CASE content.kind # "json"
    BY <1>0, <1>3, <2>2, RefuseIInv DEF Read
  <2> QED BY <2>1, <2>2
<1>4. ASSUME NEW a \in Admins, Open(a) PROVE IInv'
  <2> USE <1>4 DEF IInv, Open
  <2>1. TypeOK' /\ content'.recs = {}
    BY DEF TypeOK, Content, Empty
  <2>2. step'[a] = "write" /\ \A b \in Admins \ {a} : step'[b] = step[b]
    BY DEF TypeOK
  <2>3. Provenance'
    BY <2>1, <2>2 DEF Provenance, Making, Busy
  <2>4. Unused'
    BY <2>1, <2>2 DEF Unused, Drawn, Making, Busy
  <2> QED BY <2>1, <2>3, <2>4
<1>5. ASSUME NEW a \in Admins, Write(a) PROVE IInv'
  <2>1. content' \in Content /\ content'.recs \in {recs[a], {}}
    BY <1>5 DEF Write, Overlaid, Json, Garbage, Content, IInv, TypeOK
  <2>2. stored' \in {stored, recs[a], {}}
    BY <1>5, <2>1 DEF Write
  <2>3. dead' \subseteq dead \cup old[a] /\ made' = made
    BY <1>5 DEF Write
  <2>4. dead' \in SUBSET made
    BY <2>3 DEF IInv, TypeOK, Provenance
  <2> QED BY <1>5, <2>1, <2>2, <2>3, <2>4, AnswerIInv DEF Write
<1>6. ASSUME NEW a \in Admins, OpenFails(a) \/ WriteFails(a) PROVE IInv'
  BY <1>0, <1>6, RefuseIInv DEF OpenFails, WriteFails
<1>7. ASSUME NEW a \in Admins, WritePartly(a) PROVE IInv'
  BY <1>7, RefuseIInv DEF WritePartly, Garbage, Content
<1>8. CASE Crash
  <2> USE <1>8 DEF IInv, Crash, Stop
  <2>1. TypeOK'
    BY DEF TypeOK
  <2>2. \A a \in Admins : step'[a] = "idle" /\ recs'[a] = {} /\ old'[a] = {}
    OBVIOUS
  <2> QED BY <2>1, <2>2 DEF Provenance, Unused, Drawn, Making, Busy
<1>9. CASE UNCHANGED vars
  BY <1>9 DEF vars, IInv, TypeOK, Provenance, Unused, Drawn, Making, Busy
<1> QED BY <1>1, <1>2, <1>3, <1>4, <1>5, <1>6, <1>7, <1>8, <1>9
           DEF Next, Rewrites, Prepares

LEMMA Invariance == Spec => []IInv
  BY InitIInv, NextIInv, PTL DEF Spec

(* Threads hold requests they received, records of the file, and secrets    *)
(* that were generated.                                                     *)
THEOREM TypeCorrect == Spec => []TypeOK
<1>1. IInv => TypeOK
  BY DEF IInv
<1> QED BY <1>1, Invariance, PTL

-------------------------------------------------------------------------------
(* A request leaves the records that it read, changed, and without doubles. *)
LEMMA InitUnique ==
  ASSUME StartsConsistent
  PROVE  Init => Unique
  BY DEF StartsConsistent, Init, Unique, Consistent

LEMMA ApplyUnique ==
  ASSUME IInv, Unique, NEW a \in Admins, step[a] \in {"exists", "read"},
         Apply(a, content.recs), UNCHANGED content
  PROVE  Unique'
<1>0. content \in Content /\ content.recs \in SUBSET Record /\ recs \in [Admins -> SUBSET Record]
  BY DEF IInv, TypeOK, Content, Absent, Empty, Garbage
<1>1. CASE ~Acceptable(req[a], content.recs)
  BY <1>0, <1>1 DEF Apply, Refuse, Answer, Unique, Consistent
<1>2. CASE Acceptable(req[a], content.recs)
  <2>1. req[a] \in Requests /\ (MakesSecret(req[a]) => \A r \in content.recs : r.secret # secret[a])
    BY DEF IInv, Provenance, Unused, Drawn, Making, Busy
  <2>2. Consistent(Applied(req[a], secret[a], content.recs))
    BY <1>0, <1>2, <2>1, AppliedConsistent DEF Unique
  <2>3. recs' = [recs EXCEPT ![a] = Applied(req[a], secret[a], content.recs)]
    BY <1>2 DEF Apply
  <2>4. \A b \in Admins : recs'[b] \in {recs[b], Applied(req[a], secret[a], content.recs)}
    BY <1>0, <2>3
  <2> QED BY <2>2, <2>4 DEF Unique, Consistent
<1> QED BY <1>1, <1>2

LEMMA NextUnique == IInv /\ Unique /\ [Next]_vars => Unique'
<1> SUFFICES ASSUME IInv, Unique, [Next]_vars PROVE Unique'
  OBVIOUS
<1>0. recs \in [Admins -> SUBSET Record]
  BY DEF IInv, TypeOK
<1>1. ASSUME content'.recs \in {content.recs, {}} \cup {recs[b] : b \in Admins},
             \A b \in Admins : recs'[b] \in {recs[b], {}}
      PROVE  Unique'
  BY <1>1 DEF Unique, Consistent
<1>2. ASSUME NEW a \in Admins,
             (\E q \in Requests : Receive(a, q)) \/ OpenFails(a) \/ WriteFails(a)
      PROVE  Unique'
  BY <1>0, <1>1, <1>2 DEF Receive, OpenFails, WriteFails, Refuse, Answer
<1>3. ASSUME NEW a \in Admins, Exists(a) PROVE Unique'
  <2>1. CASE content = Absent
    <3>1. content.recs = {}
      BY <2>1 DEF Absent
    <3> QED BY <1>3, <2>1, <3>1, ApplyUnique DEF Exists
  <2>2. CASE content # Absent
    BY <1>1, <1>3, <2>2 DEF Exists
  <2> QED BY <2>1, <2>2
<1>4. ASSUME NEW a \in Admins, Read(a) PROVE Unique'
  <2>1. CASE content.kind = "json"
    BY <1>4, <2>1, ApplyUnique DEF Read
  <2>2. CASE content.kind # "json"
    BY <1>0, <1>1, <1>4, <2>2 DEF Read, Refuse, Raise, Answer
  <2> QED BY <2>1, <2>2
<1>5. ASSUME NEW a \in Admins, Open(a) PROVE Unique'
  BY <1>1, <1>5 DEF Open, Empty
<1>6. ASSUME NEW a \in Admins, Write(a) PROVE Unique'
  <2>1. content'.recs \in {recs[a], {}}
    BY <1>6 DEF Write, Overlaid, Json, Garbage
  <2> QED BY <1>0, <1>1, <1>6, <2>1 DEF Write, Answer
<1>7. ASSUME NEW a \in Admins, WritePartly(a) PROVE Unique'
  BY <1>0, <1>1, <1>7 DEF WritePartly, Refuse, Answer, Garbage
<1>8. CASE Crash
  BY <1>1, <1>8 DEF Crash, Stop
<1>9. CASE UNCHANGED vars
  BY <1>1, <1>9 DEF vars
<1> QED BY <1>2, <1>3, <1>4, <1>5, <1>6, <1>7, <1>8, <1>9
           DEF Next, Rewrites, Prepares

(* Whatever requests interleave and fail, a readable file has one record    *)
(* for an id and one key for a secret, if it started so.                    *)
THEOREM ReadableConsistent ==
  ASSUME StartsConsistent
  PROVE  Spec => []ReadableIsConsistent
<1>1. IInv /\ Unique /\ [Next]_vars => Unique'
  BY NextUnique
<1>2. Init => Unique
  BY InitUnique
<1>3. Unique => ReadableIsConsistent
  BY DEF Unique, Consistent, ReadableIsConsistent
<1> QED BY <1>1, <1>2, <1>3, Invariance, PTL DEF Spec

(* No step of any thread replaces a file that cannot be read, unless a      *)
(* thread had read it before the damage: the endpoint never starts over     *)
(* from an empty table.                                                     *)
THEOREM DamageKept == Spec => DamageIsNotReplaced
<1>1. IInv /\ [Next]_vars => (Damaged => Damaged')
  <2> SUFFICES ASSUME IInv, [Next]_vars, Damaged PROVE Damaged'
    OBVIOUS
  <2> USE DEF Damaged
  <2>0. step \in [Admins -> {"idle", "exists", "read", "open", "write"}] /\ content # Absent
    BY DEF IInv, TypeOK, Absent
  <2>1. ASSUME NEW a \in Admins, NEW q \in Requests, Receive(a, q) PROVE Damaged'
    BY <2>0, <2>1 DEF Receive
  <2>2. ASSUME NEW a \in Admins, Exists(a) PROVE Damaged'
    BY <2>0, <2>2 DEF Exists
  <2>3. ASSUME NEW a \in Admins, Read(a) PROVE Damaged'
    BY <2>0, <2>3 DEF Read, Refuse, Raise, Answer
  <2>4. ASSUME NEW a \in Admins,
               Rewrites(a) \/ OpenFails(a) \/ WriteFails(a)
        PROVE  FALSE
    BY <2>4 DEF Rewrites, Open, Write, WritePartly, OpenFails, WriteFails
  <2>5. CASE Crash
    BY <2>5 DEF Crash, Stop
  <2>6. CASE UNCHANGED vars
    BY <2>6 DEF vars
  <2> QED BY <2>1, <2>2, <2>3, <2>4, <2>5, <2>6 DEF Next, Prepares
<1>2. [](IInv) /\ [][Next]_vars => [][Damaged => Damaged']_vars
  BY <1>1, PTL
<1> QED BY <1>2, Invariance, PTL DEF Spec, DamageIsNotReplaced
-------------------------------------------------------------------------------
(* Requests served one at a time. *)
LEMMA InitSInv ==
  ASSUME StartsConsistent
  PROVE  Init => SInv
  BY DEF StartsConsistent, Init, SInv, FileIsStored, AppliesToStored, Revoked, Consistent

(* What an acceptable request makes of records in which no secret is live   *)
(* and dead leaves none live and dead.                                      *)
LEMMA RevokedApplied ==
  ASSUME NEW q \in Requests, NEW s, NEW R \in SUBSET Record, NEW D,
         Consistent(R), Revoked(R, D), Acceptable(q, R),
         MakesSecret(q) => s \notin D /\ \A r \in R : r.secret # s
  PROVE  LET O == {r.secret : r \in {x \in R : x.id = q.id}}
         IN  Revoked(Applied(q, s, R),
                     (D \cup IF Kills(q) THEN O ELSE {}) \ IF Revives(q) THEN O ELSE {})
<1> DEFINE O == {r.secret : r \in {x \in R : x.id = q.id}}
           E == (D \cup IF Kills(q) THEN O ELSE {}) \ IF Revives(q) THEN O ELSE {}
<1>0. q \in Request
  BY KeyAdminAssumption
<1>1. \A r \in R : r.secret \in O <=> r.id = q.id
  BY DEF Consistent
<1>2. \A x \in O : \E r \in R : x = r.secret
  OBVIOUS
<1> HIDE DEF O
<1>3. ASSUME NEW r \in R, r.id # q.id, r.secret \in E PROVE r.revoked
  BY <1>1, <1>3 DEF Revoked
<1>4. CASE q.op = "issue"
  <2>1. s \notin E
    BY <1>2, <1>4 DEF MakesSecret, Kills
  <2>2. \A r \in R : r.id # q.id
    BY <1>4 DEF Acceptable, Known
  <2>3. \A x \in Applied(q, s, R) : x \in R \/ x.secret = s
    BY <1>4 DEF Applied
  <2> HIDE DEF E
  <2>4. Revoked(Applied(q, s, R), E)
    BY <1>3, <2>1, <2>2, <2>3 DEF Revoked
  <2> QED BY <2>4 DEF E, O
<1>5. CASE q.op # "issue"
  <2>1. ASSUME NEW r \in R, r.id = q.id, Changed(r, q, s).secret \in E
        PROVE  Changed(r, q, s).revoked
    <3>0. r.secret \in O
      BY <1>1, <2>1
    <3>1. CASE q.op = "rotate"
      <4>1. Changed(r, q, s).secret = s
        BY <3>1 DEF Changed, Record
      <4>2. s \notin E
        BY <1>2, <3>1 DEF MakesSecret, Revives
      <4> QED BY <2>1, <4>1, <4>2
    <3>2. CASE q.op = "update"
      <4>1. /\ Changed(r, q, s).secret = r.secret
            /\ Changed(r, q, s).revoked = IF q.revoked = None THEN r.revoked ELSE q.revoked
        BY <3>2 DEF Changed, Record
      <4>2. q.revoked \in BOOLEAN \cup {None} /\ r.revoked \in BOOLEAN
        BY <1>0 DEF Request, Record
      <4>3. q.revoked # FALSE
        BY <2>1, <3>0, <3>2, <4>1 DEF Revives
      <4>4. CASE q.revoked = None
        <5>1. r.secret \in D \/ Kills(q)
          BY <2>1, <4>1
        <5>2. None # TRUE
          BY KeyFileAssumption
        <5> QED BY <5>1, <5>2, <3>2, <4>1, <4>4 DEF Kills, Revoked
      <4> QED BY <4>1, <4>2, <4>3, <4>4
    <3> QED BY <1>0, <1>5, <3>1, <3>2 DEF Request
  <2>2. \A x \in Applied(q, s, R) : \E r \in R :
          IF r.id = q.id THEN x = Changed(r, q, s) ELSE x = r
    BY <1>5 DEF Applied
  <2> HIDE DEF E
  <2>3. Revoked(Applied(q, s, R), E)
    BY <1>3, <2>1, <2>2 DEF Revoked
  <2> QED BY <2>3 DEF E, O
<1> QED BY <1>4, <1>5

(* The one write of a request that is served alone. *)
LEMMA WriteAlone ==
  ASSUME IInv, SInv, NEW a \in Admins, Write(a)
  PROVE  /\ req[a] \in Requests /\ Acceptable(req[a], stored)
         /\ MakesSecret(req[a]) => /\ secret[a] \in made /\ secret[a] \notin dead
                                   /\ \A r \in stored : r.secret # secret[a]
         /\ stored' = Applied(req[a], secret[a], stored)
         /\ content'.recs = stored' /\ made' = made
<1>1. step[a] = "write" /\ content = Empty /\ recs[a] = Applied(req[a], secret[a], stored)
  BY DEF Write, SInv, AppliesToStored
<1>2. content' = Json(recs[a])
  BY <1>1 DEF Write, Overlaid
<1>3. stored' = recs[a] /\ content'.recs = recs[a]
  BY <1>2 DEF Write, Json
<1>4. req[a] \in Requests /\ (Making(a) => secret[a] \in made)
  BY <1>1 DEF IInv, Provenance, Busy
<1> QED BY <1>1, <1>3, <1>4 DEF Write, SInv, AppliesToStored, Making, Busy

LEMMA NextSInv ==
  ASSUME Serial
  PROVE  IInv /\ SInv /\ [Next]_vars => SInv'
<1> SUFFICES ASSUME IInv, SInv, [Next]_vars PROVE SInv'
  OBVIOUS
<1>0. content \in Content /\ stored \in SUBSET Record /\ \A a, b \in Admins : a = b
  BY DEF IInv, TypeOK, Serial
<1>a. ASSUME NEW a \in Admins, step'[a] \notin {"open", "write"},
             UNCHANGED <<stored, dead>>, content' \in {content, Garbage}
      PROVE  SInv'
  <2>1. \A b \in Admins : step'[b] \notin {"open", "write"}
    BY <1>0, <1>a
  <2>2. FileIsStored'
    BY <1>a DEF SInv, FileIsStored, Garbage
  <2> QED BY <1>a, <2>1, <2>2 DEF SInv, AppliesToStored, Consistent, Revoked
<1>1. ASSUME NEW a \in Admins, NEW q \in Requests, Receive(a, q) PROVE SInv'
  BY <1>1, <1>a DEF Receive, IInv, TypeOK
<1>b. ASSUME NEW a \in Admins, step[a] \in {"exists", "read"}, Apply(a, content.recs),
             content.kind \in {"json", "absent"}, UNCHANGED content
      PROVE  SInv'
  <2>1. CASE ~Acceptable(req[a], content.recs)
    BY <2>1, <1>a, <1>b DEF Apply, Refuse, Answer, IInv, TypeOK
  <2>2. CASE Acceptable(req[a], content.recs)
    <3>1. content.recs = stored
      BY <1>b DEF SInv, FileIsStored
    <3>2. /\ step' = [step EXCEPT ![a] = "open"]
          /\ recs' = [recs EXCEPT ![a] = Applied(req[a], secret[a], stored)]
          /\ old' = [old EXCEPT ![a] = {r.secret : r \in {x \in stored : x.id = req[a].id}}]
          /\ UNCHANGED <<content, req, secret, made, stored, dead>>
      BY <1>b, <2>2, <3>1 DEF Apply
    <3>3. /\ step'[a] = "open" /\ recs'[a] = Applied(req[a], secret[a], stored)
          /\ old'[a] = {r.secret : r \in {x \in stored : x.id = req[a].id}}
      BY <3>2 DEF IInv, TypeOK
    <3>4. Making(a) => secret[a] \notin dead /\ \A r \in stored : r.secret # secret[a]
      BY <1>b DEF IInv, Unused, Drawn
    <3>5. AppliesToStored'
      <4> SUFFICES ASSUME NEW b \in Admins
                   PROVE  /\ Acceptable(req'[b], stored')
                          /\ recs'[b] = Applied(req'[b], secret'[b], stored')
                          /\ old'[b] = {r.secret : r \in {x \in stored' : x.id = req'[b].id}}
                          /\ (step'[b] # "idle" /\ MakesSecret(req'[b])) =>
                               secret'[b] \notin dead' /\ \A r \in stored' : r.secret # secret'[b]
                          /\ step'[b] # "write"
        BY DEF AppliesToStored, Making, Busy
      <4>1. b = a
        BY <1>0
      <4> QED BY <1>b, <2>2, <3>1, <3>2, <3>3, <3>4, <4>1 DEF Making, Busy
    <3> QED BY <3>2, <3>5 DEF SInv, FileIsStored, Consistent, Revoked
  <2> QED BY <2>1, <2>2
<1>2. ASSUME NEW a \in Admins, Exists(a) PROVE SInv'
  <2>1. CASE content = Absent
    <3>1. content.recs = {} /\ content.kind = "absent"
      BY <2>1 DEF Absent
    <3> QED BY <1>2, <1>b, <2>1, <3>1 DEF Exists
  <2>2. CASE content # Absent
    BY <1>2, <1>a, <2>2 DEF Exists, IInv, TypeOK
  <2> QED BY <2>1, <2>2
<1>3. ASSUME NEW a \in Admins, Read(a) PROVE SInv'
  <2>1. CASE content.kind = "json"
    BY <1>3, <1>b, <2>1 DEF Read
  <2>2. CASE content.kind # "json"
    BY <1>3, <1>a, <2>2 DEF Read, Refuse, Raise, Answer, IInv, TypeOK
  <2> QED BY <2>1, <2>2
<1>4. ASSUME NEW a \in Admins, Open(a) PROVE SInv'
  <2>1. step'[a] = "write" /\ step[a] = "open"
    BY <1>4 DEF Open, IInv, TypeOK
  <2>2. AppliesToStored'
    BY <1>0, <1>4, <2>1 DEF Open, SInv, AppliesToStored, Making, Busy
  <2> QED BY <1>4, <2>2 DEF Open, SInv, FileIsStored, Empty, Consistent, Revoked
<1>5. ASSUME NEW a \in Admins, Write(a) PROVE SInv'
  <2>1. /\ req[a] \in Requests /\ Acceptable(req[a], stored)
        /\ MakesSecret(req[a]) => secret[a] \notin dead /\ \A r \in stored : r.secret # secret[a]
        /\ stored' = Applied(req[a], secret[a], stored) /\ content'.recs = stored'
    BY <1>5, WriteAlone
  <2>2. Consistent(stored')
    BY <1>0, <2>1, AppliedConsistent DEF SInv
  <2>3. old[a] = {r.secret : r \in {x \in stored : x.id = req[a].id}}
    BY <1>5 DEF Write, SInv, AppliesToStored
  <2>4. dead' = (dead \cup IF Kills(req[a]) THEN old[a] ELSE {})
                   \ IF Revives(req[a]) THEN old[a] ELSE {}
    BY <1>5 DEF Write
  <2>5. Revoked(stored', dead')
    BY <1>0, <2>1, <2>3, <2>4, RevokedApplied DEF SInv
  <2>6. \A b \in Admins : step'[b] = "idle"
    BY <1>0, <1>5 DEF Write, Answer, IInv, TypeOK
  <2> QED BY <2>1, <2>2, <2>5, <2>6 DEF SInv, FileIsStored, AppliesToStored, Consistent, Revoked
<1>6. ASSUME NEW a \in Admins, OpenFails(a) \/ WriteFails(a) \/ WritePartly(a) PROVE SInv'
  BY <1>6, <1>a DEF OpenFails, WriteFails, WritePartly, Refuse, Answer, IInv, TypeOK
<1>7. CASE Crash
  BY <1>7 DEF Crash, Stop, SInv, FileIsStored, AppliesToStored, Consistent, Revoked
<1>8. CASE UNCHANGED vars
  BY <1>8 DEF vars, SInv, FileIsStored, AppliesToStored, Making, Busy, Consistent, Revoked
<1> QED BY <1>1, <1>2, <1>3, <1>4, <1>5, <1>6, <1>7, <1>8
           DEF Next, Rewrites, Prepares

LEMMA SerialInvariance ==
  ASSUME Serial, StartsConsistent
  PROVE  Spec => []SInv
<1>1. IInv /\ SInv /\ [Next]_vars => SInv'
  BY NextSInv
<1>2. Init => SInv
  BY InitSInv
<1> QED BY <1>1, <1>2, Invariance, PTL DEF Spec

(* Requests that are served one at a time never lose a revocation: a secret *)
(* that was revoked or rotated away is not live again, whatever fails and   *)
(* whenever the process stops.                                              *)
THEOREM RevocationsLast ==
  ASSUME Serial, StartsConsistent
  PROVE  Spec => []RevokedStaysRevoked
<1>1. IInv /\ SInv => RevokedStaysRevoked
  <2> SUFFICES ASSUME IInv, SInv PROVE RevokedStaysRevoked
    OBVIOUS
  <2>1. content.recs = stored \/ content.recs = {}
    BY DEF IInv, TypeOK, SInv, FileIsStored, Content, Absent, Empty, Garbage
  <2> QED BY <2>1 DEF SInv, Revoked, RevokedStaysRevoked
<1> QED BY <1>1, Invariance, SerialInvariance, PTL

(* The two modules mean the same by a request. *)
LEMMA SameRequests ==
  /\ Registry!Record = Record
  /\ \A q : Registry!MakesSecret(q) <=> MakesSecret(q)
  /\ \A q, R : Registry!Acceptable(q, R) <=> Acceptable(q, R)
  /\ \A q, s, R : Registry!Applied(q, s, R) = Applied(q, s, R)
<1>1. Registry!Record = Record
  BY DEF Record, Registry!Record
<1>2. \A q : Registry!MakesSecret(q) <=> MakesSecret(q)
  BY DEF MakesSecret, Registry!MakesSecret
<1>3. \A q, R : Registry!Acceptable(q, R) <=> Acceptable(q, R)
  BY DEF Acceptable, Registry!Acceptable, Known, Registry!Known
<1>4. ASSUME NEW q, NEW s, NEW R
      PROVE  Registry!Applied(q, s, R) = Applied(q, s, R)
  BY DEF Applied, Registry!Applied, Changed, Registry!Changed
<1> QED BY <1>1, <1>2, <1>3, <1>4

(* Requests that are served one at a time act on the last records written   *)
(* as on a table that each changes at once, through faults and crashes:     *)
(* a write is a Serve of KeyRegistry, the drawing of a secret a Generate,   *)
(* and every other step changes nothing of the table.                       *)
THEOREM RegistryImplemented ==
  ASSUME Serial, StartsConsistent
  PROVE  Spec => ImplementsRegistry
<1>1. Init => Registry!Init
  <2> SUFFICES ASSUME Init PROVE Registry!Init
    OBVIOUS
  <2>1. content \in InitContents /\ stored = content.recs /\ made = {r.secret : r \in content.recs}
    BY DEF Init
  <2>2. stored \in SUBSET Record
    BY <2>1, KeyAdminAssumption DEF Content, Absent, Empty, Garbage
  <2>3. \A r, q \in stored : r.id = q.id => r = q
    BY <2>1 DEF StartsConsistent, Consistent
  <2> QED BY <2>1, <2>2, <2>3, SameRequests DEF Registry!Init, Registry!IdsUnique
<1>2. IInv /\ SInv /\ [Next]_vars => [Registry!Next]_<<stored, made>>
  <2> SUFFICES ASSUME IInv, SInv, [Next]_vars, ~UNCHANGED <<stored, made>>
               PROVE  Registry!Next
    OBVIOUS
  <2>1. ASSUME NEW a \in Admins, NEW q \in Requests, Receive(a, q) PROVE Registry!Next
    BY <2>1 DEF Receive, Registry!Next, Registry!Generate
  <2>2. ASSUME NEW a \in Admins, Write(a) PROVE Registry!Next
    <3>1. /\ req[a] \in Requests /\ Acceptable(req[a], stored)
          /\ MakesSecret(req[a]) => secret[a] \in made /\ \A r \in stored : r.secret # secret[a]
          /\ stored' = Applied(req[a], secret[a], stored) /\ made' = made
      BY <2>2, WriteAlone
    <3>2. made \subseteq Secrets /\ \A r \in stored : r.secret \in made
      BY DEF IInv, TypeOK, Provenance
    <3>3. CASE MakesSecret(req[a])
      BY <3>1, <3>2, <3>3, SameRequests DEF Registry!Next, Registry!Serve
    <3>4. CASE ~MakesSecret(req[a])
      <4>1. PICK r \in stored : r.id = req[a].id
        BY <3>1, <3>4 DEF Acceptable, Known, MakesSecret
      <4>2. Applied(req[a], secret[a], stored) = Applied(req[a], r.secret, stored)
        BY <3>4 DEF Applied, Changed, MakesSecret
      <4>3. r.secret \in Secrets
        BY <3>2
      <4>4. Registry!Serve(req[a], r.secret)
        BY <3>1, <3>4, <4>2, SameRequests DEF Registry!Serve
      <4> QED BY <3>1, <4>3, <4>4 DEF Registry!Next
    <3> QED BY <3>3, <3>4
  <2>3. ASSUME NEW a \in Admins, Exists(a) \/ Read(a) \/ Open(a) \/ OpenFails(a) \/ WriteFails(a)
                                 \/ WritePartly(a)
        PROVE  FALSE
    BY <2>3 DEF Exists, Read, Apply, Open, OpenFails, WriteFails, WritePartly, Refuse, Raise
  <2>4. CASE Crash
    BY <2>4 DEF Crash, Stop
  <2>5. CASE UNCHANGED vars
    BY <2>5 DEF vars
  <2> QED BY <2>1, <2>2, <2>3, <2>4, <2>5 DEF Next, Rewrites, Prepares
<1> QED BY <1>1, <1>2, Invariance, SerialInvariance, PTL
        DEF Spec, ImplementsRegistry, Registry!Spec
===============================================================================
