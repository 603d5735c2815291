-------------------------- MODULE KeyManagementProofs --------------------------
(***************************************************************************)
(* The composition implements both its parts, for any number of request    *)
(* threads and admin threads: what is proved of the key store and of the   *)
(* endpoint apart holds of them together.  From it follow the two promises *)
(* that need both: a revoked key is refused once its revocation is         *)
(* acknowledged, and a valid key is accepted while the file loads.         *)
(***************************************************************************)
EXTENDS KeyManagement, TLAPS, FiniteSetTheorems

S == INSTANCE KeyStoreProofs
       WITH Contents <- Content, MaxMtime <- MaxMtime + 2 * Cardinality(Admins)
A == INSTANCE KeyAdminProofs

-------------------------------------------------------------------------------
(* The endpoint does not know the key store. *)
LEMMA AdminAssumption == A!KeyAdminAssumption
  BY KeyManagementAssumption DEF A!KeyAdminAssumption, Request, A!Request, Content, A!Content,
     Absent, A!Absent, Empty, A!Empty, Garbage, A!Garbage, Record, A!Record

LEMMA FileAssumption == A!KeyFileAssumption /\ S!KeyFileAssumption
  BY KeyFileAssumption DEF A!KeyFileAssumption, S!KeyFileAssumption

(* KeyAdmin read twice: as the model composes it, and with its proofs.      *)
LEMMA SameAdmin ==
  /\ Admin!Init <=> A!Init
  /\ Admin!vars = A!vars
  /\ Admin!Crash <=> A!Crash
  /\ \A a : (Admin!Rewrites(a) <=> A!Rewrites(a)) /\ (Admin!Prepares(a) <=> A!Prepares(a))
<1>1. Admin!Init <=> A!Init
  BY
     DEF Admin!Init, A!Init
<1>2. Admin!vars = A!vars
  BY
     DEF Admin!vars, A!vars
<1>3. Admin!Crash <=> A!Crash
  BY
     DEF Admin!Crash, A!Crash, Admin!Stop, A!Stop
<1>4. ASSUME NEW a PROVE Admin!Rewrites(a) <=> A!Rewrites(a)
  BY
     DEF Admin!Rewrites, A!Rewrites, Admin!Open, A!Open, Admin!Write,
         A!Write, Admin!WritePartly, A!WritePartly, Admin!Overlaid,
         A!Overlaid, Admin!Json, A!Json, Admin!Empty, A!Empty,
         Admin!Garbage, A!Garbage, Admin!Kills, A!Kills, Admin!Revives,
         A!Revives, Admin!Refuse, A!Refuse, Admin!Answer, A!Answer
<1>5. ASSUME NEW a PROVE Admin!Prepares(a) <=> A!Prepares(a)
  BY
     DEF Admin!Prepares, A!Prepares, Admin!Receive, A!Receive,
         Admin!Exists, A!Exists, Admin!Read, A!Read, Admin!OpenFails,
         A!OpenFails, Admin!WriteFails, A!WriteFails, Admin!Absent,
         A!Absent, Admin!Apply, A!Apply, Admin!Acceptable, A!Acceptable,
         Admin!Known, A!Known, Admin!Applied, A!Applied, Admin!Changed,
         A!Changed, Admin!MakesSecret, A!MakesSecret, Admin!Refuse,
         A!Refuse, Admin!Raise, A!Raise, Admin!Garbage, A!Garbage, Admin!Answer, A!Answer
<1> QED BY <1>1, <1>2, <1>3, <1>4, <1>5

LEMMA SameStore ==
  /\ Store!vars = S!vars
  /\ Store!StartUp = S!StartUp
  /\ Store!Restart <=> S!Restart
  /\ Store!Observe <=> S!Observe
  /\ \A t : Store!Authenticate(t) <=> S!Authenticate(t)
<1>1. Store!vars = S!vars
  BY
     DEF Store!vars, S!vars
<1>2. Store!StartUp = S!StartUp
  BY
     DEF Store!StartUp, S!StartUp, Store!ViewOf, S!ViewOf, Store!Loaded,
         S!Loaded, Store!LoadFails, S!LoadFails, Store!Malformed,
         S!Malformed, Store!Absent, S!Absent
<1>3. Store!Restart <=> S!Restart
  BY <1>2
     DEF Store!Restart, S!Restart, Store!fileVars, S!fileVars,
         Store!Absent, S!Absent, Store!Denied, S!Denied
<1>4. Store!Observe <=> S!Observe
  BY
     DEF Store!Observe, S!Observe, Store!Active, S!Active
<1>5. ASSUME NEW t PROVE Store!Authenticate(t) <=> S!Authenticate(t)
  BY
     DEF Store!Authenticate, S!Authenticate, Store!Begin, S!Begin,
         Store!Load, S!Load, Store!Stat, S!Stat, Store!Gone, S!Gone,
         Store!Keep, S!Keep, Store!Reload, S!Reload, Store!Read, S!Read,
         Store!Publish, S!Publish, Store!Decide, S!Decide, Store!Cached,
         S!Cached, Store!Decision, S!Decision, Store!Matching, S!Matching,
         Store!Principal, S!Principal, Store!Denied, S!Denied,
         Store!Loaded, S!Loaded, Store!LoadFails, S!LoadFails,
         Store!Malformed, S!Malformed, Store!Absent, S!Absent,
         Store!fileVars, S!fileVars
<1> QED BY <1>1, <1>2, <1>3, <1>4, <1>5

(* Request threads leave the file alone. *)
LEMMA FileKept ==
  ASSUME NEW t, S!Authenticate(t) PROVE UNCHANGED <<content, mtime>>
  BY DEF S!Authenticate, S!Begin, S!Load, S!Stat, S!Gone, S!Keep, S!Reload, S!Read,
         S!Publish, S!fileVars

(* Working on a request without a file operation that writes leaves it too. *)
LEMMA PrepareKept ==
  ASSUME NEW a, A!Prepares(a) PROVE UNCHANGED content
  BY DEF A!Prepares, A!Receive, A!Exists, A!Read, A!OpenFails, A!WriteFails

(* A request thread is a stuttering step of the endpoint, a restart of the  *)
(* process is its crash.                                                    *)
LEMMA AdminStep == [Next]_vars => [A!Next]_(A!vars)
<1> SUFFICES ASSUME [Next]_vars PROVE [A!Next]_(A!vars)
  OBVIOUS
<1>1. ASSUME NEW t \in Workers, Authenticate(t) PROVE UNCHANGED A!vars
  BY <1>1, SameStore, FileKept DEF Authenticate, adminVars, A!vars
<1>2. ASSUME NEW a \in Admins, Rewrite(a) \/ Prepare(a) PROVE A!Next
  BY <1>2, SameAdmin DEF Rewrite, Prepare, A!Next
<1>3. CASE Restart
  BY <1>3, SameAdmin DEF Restart, A!Next
<1>4. CASE UNCHANGED vars
  BY <1>4 DEF vars, adminVars, A!vars
<1> QED BY <1>1, <1>2, <1>3, <1>4 DEF Next

LEMMA SpecAdmin == Spec => A!Spec
<1>1. Init => A!Init
  BY SameAdmin DEF Init
<1> QED BY <1>1, AdminStep, PTL DEF Spec, A!Spec

(* The composition is an endpoint: what KeyAdminProofs shows holds of it.   *)
THEOREM AdminImplemented == Spec => Admin!Spec
<1>1. A!Init <=> Admin!Init
  BY SameAdmin
<1>2. [A!Next]_(A!vars) <=> [Admin!Next]_(Admin!vars)
  <2>1. A!Next <=> Admin!Next
    BY SameAdmin DEF A!Next, Admin!Next
  <2> QED BY <2>1 DEF A!vars, Admin!vars
<1> QED BY <1>1, <1>2, SpecAdmin, PTL DEF A!Spec, Admin!Spec

LEMMA AdminInvariance == Spec => []A!IInv
<1>1. A!Init => A!IInv
  BY AdminAssumption, FileAssumption, A!InitIInv DEF A!InitIInv
<1>2. A!IInv /\ [A!Next]_(A!vars) => A!IInv'
  BY AdminAssumption, FileAssumption, A!NextIInv DEF A!NextIInv
<1> QED BY <1>1, <1>2, SpecAdmin, PTL DEF A!Spec
-------------------------------------------------------------------------------
(* The file changes at most twice for each request that is under way.       *)
Busy == {a \in Admins : step[a] # "idle"}
Early == {a \in Admins : step[a] \in {"exists", "read", "open"}}

ChangesBounded ==
  /\ mtime \in Nat
  /\ mtime + Cardinality(Busy) + Cardinality(Early) <= MaxMtime + 2 * Cardinality(Admins)

LEMMA Sizes ==
  ASSUME NEW T \in SUBSET Admins
  PROVE  /\ IsFiniteSet(T) /\ Cardinality(T) \in Nat
         /\ Cardinality(T) <= Cardinality(Admins) /\ Cardinality(Admins) \in Nat
         /\ \A U \in SUBSET T : Cardinality(U) <= Cardinality(T) /\ Cardinality(U) \in Nat
         /\ \A a \in T : Cardinality(T \ {a}) = Cardinality(T) - 1
<1>1. IsFiniteSet(Admins) /\ IsFiniteSet(T)
  BY KeyManagementAssumption, FS_Subset
<1>2. \A U \in SUBSET T : IsFiniteSet(U) /\ Cardinality(U) <= Cardinality(T)
  BY <1>1, FS_Subset
<1> QED BY <1>1, <1>2, FS_Subset, FS_CardinalityType, FS_RemoveElement

LEMMA InitChanges == Init => ChangesBounded
<1> SUFFICES ASSUME Init PROVE ChangesBounded
  OBVIOUS
<1>1. Busy = {} /\ Early = {} /\ mtime = 0
  BY DEF Init, Admin!Init, Busy, Early
<1>2. Cardinality({}) = 0
  BY FS_EmptySet
<1> QED BY <1>1, <1>2, Sizes, KeyManagementAssumption DEF ChangesBounded

LEMMA NextChanges == A!IInv /\ ChangesBounded /\ [Next]_vars => ChangesBounded'
<1> SUFFICES ASSUME A!IInv, ChangesBounded, [Next]_vars PROVE ChangesBounded'
  OBVIOUS
<1> DEFINE B == Cardinality(Busy)
           E == Cardinality(Early)
           N == Cardinality(Admins)
<1>0. step \in [Admins -> {"idle", "exists", "read", "open", "write"}]
  BY DEF A!IInv, A!TypeOK
<1>1. /\ B \in Nat /\ E \in Nat /\ N \in Nat /\ MaxMtime \in Nat /\ mtime \in Nat
      /\ mtime + B + E <= MaxMtime + 2 * N
  BY Sizes, KeyManagementAssumption DEF ChangesBounded, Busy, Early
<1>2. B' \in Nat /\ E' \in Nat /\ B' <= N /\ E' <= N
  <2>1. Busy' \in SUBSET Admins /\ Early' \in SUBSET Admins
    BY DEF Busy, Early
  <2> QED BY <2>1, Sizes
<1>3. ASSUME mtime' = mtime, Busy' \subseteq Busy, Early' \subseteq Early PROVE ChangesBounded'
  <2>1. B' <= B /\ E' <= E
    BY <1>3, Sizes DEF Busy, Early
  <2> QED BY <1>1, <1>2, <1>3, <2>1 DEF ChangesBounded
<1>4. ASSUME NEW t \in Workers, Authenticate(t) PROVE ChangesBounded'
  BY <1>3, <1>4, SameStore, FileKept DEF Authenticate, adminVars, Busy, Early
<1>5. ASSUME NEW a \in Admins, Rewrite(a) PROVE ChangesBounded'
  <2>1. mtime' \in {mtime, mtime + 1}
    BY <1>5 DEF Rewrite, NextMtimes
  <2>2. A!Rewrites(a)
    BY <1>5, SameAdmin DEF Rewrite
  <2>3. CASE A!Open(a)
    <3>1. Busy' = Busy /\ Early' = Early \ {a} /\ a \in Early
      BY <1>0, <2>3 DEF A!Open, Busy, Early
    <3>2. E' = E - 1
      BY <3>1, Sizes DEF Early
    <3> QED BY <1>1, <1>2, <2>1, <3>1, <3>2 DEF ChangesBounded
  <2>4. CASE A!Write(a) \/ A!WritePartly(a)
    <3>1. Busy' = Busy \ {a} /\ Early' = Early /\ a \in Busy
      BY <1>0, <2>4 DEF A!Write, A!WritePartly, A!Refuse, A!Answer, Busy, Early
    <3>2. B' = B - 1
      BY <3>1, Sizes DEF Busy
    <3> QED BY <1>1, <1>2, <2>1, <3>1, <3>2 DEF ChangesBounded
  <2> QED BY <2>2, <2>3, <2>4 DEF A!Rewrites
<1>6. ASSUME NEW a \in Admins, Prepare(a) PROVE ChangesBounded'
  <2>1. A!Prepares(a) /\ mtime' = mtime
    BY <1>6, SameAdmin DEF Prepare
  <2>2. CASE step[a] = "idle"
    <3>1. mtime < MaxMtime
      BY <1>6, <2>2 DEF Prepare
    <3> QED BY <1>1, <1>2, <2>1, <3>1 DEF ChangesBounded
  <2>3. CASE step[a] # "idle"
    <3>1. Busy' \subseteq Busy /\ Early' \subseteq Early
      BY <1>0, <2>1, <2>3 DEF A!Prepares, A!Receive, A!Exists, A!Read, A!OpenFails, A!WriteFails,
         A!Apply, A!Refuse, A!Raise, A!Answer, Busy, Early
    <3> QED BY <1>3, <2>1, <3>1
  <2> QED BY <2>2, <2>3
<1>7. CASE Restart
  <2>1. mtime' = mtime /\ Busy' = {} /\ Early' = {}
    BY <1>7, SameAdmin, SameStore DEF Restart, A!Crash, A!Stop, S!Restart, S!fileVars, Busy, Early
  <2> QED BY <1>3, <2>1
<1>8. CASE UNCHANGED vars
  BY <1>3, <1>8 DEF vars, adminVars, Busy, Early
<1> QED BY <1>4, <1>5, <1>6, <1>7, <1>8 DEF Next

LEMMA Changes == Spec => []ChangesBounded
  BY InitChanges, NextChanges, AdminInvariance, PTL DEF Spec
-------------------------------------------------------------------------------
(* The key store does not know the endpoint: to it, an admin thread that    *)
(* changes the file is somebody who does.                                   *)
LEMMA StoreAssumption == S!KeyStoreAssumption
<1>1. Content = S!Content
  BY DEF Content, S!Content, Absent, S!Absent, Empty, S!Empty, Garbage, S!Garbage, Record, S!Record
<1>2. Cardinality(Admins) \in Nat
  BY Sizes
<1> QED BY <1>1, <1>2, KeyManagementAssumption DEF S!KeyStoreAssumption

LEMMA InitStore == Init => S!Init
<1> SUFFICES ASSUME Init PROVE S!Init
  OBVIOUS
<1>1. content \in Content
  BY KeyManagementAssumption DEF Init, Admin!Init
<1>2. Absent = S!Absent /\ Denied = S!Denied
  BY DEF Absent, S!Absent, Denied, S!Denied
<1> QED BY <1>1, <1>2, SameStore DEF Init, S!Init

LEMMA StoreStep == A!IInv /\ ChangesBounded /\ [Next]_vars => [S!Next]_(S!vars)
<1> SUFFICES ASSUME A!IInv, ChangesBounded, [Next]_vars PROVE [S!Next]_(S!vars)
  OBVIOUS
<1>1. ASSUME NEW t \in Workers, Authenticate(t) PROVE S!Next
  BY <1>1, SameStore DEF Authenticate, S!Next
<1>2. ASSUME NEW a \in Admins, Rewrite(a) PROVE S!Next
  <2>1. A!Rewrites(a) /\ mtime' \in NextMtimes(mtime) /\ S!Observe /\ UNCHANGED storeVars
    BY <1>2, SameAdmin, SameStore DEF Rewrite
  <2>2. content' \in Content
    <3>1. recs[a] \in SUBSET Record
      <4>1. A!Record = Record
        BY DEF A!Record, Record
      <4> QED BY <4>1 DEF A!IInv, A!TypeOK
    <3> QED BY <2>1, <3>1 DEF A!Rewrites, A!Open, A!Write, A!WritePartly, A!Overlaid, A!Json, A!Empty,
              A!Garbage, Content, Empty, Garbage
  <2>3. mtime < MaxMtime + 2 * Cardinality(Admins)
    <3>1. a \in Busy
      BY <2>1 DEF A!Rewrites, A!Open, A!Write, A!WritePartly, Busy
    <3>2. Cardinality(Busy \ {a}) = Cardinality(Busy) - 1
      BY <3>1, Sizes DEF Busy
    <3>3. Cardinality(Busy \ {a}) \in Nat /\ Cardinality(Busy) \in Nat /\ Cardinality(Early) \in Nat
          /\ Cardinality(Admins) \in Nat
      BY Sizes DEF Busy, Early
    <3> QED BY <3>2, <3>3, KeyManagementAssumption DEF ChangesBounded
  <2>4. NextMtimes(mtime) = S!NextMtimes(mtime)
    BY DEF NextMtimes, S!NextMtimes
  <2>5. S!Rewrite(content')
    BY <2>1, <2>3, <2>4 DEF S!Rewrite, storeVars, S!threadVars
  <2> QED BY <2>2, <2>5 DEF S!Next
<1>3. ASSUME NEW a \in Admins, Prepare(a) PROVE UNCHANGED S!vars
  BY <1>3, SameAdmin, PrepareKept DEF Prepare, storeVars, S!vars
<1>4. CASE Restart
  BY <1>4, SameStore DEF Restart, S!Next
<1>5. CASE UNCHANGED vars
  BY <1>5 DEF vars, storeVars, S!vars
<1> QED BY <1>1, <1>2, <1>3, <1>4, <1>5 DEF Next

(* The composition is a key store: what KeyStoreProofs shows holds of it.   *)
THEOREM StoreImplemented == Spec => Store!Spec
<1>1. Spec => S!Spec
  BY InitStore, StoreStep, AdminInvariance, Changes, PTL DEF Spec, S!Spec
<1>2. S!Init => Store!Init
  <2>1. Absent = Store!Absent /\ Absent = S!Absent /\ Denied = Store!Denied /\ Denied = S!Denied
    BY DEF Absent, S!Absent, Store!Absent, Denied, S!Denied, Store!Denied
  <2> QED BY <2>1, SameStore DEF S!Init, Store!Init
<1>3. [S!Next]_(S!vars) => [Store!Next]_(Store!vars)
  <2>1. \A c : S!Rewrite(c) <=> Store!Rewrite(c)
    BY SameStore DEF S!Rewrite, Store!Rewrite, S!NextMtimes, Store!NextMtimes, S!threadVars, Store!threadVars
  <2>2. S!Next <=> Store!Next
    BY <2>1, SameStore DEF S!Next, Store!Next
  <2> QED BY <2>2 DEF S!vars, Store!vars
<1> QED BY <1>1, <1>2, <1>3, PTL DEF S!Spec, Store!Spec

LEMMA StoreInvariance == ASSUME ~CoarseMtime PROVE Spec => []S!IInv
<1>1. S!Init => S!IInv
  BY StoreAssumption, FileAssumption, S!InitIInv DEF S!InitIInv
<1>2. S!IInv /\ [S!Next]_(S!vars) => S!IInv'
  BY StoreAssumption, FileAssumption, S!NextIInv DEF S!NextIInv
<1> QED BY <1>1, <1>2, InitStore, StoreStep, AdminInvariance, Changes, PTL DEF Spec
-------------------------------------------------------------------------------
(* What a call has seen of the file.                                        *)
LEMMA SameFile ==
  /\ Absent = S!Absent /\ Denied = S!Denied
  /\ \A c : LoadFails(c) <=> S!LoadFails(c)
  /\ \A c : Loaded(c) = S!Loaded(c) /\ ViewOf(c) = S!ViewOf(c)
  /\ \A view, s : Decision(view, s) = S!Decision(view, s)
<1>1. Absent = S!Absent /\ Denied = S!Denied
  BY DEF Absent, S!Absent, Denied, S!Denied
<1>2. ASSUME NEW c PROVE LoadFails(c) <=> S!LoadFails(c)
  BY DEF LoadFails, S!LoadFails, Malformed, S!Malformed
<1>3. ASSUME NEW c PROVE Loaded(c) = S!Loaded(c) /\ ViewOf(c) = S!ViewOf(c)
  BY <1>1, <1>2 DEF Loaded, S!Loaded, ViewOf, S!ViewOf
<1>4. ASSUME NEW view, NEW s PROVE Decision(view, s) = S!Decision(view, s)
  BY <1>1 DEF Decision, S!Decision, Matching, S!Matching, Principal, S!Principal
<1> QED BY <1>1, <1>2, <1>3, <1>4

(* A call that goes on keeps its secret and sees the file that a step       *)
(* leaves; one that begins has seen nothing else.                           *)
LEMMA SeenGrows ==
  ASSUME S!TypeOK, [Next]_vars, NEW t \in Workers
  PROVE  \/ /\ ~Begun(t) /\ supplied'[t] = supplied[t]
            /\ seen'[t] \subseteq seen[t] \cup {content'}
         \/ seen'[t] \subseteq {content'}
<1> USE DEF S!TypeOK
<1>1. ASSUME NEW u \in Workers, S!Begin(u) PROVE u = t \/ (pc'[t] = pc[t] /\ supplied'[t] = supplied[t] /\ seen'[t] = seen[t])
  BY <1>1 DEF S!Begin
<1>2. ASSUME S!Begin(t) PROVE seen'[t] = {content'}
  BY <1>2 DEF S!Begin, S!fileVars
<1>3. ASSUME NEW u \in Workers, S!Load(u) PROVE supplied' = supplied /\ seen' = seen /\ ~Begun(t)
  BY <1>3 DEF S!Load, S!Stat, S!Gone, S!Keep, S!Reload, S!Read, S!Publish, S!Decide, Begun
<1>4. ASSUME NEW u \in Workers, Authenticate(u) PROVE S!Begin(u) \/ S!Load(u)
  BY <1>4, SameStore DEF Authenticate, S!Authenticate
<1>5. ASSUME NEW a \in Admins, Rewrite(a)
      PROVE  pc' = pc /\ supplied' = supplied /\ seen'[t] \subseteq seen[t] \cup {content'}
  BY <1>5, SameStore DEF Rewrite, storeVars, S!Observe
<1>6. ASSUME NEW a \in Admins, Prepare(a) PROVE pc' = pc /\ supplied' = supplied /\ seen' = seen
  BY <1>6 DEF Prepare, storeVars
<1>7. CASE Restart
  BY <1>7, SameStore DEF Restart, S!Restart
<1>8. CASE UNCHANGED vars
  BY <1>8 DEF vars, storeVars, Begun
<1> QED BY <1>1, <1>2, <1>3, <1>4, <1>5, <1>6, <1>7, <1>8 DEF Next, Begun
-------------------------------------------------------------------------------
(* A file that has revoked every key with a secret refuses the secret. *)
LEMMA DeadDenied ==
  ASSUME NEW c, NEW s \in Secrets, \A r \in c.recs : r.secret = s => r.revoked
  PROVE  Decision(ViewOf(c), s) = Denied
<1>1. ViewOf(c).keys \subseteq c.recs
  BY DEF ViewOf, Loaded
<1>2. Matching(ViewOf(c).keys, s) = {}
  BY <1>1, KeyFileAssumption DEF Matching
<1> QED BY <1>2 DEF Decision

(* Every content that a call with a dead secret has seen refuses it. *)
BarredSeen ==
  \A t \in barred :
    /\ t \in Workers /\ supplied[t] \in dead
    /\ \A c \in seen[t] : Decision(ViewOf(c), supplied[t]) = Denied

LEMMA NextBarred ==
  ASSUME S!TypeOK, A!TypeOK', A!RevokedStaysRevoked', BarredSeen, [Next]_vars
  PROVE  BarredSeen'
<1>1. CASE UNCHANGED vars
  BY <1>1 DEF vars, storeVars, adminVars, BarredSeen
<1>2. CASE Next
  <2> SUFFICES ASSUME NEW t \in barred'
               PROVE  /\ t \in Workers /\ supplied'[t] \in dead'
                      /\ \A c \in seen'[t] : Decision(ViewOf(c), supplied'[t]) = Denied
    BY DEF BarredSeen
  <2>1. t \in Workers /\ supplied'[t] \in dead' /\ (t \in barred \/ Begun(t))
    BY <1>2 DEF Next, Track
  <2>2. Decision(ViewOf(content'), supplied'[t]) = Denied
    <3>1. supplied'[t] \in Secrets /\ \A r \in content'.recs : r.secret = supplied'[t] => r.revoked
      BY <2>1 DEF A!TypeOK, A!RevokedStaysRevoked
    <3> QED BY <3>1, DeadDenied
  <2>3. ASSUME NEW c \in seen'[t] PROVE c = content' \/ (supplied'[t] = supplied[t] /\ c \in seen[t] /\ t \in barred)
    BY <2>1, SeenGrows
  <2> QED BY <2>1, <2>2, <2>3 DEF BarredSeen
<1> QED BY <1>1, <1>2

(* Once a revocation or a rotation is acknowledged, no call that begins     *)
(* afterwards is granted the dead secret, if admin requests come one at a   *)
(* time: the revocation stays in the file, and no thread's late load of an  *)
(* older file decides a call that did not see that file.                    *)
THEOREM RevokedRefused ==
  ASSUME ~CoarseMtime, A!Serial, A!StartsConsistent
  PROVE  Spec => []RevokedKeyRefused
<1>1. Spec => []A!RevokedStaysRevoked
  <2>1. A!Spec => []A!RevokedStaysRevoked
    BY AdminAssumption, FileAssumption, A!RevocationsLast DEF A!RevocationsLast
  <2> QED BY <2>1, SpecAdmin, PTL
<1>2. Init => BarredSeen
  BY DEF Init, BarredSeen
<1>3. S!IInv /\ A!IInv' /\ A!RevokedStaysRevoked' /\ BarredSeen /\ [Next]_vars => BarredSeen'
  BY NextBarred DEF S!IInv, A!IInv
<1>4. Spec => []BarredSeen
  BY <1>1, <1>2, <1>3, AdminInvariance, StoreInvariance, PTL DEF Spec
<1>5. S!IInv /\ BarredSeen => RevokedKeyRefused
  <2> SUFFICES ASSUME S!IInv, BarredSeen, NEW t \in barred, pc[t] = "done", outcome[t] # Denied
               PROVE  FALSE
    BY DEF RevokedKeyRefused
  <2>1. PICK c \in seen[t] : outcome[t] = Decision(ViewOf(c), supplied[t])
    BY SameFile DEF S!IInv, S!AcceptJustified, BarredSeen
  <2> QED BY <2>1 DEF BarredSeen
<1> QED BY <1>4, <1>5, StoreInvariance, PTL
-------------------------------------------------------------------------------
(* A file that can be read, or is not there, holds the last records written *)
(* in full; once there is a file, the endpoint never takes it away.         *)
FileIsStored == content.kind \in {"json", "absent"} => content.recs = stored

(* While there is no file nothing is loaded, so nothing has failed to load. *)
NoFileNoLoad ==
  /\ content = Absent => ~cache.err
  /\ \A t \in Workers : /\ S!Loading(t) => content # Absent
                        /\ pc[t] = "publish" => got[t] # Absent

(* A call that saw the file missing has seen all that the file was since:   *)
(* the load that failed, if one did, and what the others have in hand.      *)
AbsenceSeen ==
  \A t \in Workers :
    S!Active(t) /\ Absent \in seen[t] =>
      /\ \A u \in Workers : pc[u] = "publish" => got[u] \in seen[t]
      /\ cache.err => \E c \in seen[t] : c # Absent /\ LoadFails(c)

(* A call was refused by a content it saw, the missing file included.       *)
DenialSeen ==
  \A t \in Workers :
    pc[t] = "done" /\ outcome[t] = Denied =>
      \E c \in seen[t] : Decision(ViewOf(c), supplied[t]) = Denied

(* Every content that could be loaded grants a secret that was valid.       *)
EntitledSeen ==
  \A t \in entitled :
    /\ t \in Workers
    /\ \A c \in seen[t] : c = Absent \/ ~LoadFails(c) =>
                            Decision(ViewOf(c), supplied[t]) # Denied

VInv == FileIsStored /\ NoFileNoLoad /\ AbsenceSeen /\ DenialSeen

LEMMA NextFileIsStored ==
  ASSUME FileIsStored, A!TypeOK, [Next]_vars
  PROVE  FileIsStored' /\ (content # Absent \/ content' # content => content' # Absent)
<1>1. ASSUME NEW a \in Admins, Rewrite(a) PROVE FileIsStored' /\ content' # Absent
  BY <1>1, SameAdmin DEF Rewrite, A!Rewrites, A!Open, A!Write, A!WritePartly, A!Overlaid, A!Json, A!Empty,
     A!Garbage, A!Refuse, FileIsStored, Absent
<1>2. ASSUME NEW a \in Admins, Prepare(a) PROVE UNCHANGED <<content, stored>>
  BY <1>2, SameAdmin, PrepareKept DEF Prepare, A!Prepares, A!Receive, A!Exists, A!Read, A!OpenFails,
     A!WriteFails, A!Apply, A!Refuse, A!Raise
<1>3. ASSUME NEW t \in Workers, Authenticate(t) PROVE UNCHANGED <<content, stored>>
  BY <1>3, SameStore, FileKept DEF Authenticate, adminVars
<1>4. CASE Restart
  BY <1>4, SameAdmin DEF Restart, A!Crash, A!Stop, FileIsStored
<1>5. CASE UNCHANGED vars
  BY <1>5 DEF vars, adminVars, FileIsStored
<1> QED BY <1>1, <1>2, <1>3, <1>4, <1>5 DEF Next, FileIsStored
(* A thread that decides keeps the others where they are. *)
LEMMA DecideAlone ==
  ASSUME S!TypeOK, NEW t \in Workers, S!Decide(t)
  PROVE  /\ supplied' = supplied /\ seen' = seen /\ pc'[t] = "done"
         /\ outcome'[t] = Decision(S!Cached', supplied[t])
         /\ \A u \in Workers \ {t} : pc'[u] = pc[u] /\ outcome'[u] = outcome[u] /\ got'[u] = got[u]
<1>1. outcome'[t] = S!Decision(S!Cached', supplied[t])
  BY DEF S!Decide, S!TypeOK
<1> QED BY <1>1, SameFile DEF S!Decide, S!TypeOK

LEMMA DecideSeen ==
  ASSUME S!TypeOK, NEW t \in Workers, S!Decide(t), DenialSeen, NEW c \in seen[t],
         Decision(S!Cached', supplied[t]) = Denied =>
           Decision(ViewOf(c), supplied[t]) = Denied
  PROVE  DenialSeen'
  BY DecideAlone DEF DenialSeen

(* A file that is there and fails to load refuses every key. *)
LEMMA FailureDenies ==
  ASSUME NEW c, c # Absent, LoadFails(c), NEW s
  PROVE  Decision(ViewOf(c), s) = Denied
  BY DEF ViewOf, Loaded, Decision

LEMMA NextSeen ==
  ASSUME S!IInv, NoFileNoLoad, AbsenceSeen, DenialSeen, [S!Next]_(S!vars),
         content # Absent \/ content' # content => content' # Absent
  PROVE  NoFileNoLoad' /\ AbsenceSeen' /\ DenialSeen'
<1>n. /\ content = Absent => ~cache.err
      /\ \A t \in Workers : pc[t] = "publish" => content # Absent /\ got[t] # Absent
  BY DEF NoFileNoLoad, S!Loading
<1> USE DEF S!IInv
<1>d. ASSUME NEW t \in Workers, S!Decide(t), UNCHANGED content, cache'.err => cache.err
      PROVE  NoFileNoLoad' /\ AbsenceSeen'
  BY <1>d, DecideAlone DEF NoFileNoLoad, AbsenceSeen, S!Active, S!Loading
<1>1. ASSUME NEW t \in Workers, S!Begin(t) PROVE NoFileNoLoad' /\ AbsenceSeen' /\ DenialSeen'
  <2> USE <1>1 DEF S!Begin, S!fileVars, S!TypeOK
  <2>1. NoFileNoLoad'
    BY DEF NoFileNoLoad, S!Loading
  <2>2. AbsenceSeen'
    <3>1. seen'[t] = {content}
      OBVIOUS
    <3> QED BY <3>1, <1>n DEF AbsenceSeen, S!Active
  <2>3. DenialSeen'
    BY DEF DenialSeen
  <2> QED BY <2>1, <2>2, <2>3
<1>2. ASSUME NEW t \in Workers, S!Stat(t) \/ S!Reload(t) PROVE NoFileNoLoad' /\ AbsenceSeen' /\ DenialSeen'
  <2> USE <1>2, SameFile DEF S!Stat, S!Reload, S!fileVars, S!TypeOK
  <2>1. NoFileNoLoad'
    BY DEF NoFileNoLoad, S!Loading
  <2>2. AbsenceSeen'
    BY DEF AbsenceSeen, S!Active
  <2>3. DenialSeen'
    BY DEF DenialSeen
  <2> QED BY <2>1, <2>2, <2>3
<1>3. ASSUME NEW t \in Workers, S!Gone(t) PROVE NoFileNoLoad' /\ AbsenceSeen' /\ DenialSeen'
  <2>0. /\ S!Decide(t) /\ UNCHANGED content /\ cache'.err = cache.err
        /\ S!Cached' = [keys |-> {}, err |-> cache.err] /\ pc[t] = "gone"
    BY <1>3 DEF S!Gone, S!fileVars, S!TypeOK, S!Cached
  <2>1. NoFileNoLoad' /\ AbsenceSeen'
    BY <2>0, <1>d
  <2>2. Absent \in seen[t]
    BY <2>0, SameFile DEF S!LoadsWereSeen
  <2>3. CASE cache.err
    <3>1. PICK c \in seen[t] : c # Absent /\ LoadFails(c)
      BY <2>0, <2>2, <2>3 DEF AbsenceSeen, S!Active
    <3>2. DenialSeen'
      BY <2>0, <3>1, FailureDenies, DecideSeen
    <3> QED BY <2>1, <3>2
  <2>4. CASE ~cache.err
    <3>1. S!Cached' = ViewOf(Absent)
      BY <2>0, <2>4 DEF ViewOf, S!TypeOK
    <3>2. DenialSeen'
      BY <2>0, <2>2, <3>1, DecideSeen
    <3> QED BY <2>1, <3>2
  <2> QED BY <2>3, <2>4
<1>4. ASSUME NEW t \in Workers, S!Keep(t) PROVE NoFileNoLoad' /\ AbsenceSeen' /\ DenialSeen'
  <2>0. S!Decide(t) /\ UNCHANGED <<content, cache>> /\ S!Cached' = S!Cached /\ pc[t] = "compare"
    BY <1>4 DEF S!Keep, S!fileVars, S!Cached
  <2>1. NoFileNoLoad' /\ AbsenceSeen'
    BY <2>0, <1>d
  <2>2. PICK c \in seen[t] : S!Cached = Loaded(c)
    BY <1>4, SameFile DEF S!Keep, S!CacheWasSeen
  <2>3. CASE c = Absent
    <3>1. cache.err
      BY <2>2, <2>3 DEF S!Cached, Loaded, LoadFails, Absent
    <3>2. PICK b \in seen[t] : b # Absent /\ LoadFails(b)
      BY <2>0, <2>3, <3>1 DEF AbsenceSeen, S!Active
    <3>3. DenialSeen'
      BY <2>0, <3>2, FailureDenies, DecideSeen
    <3> QED BY <2>1, <3>3
  <2>4. CASE c # Absent
    <3>1. ViewOf(c) = S!Cached'
      BY <2>0, <2>2, <2>4 DEF ViewOf
    <3>2. DenialSeen'
      BY <2>0, <3>1, DecideSeen
    <3> QED BY <2>1, <3>2
  <2> QED BY <2>3, <2>4
<1>5. ASSUME NEW t \in Workers, S!Read(t) PROVE NoFileNoLoad' /\ AbsenceSeen' /\ DenialSeen'
  <2> USE <1>5 DEF S!Read, S!fileVars, S!TypeOK
  <2>1. NoFileNoLoad'
    BY DEF NoFileNoLoad, S!Loading
  <2>2. AbsenceSeen'
    <3>1. \A u \in Workers : S!Active(u) => content \in seen[u]
      BY DEF S!CallsSeeTheFile
    <3> QED BY <3>1 DEF AbsenceSeen, S!Active
  <2>3. DenialSeen'
    BY DEF DenialSeen
  <2> QED BY <2>1, <2>2, <2>3
<1>6. ASSUME NEW t \in Workers, S!Publish(t) PROVE NoFileNoLoad' /\ AbsenceSeen' /\ DenialSeen'
  <2>0. /\ S!Decide(t) /\ UNCHANGED content /\ pc[t] = "publish" /\ got[t] # Absent
        /\ content # Absent /\ got[t] \in seen[t]
    BY <1>6, <1>n DEF S!Publish, S!fileVars, S!LoadsWereSeen
  <2>1. S!Cached' = Loaded(got[t]) /\ cache'.err = LoadFails(got[t])
    BY <1>6, SameFile DEF S!Publish, S!Cached, S!Loaded
  <2>2. NoFileNoLoad'
    BY <2>0, DecideAlone DEF NoFileNoLoad, S!Loading
  <2>3. AbsenceSeen'
    BY <2>0, <2>1, DecideAlone DEF AbsenceSeen, S!Active
  <2>4. ViewOf(got[t]) = S!Cached'
    BY <2>0, <2>1 DEF ViewOf
  <2>5. DenialSeen'
    BY <2>0, <2>4, DecideSeen
  <2> QED BY <2>2, <2>3, <2>5
<1>7. ASSUME NEW c \in Content, S!Rewrite(c) PROVE NoFileNoLoad' /\ AbsenceSeen' /\ DenialSeen'
  <2> USE <1>7 DEF S!Rewrite, S!threadVars, S!TypeOK
  <2>0. \A t \in Workers : seen[t] \subseteq seen'[t] /\ seen'[t] \subseteq seen[t] \cup {content'}
    BY DEF S!Observe
  <2>1. NoFileNoLoad'
    BY DEF NoFileNoLoad, S!Loading
  <2>2. AbsenceSeen'
    <3>1. SUFFICES ASSUME NEW t \in Workers, S!Active(t), Absent \in seen'[t]
                   PROVE  /\ \A u \in Workers : pc[u] = "publish" => got[u] \in seen'[t]
                          /\ cache.err => \E b \in seen'[t] : b # Absent /\ LoadFails(b)
      BY DEF AbsenceSeen, S!Active
    <3>2. Absent \in seen[t]
      BY <2>0, <3>1 DEF S!CallsSeeTheFile
    <3> QED BY <2>0, <3>1, <3>2 DEF AbsenceSeen
  <2>3. DenialSeen'
    BY <2>0 DEF DenialSeen
  <2> QED BY <2>1, <2>2, <2>3
<1>8. CASE S!Restart
  <2> USE <1>8 DEF S!Restart, S!fileVars, S!TypeOK
  <2>1. NoFileNoLoad'
    <3>1. content = Absent => ~cache'.err
      BY SameFile DEF S!StartUp, S!ViewOf
    <3> QED BY <3>1 DEF NoFileNoLoad, S!Loading
  <2> QED BY <2>1 DEF AbsenceSeen, DenialSeen, S!Active
<1>9. CASE UNCHANGED S!vars
  BY <1>9 DEF S!vars, NoFileNoLoad, AbsenceSeen, DenialSeen, S!Active, S!Loading
<1> QED BY <1>1, <1>2, <1>3, <1>4, <1>5, <1>6, <1>7, <1>8, <1>9
           DEF S!Next, S!Authenticate, S!Load
(* A file that loads grants every secret that its live records carry. *)
LEMMA ValidGranted ==
  ASSUME NEW c \in Content, c = Absent \/ ~LoadFails(c), NEW s \in Valid(c.recs)
  PROVE  Decision(ViewOf(c), s) # Denied
<1>1. ViewOf(c).keys = c.recs /\ ~ViewOf(c).err
  BY DEF ViewOf, Loaded, Absent
<1>2. \A r \in c.recs : r.id # None
  <2>1. CASE c = Absent
    BY <2>1 DEF Absent
  <2>2. CASE ~LoadFails(c)
    BY <2>2, KeyFileAssumption DEF LoadFails, Malformed, Content, Record, Absent, Empty, Garbage
  <2> QED BY <2>1, <2>2
<1>3. Matching(c.recs, s) # {}
  BY DEF Valid, Matching
<1>4. \A k \in Matching(c.recs, s) : k.id # None
  BY <1>2, KeyFileAssumption DEF Matching
<1>5. \A k : k.id # None => Principal(k) # Denied
  BY DEF Principal, Denied
<1> QED BY <1>1, <1>3, <1>4, <1>5 DEF Decision

LEMMA NextEntitled ==
  ASSUME S!TypeOK, A!TypeOK', FileIsStored', EntitledSeen, [Next]_vars
  PROVE  EntitledSeen'
<1>1. CASE UNCHANGED vars
  BY <1>1 DEF vars, storeVars, EntitledSeen
<1>2. CASE Next
  <2> SUFFICES ASSUME NEW t \in entitled'
               PROVE  /\ t \in Workers
                      /\ \A c \in seen'[t] : c = Absent \/ ~LoadFails(c) =>
                                              Decision(ViewOf(c), supplied'[t]) # Denied
    BY DEF EntitledSeen
  <2>1. t \in Workers /\ supplied'[t] \in Valid(stored') /\ (t \in entitled \/ Begun(t))
    BY <1>2 DEF Next, Track
  <2>2. ASSUME content' = Absent \/ ~LoadFails(content')
        PROVE  Decision(ViewOf(content'), supplied'[t]) # Denied
    <3>1. content' \in Content
      BY DEF A!TypeOK, Content, A!Content, Absent, A!Absent, Empty, A!Empty, Garbage, A!Garbage,
         Record, A!Record
    <3>2. content'.kind \in {"json", "absent"}
      BY <2>2 DEF LoadFails, Absent
    <3>3. content'.recs = stored'
      BY <3>2 DEF FileIsStored
    <3> QED BY <2>1, <2>2, <3>1, <3>3, ValidGranted
  <2>3. ASSUME NEW c \in seen'[t] PROVE c = content' \/ (supplied'[t] = supplied[t] /\ c \in seen[t] /\ t \in entitled)
    BY <2>1, SeenGrows
  <2> QED BY <2>1, <2>2, <2>3 DEF EntitledSeen
<1> QED BY <1>1, <1>2

LEMMA InitVInv == Init => VInv /\ EntitledSeen
<1> SUFFICES ASSUME Init PROVE VInv /\ EntitledSeen
  OBVIOUS
<1>1. FileIsStored
  BY DEF Init, Admin!Init, FileIsStored
<1>2. content = Absent => ~cache.err
  BY SameStore, SameFile DEF Init, S!StartUp, S!ViewOf
<1>3. \A t \in Workers : pc[t] = "idle"
  BY DEF Init
<1> QED BY <1>1, <1>2, <1>3 DEF Init, VInv, NoFileNoLoad, AbsenceSeen, DenialSeen, EntitledSeen, S!Active, S!Loading

(* A key that is valid throughout a call is accepted if the file could be   *)
(* loaded, or was missing, at every moment of the call: whatever the other  *)
(* request threads load meanwhile, with any number of admin requests in     *)
(* flight.                                                                  *)
THEOREM ValidAccepted ==
  ASSUME ~CoarseMtime
  PROVE  Spec => []ValidKeyAccepted
<1>1. /\ S!IInv /\ A!IInv /\ A!IInv' /\ ChangesBounded /\ VInv /\ EntitledSeen /\ [Next]_vars
      => VInv' /\ EntitledSeen'
  <2> SUFFICES ASSUME S!IInv, A!IInv, A!IInv', ChangesBounded, VInv, EntitledSeen, [Next]_vars
               PROVE  VInv' /\ EntitledSeen'
    OBVIOUS
  <2>1. FileIsStored' /\ (content # Absent \/ content' # content => content' # Absent)
    BY NextFileIsStored DEF VInv, A!IInv
  <2>2. NoFileNoLoad' /\ AbsenceSeen' /\ DenialSeen'
    BY <2>1, StoreStep, NextSeen DEF VInv
  <2>3. EntitledSeen'
    BY <2>1, NextEntitled DEF S!IInv, A!IInv
  <2> QED BY <2>1, <2>2, <2>3 DEF VInv
<1>2. Spec => [](VInv /\ EntitledSeen)
  BY <1>1, InitVInv, AdminInvariance, StoreInvariance, Changes, PTL DEF Spec
<1>3. VInv /\ EntitledSeen => ValidKeyAccepted
  BY DEF VInv, DenialSeen, EntitledSeen, ValidKeyAccepted
<1> QED BY <1>2, <1>3, PTL
===============================================================================
