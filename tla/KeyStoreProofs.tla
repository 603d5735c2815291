---------------------------- MODULE KeyStoreProofs ----------------------------
(***************************************************************************)
(* For any number of threads, contents and changes of the file, and as     *)
(* long as two changes never leave the same modification time, the         *)
(* lock-free cache of APIKeyStore answers every call as the file itself    *)
(* would have at some moment of that call.                                 *)
(***************************************************************************)
EXTENDS KeyStore, TLAPS

View == [keys : SUBSET Record, err : BOOLEAN]

(* A load yields records and a flag (auth.py:57-66). *)
LEMMA LoadedType == \A c \in Content : Loaded(c) \in View /\ ViewOf(c) \in View
  BY DEF View, Loaded, ViewOf, Content, Absent, Empty, Garbage, Json, LoadFails

(* authenticate() returns None or the principal of a key (auth.py:36-43). *)
LEMMA DecisionType ==
  ASSUME NEW view \in View, NEW s
  PROVE  Decision(view, s) \in Outcome
  BY DEF View, Decision, Outcome, Matching, Principal

(* Reading a missing file grants nothing (auth.py:60-64), so whatever a load *)
(* grants, the content it read grants.                                       *)
LEMMA LoadedDecision ==
  ASSUME NEW c \in Content, NEW s
  PROVE  \/ Decision(Loaded(c), s) = Decision(ViewOf(c), s)
         \/ c = Absent /\ Decision(Loaded(c), s) = Denied
<1>1. CASE c = Absent
  <2>1. Loaded(c).err = TRUE
    BY <1>1 DEF Loaded, LoadFails, Absent
  <2> QED BY <1>1, <2>1 DEF Decision
<1>2. CASE c # Absent
  BY <1>2 DEF ViewOf
<1> QED BY <1>1, <1>2

(* The store starts in agreement with the file (auth.py:26-32). *)
LEMMA InitIInv == Init => IInv
<1> SUFFICES ASSUME Init PROVE IInv
  OBVIOUS
<1>1. content \in Content /\ mtime = 0 /\ None \notin Nat
  BY KeyStoreAssumption, KeyFileAssumption DEF Init
<1>2. StartUp \in [keys : SUBSET Record, err : BOOLEAN, mtime : Nat \cup {None}]
  BY <1>1, LoadedType DEF StartUp, View
<1>3. TypeOK
  BY <1>1, <1>2 DEF Init, TypeOK, Outcome, Content
<1>4. TimesNotAhead /\ SameTimeSameFile
  BY <1>1 DEF Init, TimesNotAhead, SameTimeSameFile, StartUp, Cached, Loading,
              ViewOf, Loaded
<1>5. CallsSeeTheFile /\ CacheWasSeen /\ LoadsWereSeen
  BY DEF Init, CallsSeeTheFile, CacheWasSeen, LoadsWereSeen, Active
<1>6. AcceptJustified /\ DenyJustified
  BY DEF Init, AcceptJustified, DenyJustified
<1> QED BY <1>3, <1>4, <1>5, <1>6 DEF IInv

(* A call that decides from what a content loads is justified by it.       *)
LEMMA DecideJustified ==
  ASSUME NEW t \in Workers, NEW c \in Content, c \in seen[t],
         TypeOK, TypeOK', AcceptJustified, DenyJustified,
         Decide(t), Cached' = Loaded(c)
  PROVE  AcceptJustified' /\ DenyJustified'
<1>1. outcome'[t] = Decision(Loaded(c), supplied[t]) /\ supplied' = supplied /\ seen' = seen
  BY DEF Decide, TypeOK
<1>2. \A u \in Workers : u # t => pc'[u] = pc[u] /\ outcome'[u] = outcome[u]
  BY DEF Decide, TypeOK
<1>3. \/ Decision(Loaded(c), supplied[t]) = Decision(ViewOf(c), supplied[t])
      \/ c = Absent /\ Decision(Loaded(c), supplied[t]) = Denied
  BY LoadedDecision
<1>4. AcceptJustified'
  BY <1>1, <1>2, <1>3 DEF AcceptJustified
<1>5. DenyJustified'
  BY <1>1, <1>2, <1>3 DEF DenyJustified
<1> QED BY <1>4, <1>5

(* Type correctness: the cache holds records of the file and a thread's    *)
(* locals what the calls it made return (auth.py:26-67).                   *)
LEMMA NextTypeOK == TypeOK /\ [Next]_vars => TypeOK'
<1> SUFFICES ASSUME TypeOK, [Next]_vars PROVE TypeOK'
  OBVIOUS
<1> USE DEF TypeOK
<1>s. StartUp \in [keys : SUBSET Record, err : BOOLEAN, mtime : Nat \cup {None}]
  BY LoadedType DEF StartUp, View
<1>d. ASSUME NEW t \in Workers, Decide(t), Cached' \in View
      PROVE  /\ pc' \in [Workers -> {"idle", "stat", "gone", "compare", "read",
                                     "publish", "done"}]
             /\ supplied' \in [Workers -> Supplied \cup {None}]
             /\ statM' \in [Workers -> Nat \cup {None}]
             /\ got' \in [Workers -> Content]
             /\ outcome' \in [Workers -> Outcome]
             /\ seen' \in [Workers -> SUBSET Content]
  <2>1. Decision(Cached', supplied[t]) \in Outcome
    BY <1>d, DecisionType
  <2>2. Absent \in Content
    BY DEF Content
  <2> QED BY <1>d, <2>1, <2>2 DEF Decide
<1>1. ASSUME NEW t \in Workers, Begin(t) PROVE TypeOK'
  BY <1>1 DEF Begin, fileVars, Outcome
<1>2. ASSUME NEW t \in Workers, Stat(t) PROVE TypeOK'
  BY <1>2 DEF Stat, fileVars
<1>3. ASSUME NEW t \in Workers, Gone(t) PROVE TypeOK'
  <2>1. cache' \in [keys : SUBSET Record, err : BOOLEAN, mtime : Nat \cup {None}]
    BY <1>3 DEF Gone
  <2>2. Cached' \in View
    BY <2>1 DEF Cached, View
  <2> QED BY <1>3, <2>1, <2>2, <1>d DEF Gone, fileVars
<1>4. ASSUME NEW t \in Workers, Keep(t) PROVE TypeOK'
  <2>1. cache' = cache
    BY <1>4 DEF Keep
  <2>2. Cached' \in View
    BY <2>1 DEF Cached, View
  <2> QED BY <1>4, <2>1, <2>2, <1>d DEF Keep, fileVars
<1>5. ASSUME NEW t \in Workers, Reload(t) PROVE TypeOK'
  BY <1>5 DEF Reload, fileVars
<1>6. ASSUME NEW t \in Workers, Read(t) PROVE TypeOK'
  BY <1>6 DEF Read, fileVars
<1>7. ASSUME NEW t \in Workers, Publish(t) PROVE TypeOK'
  <2>1. cache' \in [keys : SUBSET Record, err : BOOLEAN, mtime : Nat \cup {None}]
    BY <1>7, LoadedType DEF Publish, View
  <2>2. Cached' \in View
    BY <2>1 DEF Cached, View
  <2> QED BY <1>7, <2>1, <2>2, <1>d DEF Publish, fileVars
<1>8. ASSUME NEW c \in Contents, Rewrite(c) PROVE TypeOK'
  <2>1. content' \in Content /\ mtime' \in Nat
    BY <1>8, KeyStoreAssumption DEF Rewrite, NextMtimes
  <2> QED BY <1>8, <2>1 DEF Rewrite, Observe, threadVars
<1>9. CASE Restart
  BY <1>9, <1>s DEF Restart, fileVars, Outcome, Content
<1>10. CASE UNCHANGED vars
  BY <1>10 DEF vars
<1> QED
  BY <1>1, <1>2, <1>3, <1>4, <1>5, <1>6, <1>7, <1>8, <1>9, <1>10
     DEF Next, Authenticate, Load

(* Every step preserves the invariant when a change of the file always     *)
(* moves its modification time (auth.py:34-67).                            *)
LEMMA NextIInv ==
  ASSUME ~CoarseMtime
  PROVE  IInv /\ [Next]_vars => IInv'
<1> SUFFICES ASSUME IInv, [Next]_vars PROVE IInv'
  OBVIOUS
<1> USE DEF IInv
<1>t. TypeOK'
  BY NextTypeOK
<1>n. None \notin Nat
  BY KeyFileAssumption
<1>1. ASSUME NEW t \in Workers, Begin(t) PROVE IInv'
  <2> USE <1>1 DEF Begin, fileVars, TypeOK
  <2>1. CallsSeeTheFile'
    BY DEF CallsSeeTheFile, Active
  <2>2. TimesNotAhead'
    BY DEF TimesNotAhead, Loading
  <2>3. SameTimeSameFile'
    BY DEF SameTimeSameFile, Cached
  <2>4. CacheWasSeen'
    BY DEF CacheWasSeen, Cached
  <2>5. LoadsWereSeen'
    BY DEF LoadsWereSeen
  <2>6. AcceptJustified' /\ DenyJustified'
    BY DEF AcceptJustified, DenyJustified
  <2> QED BY <1>t, <2>1, <2>2, <2>3, <2>4, <2>5, <2>6
<1>2. ASSUME NEW t \in Workers, Stat(t) PROVE IInv'
  <2> USE <1>2 DEF Stat, fileVars, TypeOK
  <2>0. content \in seen[t]
    BY DEF CallsSeeTheFile, Active
  <2>1. CallsSeeTheFile'
    BY DEF CallsSeeTheFile, Active
  <2>2. TimesNotAhead'
    BY DEF TimesNotAhead, Loading
  <2>3. SameTimeSameFile'
    BY DEF SameTimeSameFile, Cached
  <2>4. CacheWasSeen'
    BY <2>0 DEF CacheWasSeen, SameTimeSameFile, Cached
  <2>5. LoadsWereSeen'
    BY <2>0 DEF LoadsWereSeen
  <2>6. AcceptJustified' /\ DenyJustified'
    BY DEF AcceptJustified, DenyJustified
  <2> QED BY <1>t, <2>1, <2>2, <2>3, <2>4, <2>5, <2>6
<1>3. ASSUME NEW t \in Workers, Gone(t) PROVE IInv'
  <2> USE <1>3 DEF Gone, fileVars, TypeOK
  <2>1. CallsSeeTheFile'
    BY DEF CallsSeeTheFile, Active, Decide
  <2>2. TimesNotAhead'
    BY <1>n DEF TimesNotAhead, Loading, Decide
  <2>3. SameTimeSameFile'
    BY <1>n DEF SameTimeSameFile, Cached, Decide
  <2>4. CacheWasSeen'
    <3>1. \A u \in Workers : pc'[u] = "compare" => statM'[u] # cache'.mtime
      BY <1>n DEF TimesNotAhead, Loading, Decide
    <3> QED BY <3>1 DEF CacheWasSeen, Decide
  <2>5. LoadsWereSeen'
    BY DEF LoadsWereSeen, Decide
  <2>6. AcceptJustified' /\ DenyJustified'
    <3>1. Absent \in seen[t] /\ supplied' = supplied /\ seen' = seen
      BY DEF LoadsWereSeen, Decide
    <3>2. \A u \in Workers : u # t => pc'[u] = pc[u] /\ outcome'[u] = outcome[u]
      BY DEF Decide
    <3>3. outcome'[t] = Decision([keys |-> {}, err |-> cache.err], supplied[t])
      BY DEF Decide, Cached
    <3>4. ViewOf(Absent) = [keys |-> {}, err |-> FALSE]
      BY DEF ViewOf
    <3>5. outcome'[t] # Denied => outcome'[t] = Decision(ViewOf(Absent), supplied[t])
      BY <3>3, <3>4 DEF Decision
    <3>6. AcceptJustified'
      BY <3>1, <3>2, <3>5 DEF AcceptJustified
    <3>7. DenyJustified'
      BY <3>1, <3>2 DEF DenyJustified
    <3> QED BY <3>6, <3>7
  <2> QED BY <1>t, <2>1, <2>2, <2>3, <2>4, <2>5, <2>6
<1>4. ASSUME NEW t \in Workers, Keep(t) PROVE IInv'
  <2> USE <1>4 DEF Keep, fileVars, TypeOK
  <2>1. CallsSeeTheFile'
    BY DEF CallsSeeTheFile, Active, Decide
  <2>2. TimesNotAhead'
    BY DEF TimesNotAhead, Loading, Decide
  <2>3. SameTimeSameFile'
    BY DEF SameTimeSameFile, Cached, Decide
  <2>4. CacheWasSeen'
    BY DEF CacheWasSeen, Cached, Decide
  <2>5. LoadsWereSeen'
    BY DEF LoadsWereSeen, Decide
  <2>6. AcceptJustified' /\ DenyJustified'
    <3>1. PICK c \in seen[t] : Cached = Loaded(c)
      BY DEF CacheWasSeen
    <3>2. c \in Content /\ Cached' = Loaded(c)
      BY <3>1 DEF Cached
    <3> QED BY <3>1, <3>2, <1>t, DecideJustified
  <2> QED BY <1>t, <2>1, <2>2, <2>3, <2>4, <2>5, <2>6
<1>5. ASSUME NEW t \in Workers, Reload(t) PROVE IInv'
  <2> USE <1>5 DEF Reload, fileVars, TypeOK
  <2>1. CallsSeeTheFile'
    BY DEF CallsSeeTheFile, Active
  <2>2. TimesNotAhead'
    BY DEF TimesNotAhead, Loading
  <2>3. SameTimeSameFile'
    BY DEF SameTimeSameFile, Cached
  <2>4. CacheWasSeen'
    BY DEF CacheWasSeen, Cached
  <2>5. LoadsWereSeen'
    BY DEF LoadsWereSeen
  <2>6. AcceptJustified' /\ DenyJustified'
    BY DEF AcceptJustified, DenyJustified
  <2> QED BY <1>t, <2>1, <2>2, <2>3, <2>4, <2>5, <2>6
<1>6. ASSUME NEW t \in Workers, Read(t) PROVE IInv'
  <2> USE <1>6 DEF Read, fileVars, TypeOK
  <2>0. \A u \in Workers : pc[u] = "compare" => content \in seen[u]
    BY DEF CallsSeeTheFile, Active
  <2>1. CallsSeeTheFile'
    BY DEF CallsSeeTheFile, Active
  <2>2. TimesNotAhead'
    BY DEF TimesNotAhead, Loading
  <2>3. SameTimeSameFile'
    BY DEF SameTimeSameFile, Cached
  <2>4. CacheWasSeen'
    BY <2>0 DEF CacheWasSeen, Cached
  <2>5. LoadsWereSeen'
    BY DEF LoadsWereSeen, CallsSeeTheFile, Active
  <2>6. AcceptJustified' /\ DenyJustified'
    BY DEF AcceptJustified, DenyJustified
  <2> QED BY <1>t, <2>1, <2>2, <2>3, <2>4, <2>5, <2>6
<1>7. ASSUME NEW t \in Workers, Publish(t) PROVE IInv'
  <2> USE <1>7 DEF Publish, fileVars, TypeOK
  <2>0. Cached' = Loaded(got[t]) /\ cache'.mtime = statM[t]
    BY DEF Cached, Loaded
  <2>1. CallsSeeTheFile'
    BY DEF CallsSeeTheFile, Active, Decide
  <2>2. TimesNotAhead'
    BY DEF TimesNotAhead, Loading, Decide
  <2>3. SameTimeSameFile'
    BY <2>0 DEF SameTimeSameFile, Decide
  <2>4. CacheWasSeen'
    BY <2>0 DEF CacheWasSeen, Decide
  <2>5. LoadsWereSeen'
    BY DEF LoadsWereSeen, Decide
  <2>6. AcceptJustified' /\ DenyJustified'
    <3>1. got[t] \in seen[t] /\ got[t] \in Content
      BY DEF LoadsWereSeen
    <3> QED BY <3>1, <2>0, <1>t, DecideJustified
  <2> QED BY <1>t, <2>1, <2>2, <2>3, <2>4, <2>5, <2>6
<1>8. ASSUME NEW c \in Contents, Rewrite(c) PROVE IInv'
  <2> USE <1>8 DEF Rewrite, TypeOK, threadVars
  <2>0. mtime' = mtime + 1 /\ Cached' = Cached
    BY DEF NextMtimes, Cached
  <2>00. \A u \in Workers : seen[u] \subseteq seen'[u]
    BY DEF Observe
  <2>1. CallsSeeTheFile'
    BY DEF CallsSeeTheFile, Active, Observe
  <2>2. TimesNotAhead'
    BY <2>0 DEF TimesNotAhead, Loading
  <2>3. SameTimeSameFile'
    BY <2>0, <1>n DEF SameTimeSameFile, TimesNotAhead, Loading
  <2>4. CacheWasSeen'
    BY <2>0, <2>00 DEF CacheWasSeen
  <2>5. LoadsWereSeen'
    BY <2>00 DEF LoadsWereSeen
  <2>6. AcceptJustified' /\ DenyJustified'
    BY <2>00 DEF AcceptJustified, DenyJustified
  <2> QED BY <1>t, <2>1, <2>2, <2>3, <2>4, <2>5, <2>6
<1>9. CASE Restart
  <2> USE <1>9 DEF Restart, fileVars, TypeOK
  <2>1. CallsSeeTheFile' /\ CacheWasSeen' /\ LoadsWereSeen'
    BY DEF CallsSeeTheFile, CacheWasSeen, LoadsWereSeen, Active
  <2>2. TimesNotAhead' /\ SameTimeSameFile'
    BY <1>n DEF TimesNotAhead, SameTimeSameFile, StartUp, Cached, Loading,
                ViewOf, Loaded
  <2>3. AcceptJustified' /\ DenyJustified'
    BY DEF AcceptJustified, DenyJustified
  <2> QED BY <1>t, <2>1, <2>2, <2>3
<1>10. CASE UNCHANGED vars
  <2> USE <1>10 DEF vars
  <2>1. CallsSeeTheFile' /\ CacheWasSeen' /\ LoadsWereSeen'
    BY DEF CallsSeeTheFile, CacheWasSeen, LoadsWereSeen, Active, Cached
  <2>2. TimesNotAhead' /\ SameTimeSameFile'
    BY DEF TimesNotAhead, SameTimeSameFile, Cached, Loading
  <2>3. AcceptJustified' /\ DenyJustified'
    BY DEF AcceptJustified, DenyJustified
  <2> QED BY <1>t, <2>1, <2>2, <2>3
<1> QED
  BY <1>1, <1>2, <1>3, <1>4, <1>5, <1>6, <1>7, <1>8, <1>9, <1>10
     DEF Next, Authenticate, Load

(* The cache and the threads keep their types, fine times or not.          *)
THEOREM TypeCorrect == Spec => []TypeOK
<1>1. Init => TypeOK
  BY InitIInv DEF IInv
<1> QED BY <1>1, NextTypeOK, PTL DEF Spec

(* The invariant holds in every reachable state.                           *)
THEOREM Inductive == ASSUME ~CoarseMtime PROVE Spec => []IInv
<1> QED BY InitIInv, NextIInv, PTL DEF Spec

(* No call accepts a key that the file refused throughout the call.        *)
THEOREM AcceptsAreJustified ==
  ASSUME ~CoarseMtime PROVE Spec => []AcceptJustified
<1>1. IInv => AcceptJustified
  BY DEF IInv
<1> QED BY <1>1, Inductive, PTL

(* No call refuses a key that the file granted throughout the call.        *)
THEOREM DenialsAreJustified ==
  ASSUME ~CoarseMtime PROVE Spec => []DenyJustified
<1>1. IInv => DenyJustified
  BY DEF IInv
<1> QED BY <1>1, Inductive, PTL

(* The modification time tells an unchanged file from a changed one.       *)
THEOREM EqualTimesEqualKeys ==
  ASSUME ~CoarseMtime PROVE Spec => []FreshWhenMtimeMatches
<1>1. IInv => FreshWhenMtimeMatches
  BY DEF IInv, SameTimeSameFile, FreshWhenMtimeMatches
<1> QED BY <1>1, Inductive, PTL
===============================================================================
