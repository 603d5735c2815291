--------------------------- MODULE JwtVerifierProofs ---------------------------
(***************************************************************************)
(* For any number of threads, tokens and contents of the JWKS file: how a  *)
(* call of verify() ends is justified by what the file held during the     *)
(* call, or during one that it overlaps, although the cache is refreshed   *)
(* by all calls without a lock and used twice by each.                     *)
(***************************************************************************)
EXTENDS JwtVerifier, TLAPS

Loading(t) == pc[t] \in {"compare", "read", "publish"}
Checking(t) == pc[t] \in {"lookup", "sign", "claims"}

(* A running call has a token, and has seen the file as it is. *)
CallsSeeTheFile ==
  \A t \in Workers : Running(t) => token[t] \in AllTokens /\ file \in own[t]

(* No recorded time is ahead of the file. *)
TimesNotAhead ==
  /\ cache.mtime <= mtime
  /\ \A t \in Workers : Loading(t) => statM[t] \in Nat /\ statM[t] <= mtime

(* What was read is usable; what carries the time of the file was read from *)
(* the file as it is.                                                       *)
SameTimeSameFile ==
  /\ cache.mtime = mtime => Usable(file) /\ cache.keys = file.keys
  /\ \A t \in Workers : pc[t] = "publish" =>
       /\ Usable(got[t]) /\ got[t] \in own[t]
       /\ statM[t] = mtime => got[t] = file

(* A call that finds the recorded time equal to its own finds keys that the *)
(* file had during the call, even if another call publishes in between.     *)
CacheWasSeen ==
  \A t \in Workers : pc[t] = "compare" =>
    /\ statM[t] = cache.mtime => \E c \in own[t] : Usable(c) /\ cache.keys = c.keys
    /\ \A u \in Workers : pc[u] = "publish" /\ statM[t] = statM[u] => got[u] \in own[t]

(* What another call has in hand was in the file during this call or before *)
(* its beginning, during a call that overlaps it.                           *)
LoadsAreNear ==
  \A t, u \in Workers : Running(t) /\ pc[u] = "publish" => got[u] \in Near(t)

(* So the cache, whoever refreshed it, holds the keys of such a content as  *)
(* long as a call uses it, and the file was usable during the call itself.  *)
CacheIsNear ==
  \A t \in Workers : Checking(t) =>
    /\ \E c \in own[t] : Usable(c)
    /\ \E c \in Near(t) : Usable(c) /\ cache.keys = c.keys

(* What the checks that a call has passed found. *)
Passed ==
  \A t \in Workers :
    /\ pc[t] = "sign" => \E c \in Near(t) : Usable(c) /\ Has(c, token[t].kid)
    /\ pc[t] = "claims" => /\ \E c \in Near(t) : Signed(c, token[t])
                           /\ token[t].key # None

IInv ==
  /\ TypeOK
  /\ CallsSeeTheFile
  /\ TimesNotAhead
  /\ SameTimeSameFile
  /\ CacheWasSeen
  /\ LoadsAreNear
  /\ CacheIsNear
  /\ Passed
-------------------------------------------------------------------------------
(* The ways a call ends are outcomes. *)
LEMMA Outcomes ==
  /\ Pending \in Outcome /\ Refused \in Outcome
  /\ Raised("OSError") \in Outcome /\ Raised("other") \in Outcome
  /\ \A tok \in AllTokens : \A s : Judged(tok, s) \in Outcome
  BY DEF Outcome, Judged

(* The gateway starts with the keys of a usable file. *)
LEMMA InitIInv == Init => IInv
<1> SUFFICES ASSUME Init PROVE IInv
  OBVIOUS
<1> USE DEF Init
<1>1. TypeOK
  BY Outcomes DEF TypeOK, StartUp
<1>2. CallsSeeTheFile /\ CacheWasSeen /\ LoadsAreNear
  BY DEF CallsSeeTheFile, CacheWasSeen, LoadsAreNear, Running
<1>3. TimesNotAhead /\ SameTimeSameFile
  BY DEF TimesNotAhead, SameTimeSameFile, Loading, StartUp
<1>4. CacheIsNear /\ Passed
  BY DEF CacheIsNear, Passed, Checking
<1> QED BY <1>1, <1>2, <1>3, <1>4 DEF IInv

(* A call that ends leaves the others as they are. *)
LEMMA EndIInv ==
  ASSUME IInv, NEW t \in Workers, NEW r \in Outcome, End(t, r)
  PROVE  IInv'
<1> USE DEF IInv, TypeOK, End, Goto, world
<1>1. /\ pc'[t] = "idle" /\ UNCHANGED <<file, mtime, cache>>
      /\ \A u \in Workers \ {t} : /\ pc'[u] = pc[u] /\ token'[u] = token[u] /\ statM'[u] = statM[u]
                                /\ got'[u] = got[u] /\ own'[u] = own[u] /\ around'[u] = around[u]
  OBVIOUS
<1>2. TypeOK'
  OBVIOUS
<1> USE DEF Running, Loading, Checking, Near
<1>3. CallsSeeTheFile' /\ TimesNotAhead' /\ SameTimeSameFile'
  BY <1>1 DEF CallsSeeTheFile, TimesNotAhead, SameTimeSameFile
<1>4. CacheWasSeen' /\ LoadsAreNear'
  BY <1>1 DEF CacheWasSeen, LoadsAreNear
<1>5. CacheIsNear' /\ Passed'
  BY <1>1 DEF CacheIsNear, Passed
<1> QED BY <1>2, <1>3, <1>4, <1>5
(* A call that goes on to a stage moves nothing else. *)
LEMMA GoOnMoves ==
  ASSUME TypeOK, NEW t \in Workers, NEW stage, GoOn(t, stage)
  PROVE  /\ pc'[t] = stage /\ \A u \in Workers \ {t} : pc'[u] = pc[u]
         /\ UNCHANGED <<file, mtime, cache, token, statM, got, own, around>>
  BY DEF GoOn, Goto, TypeOK, world, history

(* Every step of the calls, of the file and of the process preserves the    *)
(* invariant (auth.py:130-192).                                             *)
LEMMA NextIInv == IInv /\ [Next]_vars => IInv'
<1> SUFFICES ASSUME IInv, [Next]_vars PROVE IInv'
  OBVIOUS
<1> USE DEF IInv
<1>1. ASSUME NEW t \in Workers, Begin(t) PROVE IInv'
  <2>0. /\ pc[t] = "idle" /\ pc'[t] = "stat" /\ token'[t] \in Tokens[t]
        /\ own'[t] = {file} /\ UNCHANGED <<file, mtime, cache>>
        /\ \A u \in Workers : Running(u) => own[u] \subseteq around'[t]
        /\ \A u \in Workers \ {t} : /\ pc'[u] = pc[u] /\ token'[u] = token[u]
                                   /\ own'[u] = own[u] /\ around'[u] = around[u]
        /\ statM' = statM /\ got' = got
    BY <1>1 DEF Begin, Goto, TypeOK, Running, world
  <2>1. TypeOK'
    <3>1. UNION {own[u] : u \in {v \in Workers : Running(v)}} \in SUBSET Contents
      BY DEF TypeOK
    <3>2. token' \in [Workers -> AllTokens \cup {None}]
      BY <1>1 DEF Begin, TypeOK, AllTokens
    <3> QED BY <1>1, <3>1, <3>2, Outcomes DEF Begin, Goto, TypeOK, world
  <2> USE <2>0 DEF Running, Loading, Checking
  <2>2. CallsSeeTheFile'
    BY DEF CallsSeeTheFile, AllTokens
  <2>3. TimesNotAhead' /\ SameTimeSameFile'
    BY DEF TimesNotAhead, SameTimeSameFile
  <2>4. CacheWasSeen'
    BY DEF CacheWasSeen
  <2>5. LoadsAreNear'
    <3>1. \A u \in Workers : pc[u] = "publish" => got[u] \in own[u]
      BY DEF SameTimeSameFile
    <3> QED BY <3>1 DEF LoadsAreNear, Near
  <2>6. CacheIsNear' /\ Passed'
    BY DEF CacheIsNear, Passed, Near
  <2> QED BY <2>1, <2>2, <2>3, <2>4, <2>5, <2>6
<1>2. ASSUME NEW t \in Workers, Stat(t) PROVE IInv'
  <2>1. CASE file = Absent
    BY <1>2, <2>1, Outcomes, EndIInv DEF Stat
  <2>2. CASE file # Absent
    <3> USE <1>2, <2>2 DEF Stat, Goto, world, history, TypeOK, Running, Loading, Checking, Near
    <3>1. TypeOK'
      OBVIOUS
    <3>2. CallsSeeTheFile' /\ TimesNotAhead' /\ SameTimeSameFile'
      BY DEF CallsSeeTheFile, TimesNotAhead, SameTimeSameFile
    <3>3. CacheWasSeen'
      BY DEF CacheWasSeen, CallsSeeTheFile, SameTimeSameFile
    <3>4. LoadsAreNear' /\ CacheIsNear' /\ Passed'
      BY DEF LoadsAreNear, CacheIsNear, Passed
    <3> QED BY <3>1, <3>2, <3>3, <3>4
  <2> QED BY <2>1, <2>2
<1>g. ASSUME NEW t \in Workers, NEW stage \in {"read", "lookup", "sign", "claims"}, GoOn(t, stage)
      PROVE  /\ TypeOK' /\ (Running(t) => CallsSeeTheFile') /\ CacheWasSeen'
             /\ (Running(t) => LoadsAreNear')
             /\ (stage = "read" => Loading(t)) => TimesNotAhead'
             /\ SameTimeSameFile'
  <2> USE <1>g, GoOnMoves DEF Running, Loading, Near
  <2>1. TypeOK'
    BY DEF GoOn, Goto, TypeOK, world, history
  <2>2. (Running(t) => CallsSeeTheFile') /\ CacheWasSeen'
    BY DEF CallsSeeTheFile, CacheWasSeen
  <2>3. (Running(t) => LoadsAreNear') /\ SameTimeSameFile'
    BY DEF LoadsAreNear, SameTimeSameFile
  <2>4. (stage = "read" => Loading(t)) => TimesNotAhead'
    BY DEF TimesNotAhead
  <2> QED BY <2>1, <2>2, <2>3, <2>4
<1>3. ASSUME NEW t \in Workers, Keep(t) PROVE IInv'
  <2>1. GoOn(t, "lookup") /\ Running(t) /\ pc[t] = "compare"
    BY <1>3 DEF Keep, Running
  <2>2. PICK c \in own[t] : Usable(c) /\ cache.keys = c.keys
    BY <1>3 DEF Keep, CacheWasSeen
  <2>3. CacheIsNear'
    BY <2>1, <2>2, GoOnMoves DEF CacheIsNear, Checking, Near
  <2>4. Passed'
    BY <2>1, GoOnMoves DEF Passed, Near
  <2> QED BY <1>g, <2>1, <2>3, <2>4
<1>4. ASSUME NEW t \in Workers, Reload(t) PROVE IInv'
  <2>1. GoOn(t, "read") /\ Running(t) /\ Loading(t)
    BY <1>4 DEF Reload, Running, Loading
  <2>2. CacheIsNear' /\ Passed'
    BY <2>1, GoOnMoves DEF CacheIsNear, Passed, Checking, Near
  <2> QED BY <1>g, <2>1, <2>2
<1>5. ASSUME NEW t \in Workers, Read(t) PROVE IInv'
  <2>1. CASE ~Usable(file)
    <3>1. \E e \in {"OSError", "other"} : End(t, Raised(e))
      BY <1>5, <2>1 DEF Read
    <3> QED BY <3>1, Outcomes, EndIInv
  <2>2. CASE Usable(file)
    <3> USE <1>5, <2>2 DEF Read, Goto, world, history, TypeOK, Running, Loading, Checking, Near
    <3>0. \A u \in Workers : Running(u) => file \in own[u]
      BY DEF CallsSeeTheFile
    <3>1. TypeOK'
      OBVIOUS
    <3>2. CallsSeeTheFile' /\ TimesNotAhead'
      BY DEF CallsSeeTheFile, TimesNotAhead
    <3>3. SameTimeSameFile' /\ CacheWasSeen'
      BY <3>0 DEF SameTimeSameFile, CacheWasSeen
    <3>4. LoadsAreNear' /\ CacheIsNear' /\ Passed'
      BY <3>0 DEF LoadsAreNear, CacheIsNear, Passed
    <3> QED BY <3>1, <3>2, <3>3, <3>4
  <2> QED BY <2>1, <2>2
<1>6. ASSUME NEW t \in Workers, Publish(t) PROVE IInv'
  <2> USE <1>6 DEF Publish, Goto, world, history, TypeOK
  <2>0. /\ cache'.keys = got[t].keys /\ cache'.mtime = statM[t] /\ pc[t] = "publish"
        /\ statM[t] \in Nat /\ statM[t] <= mtime /\ Usable(got[t]) /\ got[t] \in own[t]
        /\ (statM[t] = mtime => got[t] = file)
    BY DEF TimesNotAhead, SameTimeSameFile, Loading
  <2>1. TypeOK'
    BY <2>0
  <2>2. CallsSeeTheFile' /\ TimesNotAhead'
    BY <2>0 DEF CallsSeeTheFile, TimesNotAhead, Running, Loading
  <2>3. SameTimeSameFile' /\ CacheWasSeen'
    BY <2>0 DEF SameTimeSameFile, CacheWasSeen
  <2>4. LoadsAreNear' /\ Passed'
    BY <2>0 DEF LoadsAreNear, Passed, Running, Near
  <2>5. CacheIsNear'
    BY <2>0 DEF CacheIsNear, LoadsAreNear, Checking, Running, Near
  <2> QED BY <2>1, <2>2, <2>3, <2>4, <2>5
<1>7. ASSUME NEW t \in Workers, Lookup(t) PROVE IInv'
  <2>1. token[t] \in AllTokens /\ pc[t] = "lookup" /\ Running(t)
    BY <1>7 DEF Lookup, CallsSeeTheFile, Running
  <2>2. \/ \E r \in {Refused, Raised("other")} : End(t, r)
        \/ GoOn(t, "sign") /\ token[t].kid \in DOMAIN cache.keys
    BY <1>7, <2>1, JwtAssumption DEF Lookup, Parsed
  <2>3. ASSUME GoOn(t, "sign"), token[t].kid \in DOMAIN cache.keys
        PROVE  IInv'
    <3>1. PICK c \in Near(t) : Usable(c) /\ Has(c, token[t].kid)
      BY <2>1, <2>3 DEF CacheIsNear, Checking, Has
    <3>2. CacheIsNear'
      BY <2>1, <2>3, GoOnMoves DEF CacheIsNear, Checking, Near
    <3>3. Passed'
      BY <2>1, <2>3, <3>1, GoOnMoves DEF Passed, Near
    <3> QED BY <1>g, <2>1, <2>3, <3>2, <3>3
  <2> QED BY <2>2, <2>3, Outcomes, EndIInv
<1>8. ASSUME NEW t \in Workers, Sign(t) PROVE IInv'
  <2>1. pc[t] = "sign" /\ Running(t)
    BY <1>8 DEF Sign, Running
  <2>2. \/ \E r \in {Refused, Raised("other")} : End(t, r)
        \/ /\ GoOn(t, "claims") /\ token[t].key # None
           /\ token[t].kid \in DOMAIN cache.keys /\ cache.keys[token[t].kid] = token[t].key
    BY <1>8 DEF Sign
  <2>3. ASSUME GoOn(t, "claims"), token[t].key # None,
               token[t].kid \in DOMAIN cache.keys, cache.keys[token[t].kid] = token[t].key
        PROVE  IInv'
    <3>1. PICK c \in Near(t) : Signed(c, token[t])
      BY <2>1, <2>3 DEF CacheIsNear, Checking, Has, Signed
    <3>2. CacheIsNear'
      BY <2>1, <2>3, GoOnMoves DEF CacheIsNear, Checking, Near
    <3>3. Passed'
      BY <2>1, <2>3, <3>1, GoOnMoves DEF Passed, Near
    <3> QED BY <1>g, <2>1, <2>3, <3>2, <3>3
  <2> QED BY <2>2, <2>3, Outcomes, EndIInv
<1>9. ASSUME NEW t \in Workers, Claims(t) PROVE IInv'
  <2>1. token[t] \in AllTokens
    BY <1>9 DEF Claims, CallsSeeTheFile, Running
  <2> QED BY <1>9, <2>1, Outcomes, EndIInv DEF Claims
<1>10. ASSUME NEW c \in Contents, Rewrite(c) PROVE IInv'
  <2> USE <1>10 DEF Rewrite, TypeOK
  <2>0. /\ \A t \in Workers : own[t] \subseteq own'[t] /\ (Running(t) => file' \in own'[t])
        /\ mtime' = mtime + 1 /\ mtime \in Nat /\ cache.mtime \in Nat
        /\ UNCHANGED <<cache, pc, token, statM, got, around>>
    OBVIOUS
  <2>1. TypeOK'
    OBVIOUS
  <2>2. CallsSeeTheFile'
    BY <2>0 DEF CallsSeeTheFile, Running
  <2>3. TimesNotAhead' /\ SameTimeSameFile'
    BY <2>0 DEF TimesNotAhead, SameTimeSameFile, Loading
  <2>4. CacheWasSeen' /\ LoadsAreNear'
    BY <2>0 DEF CacheWasSeen, LoadsAreNear, Running, Near
  <2>5. CacheIsNear' /\ Passed'
    BY <2>0 DEF CacheIsNear, Passed, Checking, Near
  <2> QED BY <2>1, <2>2, <2>3, <2>4, <2>5
<1>11. CASE Restart
  <2> USE <1>11 DEF Restart, world, TypeOK
  <2>1. TypeOK'
    BY Outcomes DEF StartUp
  <2>2. \A t \in Workers : pc'[t] = "idle"
    OBVIOUS
  <2>3. TimesNotAhead' /\ SameTimeSameFile'
    BY <2>2 DEF TimesNotAhead, SameTimeSameFile, Loading, StartUp
  <2> QED BY <2>1, <2>2, <2>3
          DEF CallsSeeTheFile, CacheWasSeen, LoadsAreNear, CacheIsNear, Passed, Running, Checking
<1>12. CASE Tick \/ UNCHANGED vars
  <2>1. UNCHANGED <<file, mtime, cache, pc, token, statM, got, outcome, own, around>>
    BY <1>12 DEF Tick, vars, world, history
  <2>2. clock' \in Nat
    BY <1>12 DEF Tick, vars, world, TypeOK
  <2> USE <2>1 DEF Running, Loading, Checking, Near
  <2>3. TypeOK'
    BY <2>2 DEF TypeOK
  <2>4. CallsSeeTheFile' /\ TimesNotAhead' /\ SameTimeSameFile'
    BY DEF CallsSeeTheFile, TimesNotAhead, SameTimeSameFile
  <2>5. CacheWasSeen' /\ LoadsAreNear' /\ CacheIsNear' /\ Passed'
    BY DEF CacheWasSeen, LoadsAreNear, CacheIsNear, Passed
  <2> QED BY <2>3, <2>4, <2>5
<1> QED BY <1>1, <1>2, <1>3, <1>4, <1>5, <1>6, <1>7, <1>8, <1>9, <1>10, <1>11, <1>12
           DEF Next, Verify

LEMMA Invariance == Spec => []IInv
  BY InitIInv, NextIInv, PTL DEF Spec
(* The cache, the locals and what the calls have seen keep their types.     *)
THEOREM TypeCorrect == Spec => []TypeOK
<1>1. IInv => TypeOK
  BY DEF IInv
<1> QED BY <1>1, Invariance, PTL
-------------------------------------------------------------------------------
(* Whole seconds: a clock that has not reached second e is before its first *)
(* tick.                                                                    *)
LEMMA Seconds ==
  ASSUME NEW e \in Int, NEW c \in Nat
  PROVE  e <= c \div Second <=> c >= e * Second
<1> DEFINE s == c \div Second
<1>0. Second \in Nat /\ Second >= 1
  BY JwtAssumption
<1>1. s \in Int /\ c >= s * Second /\ c < (s + 1) * Second
  BY <1>0
<1>2. CASE e <= s
  <2>1. e * Second <= s * Second
    BY <1>0, <1>1, <1>2
  <2> QED BY <1>0, <1>1, <1>2, <2>1
<1>3. CASE e > s
  <2>1. e >= s + 1
    BY <1>1, <1>3
  <2>2. e * Second >= (s + 1) * Second
    BY <1>0, <1>1, <2>1
  <2> QED BY <1>0, <1>1, <1>3, <2>2
<1> QED BY <1>1, <1>2, <1>3

(* A call ends in a step of its own, with the result of that step. *)
LEMMA EndingStep ==
  ASSUME IInv, [Next]_vars, NEW t \in Workers,
         Ends(t, {"accepted", "refused", "OSError", "other"})
  PROVE  \/ pc[t] = "stat" /\ file = Absent /\ outcome'[t] = Raised("OSError")
         \/ pc[t] = "read" /\ ~Usable(file) /\ outcome'[t].result \in {"OSError", "other"}
         \/ Lookup(t) \/ Sign(t) \/ Claims(t)
<1> USE DEF IInv, TypeOK
<1>1. Running(t) /\ pc'[t] = "idle" /\ outcome'[t].result # "none"
  BY DEF Ends, Running
<1>2. ASSUME NEW u \in Workers, Verify(u) PROVE u = t
  <2>1. CASE \E stage : Goto(u, stage)
    BY <1>1, <2>1 DEF Goto, Running
  <2>2. CASE Begin(u) \/ Stat(u) \/ Keep(u) \/ Reload(u)
    BY <2>1, <2>2 DEF Begin, Stat, Keep, Reload, End, GoOn
  <2>3. CASE Read(u) \/ Publish(u)
    BY <2>1, <2>3 DEF Read, Publish, End
  <2>4. CASE Lookup(u)
    <3>1. token[u] \in AllTokens
      BY <2>4 DEF CallsSeeTheFile, Lookup, Running
    <3> QED BY <2>1, <2>4, <3>1, JwtAssumption DEF Lookup, Parsed, End, GoOn
  <2>5. CASE Sign(u) \/ Claims(u)
    BY <2>1, <2>5 DEF Sign, Claims, End, GoOn
  <2> QED BY <1>2, <2>2, <2>3, <2>4, <2>5 DEF Verify
<1>3. Verify(t)
  <2>1. ~Restart
    BY <1>1 DEF Restart, Pending
  <2>2. ~Tick /\ (\A c \in Contents : ~Rewrite(c)) /\ ~UNCHANGED vars
    BY <1>1 DEF Tick, Rewrite, vars, Running
  <2> QED BY <1>2, <2>1, <2>2 DEF Next
<1>4. ~Begin(t) /\ ~Keep(t) /\ ~Reload(t) /\ ~Publish(t)
  BY <1>1 DEF Begin, Keep, Reload, Publish, GoOn, Goto
<1>5. ASSUME Stat(t) PROVE pc[t] = "stat" /\ file = Absent /\ outcome'[t] = Raised("OSError")
  BY <1>1, <1>5 DEF Stat, End, Goto
<1>6. ASSUME Read(t) PROVE pc[t] = "read" /\ ~Usable(file) /\ outcome'[t].result \in {"OSError", "other"}
  BY <1>1, <1>6 DEF Read, End, Goto, Raised
<1> QED BY <1>3, <1>4, <1>5, <1>6 DEF Verify

(* The three checks, with what each way of ending tells. *)
LEMMA LookupEnds ==
  ASSUME IInv, NEW t \in Workers, Lookup(t), pc'[t] = "idle"
  PROVE  /\ outcome'[t].result \in {"refused", "other"}
         /\ outcome'[t].result = "other" => ~Good(token[t])
         /\ outcome'[t].result = "refused" /\ Good(token[t]) =>
              \E c \in Near(t) : ~Signed(c, token[t])
<1>1. token[t] \in AllTokens /\ pc[t] = "lookup"
  BY DEF IInv, CallsSeeTheFile, Lookup, Running
<1>2. \/ outcome'[t] = Refused /\ token[t].form = "refused"
      \/ outcome'[t] = Raised("other") /\ token[t].form = "raises"
      \/ outcome'[t] = Refused /\ token[t].kid \notin DOMAIN cache.keys
  BY <1>1, JwtAssumption DEF Lookup, Parsed, End, GoOn, Goto, IInv, TypeOK
<1>3. \E c \in Near(t) : cache.keys = c.keys
  BY <1>1 DEF IInv, CacheIsNear, Checking
<1> QED BY <1>2, <1>3 DEF Refused, Raised, Good, Signed, Has

LEMMA SignEnds ==
  ASSUME IInv, NEW t \in Workers, Sign(t), pc'[t] = "idle"
  PROVE  /\ outcome'[t].result \in {"refused", "other"}
         /\ outcome'[t].result = "other" =>
              \/ ~Good(token[t])
              \/ /\ \E c \in Near(t) : Usable(c) /\ Has(c, token[t].kid)
                 /\ \E c \in Near(t) : Usable(c) /\ ~Has(c, token[t].kid)
         /\ outcome'[t].result = "refused" => \E c \in Near(t) : ~Signed(c, token[t])
<1>1. pc[t] = "sign" /\ \E c \in Near(t) : Usable(c) /\ Has(c, token[t].kid)
  BY DEF IInv, Passed, Sign
<1>2. \/ outcome'[t] = Raised("other") /\ token[t].key = None
      \/ outcome'[t] = Raised("other") /\ token[t].kid \notin DOMAIN cache.keys
      \/ outcome'[t] = Refused /\ cache.keys[token[t].kid] # token[t].key
  BY <1>1 DEF Sign, End, GoOn, Goto, IInv, TypeOK
<1>3. PICK c \in Near(t) : Usable(c) /\ cache.keys = c.keys
  BY <1>1 DEF IInv, CacheIsNear, Checking
<1>4. CASE outcome'[t] = Raised("other")
  BY <1>1, <1>2, <1>3, <1>4 DEF Raised, Refused, Good, Has
<1>5. CASE outcome'[t] = Refused
  BY <1>2, <1>3, <1>5 DEF Raised, Refused, Signed
<1> QED BY <1>2, <1>4, <1>5

LEMMA ClaimsEnds ==
  ASSUME IInv, NEW t \in Workers, Claims(t)
  PROVE  /\ \E c \in Near(t) : Signed(c, token[t])
         /\ \E c \in own[t] : Usable(c)
         /\ outcome'[t].result \in {"accepted", "refused", "other"}
         /\ outcome'[t].result = "accepted" => Rightful(token[t]) /\ ~Expired(token[t])
         /\ outcome'[t].result = "other" => ~Good(token[t])
         /\ outcome'[t].result = "refused" => ~Rightful(token[t]) \/ Expired(token[t])
<1> DEFINE tok == token[t]
<1>1. tok \in AllTokens /\ clock \in Nat /\ pc[t] = "claims"
  BY DEF IInv, TypeOK, CallsSeeTheFile, Claims, Running
<1>2. (\E c \in Near(t) : Signed(c, tok)) /\ \E c \in own[t] : Usable(c)
  BY <1>1 DEF IInv, Passed, CacheIsNear, Checking
<1>3. outcome'[t] = Judged(tok, clock \div Second)
  BY DEF Claims, End, IInv, TypeOK
<1>4. CASE ~Rightful(tok) /\ outcome'[t] = Refused
  BY <1>2, <1>4 DEF Refused
<1>5. CASE (tok.form = "claimless" \/ tok.exp = None) /\ outcome'[t] = Raised("other")
  BY <1>2, <1>5 DEF Raised, Good
<1>6. CASE tok.form # "claimless" /\ tok.exp # None
  <2>1. tok.exp <= clock \div Second <=> Expired(tok)
    BY <1>1, <1>6, JwtAssumption, Seconds DEF Expired
  <2> QED BY <1>2, <1>3, <1>6, <2>1 DEF Judged, Refused, Accepted, Rightful
<1> QED BY <1>3, <1>4, <1>5, <1>6 DEF Judged, Rightful

(* No token is accepted that its file did not sign, that was not due, or    *)
(* from old keys while the file is gone; for any number of threads.         *)
THEOREM AcceptsJustified == Spec => AcceptJustified
<1>1. IInv /\ [Next]_vars =>
        \A t \in Workers : Ends(t, {"accepted"}) =>
          /\ Rightful(token[t]) /\ ~Expired(token[t])
          /\ \E c \in Near(t) : Signed(c, token[t])
          /\ \E c \in own[t] : Usable(c)
  <2> SUFFICES ASSUME IInv, [Next]_vars, NEW t \in Workers, Ends(t, {"accepted"})
               PROVE  /\ Rightful(token[t]) /\ ~Expired(token[t])
                      /\ \E c \in Near(t) : Signed(c, token[t])
                      /\ \E c \in own[t] : Usable(c)
    OBVIOUS
  <2>1. pc'[t] = "idle" /\ outcome'[t].result = "accepted"
    BY DEF Ends, Running
  <2>2. Lookup(t) \/ Sign(t) \/ Claims(t)
    BY <2>1, EndingStep DEF Ends, Raised
  <2> QED BY <2>1, <2>2, LookupEnds, SignEnds, ClaimsEnds
<1> QED BY <1>1, Invariance, PTL DEF Spec, AcceptJustified

(* No good token is refused that was due, and whose key the file has had    *)
(* throughout the call and those it overlaps.                               *)
THEOREM RefusalsJustified == Spec => RefusalJustified
<1>1. IInv /\ [Next]_vars =>
        \A t \in Workers : Ends(t, {"refused"}) /\ Good(token[t]) =>
          \/ ~Rightful(token[t]) \/ Expired(token[t])
          \/ \E c \in Near(t) : ~Signed(c, token[t])
  <2> SUFFICES ASSUME IInv, [Next]_vars, NEW t \in Workers, Ends(t, {"refused"}), Good(token[t])
               PROVE  \/ ~Rightful(token[t]) \/ Expired(token[t])
                      \/ \E c \in Near(t) : ~Signed(c, token[t])
    OBVIOUS
  <2>1. pc'[t] = "idle" /\ outcome'[t].result = "refused"
    BY DEF Ends, Running
  <2>2. Lookup(t) \/ Sign(t) \/ Claims(t)
    BY <2>1, EndingStep DEF Ends, Raised
  <2> QED BY <2>1, <2>2, LookupEnds, SignEnds, ClaimsEnds
<1> QED BY <1>1, Invariance, PTL DEF Spec, RefusalJustified

(* While the file stays usable a call raises on a good token only in one    *)
(* case: the contents that its call and those it overlaps have seen differ  *)
(* in whether they have its key id.  Then an overlapping load may take the  *)
(* id away between the two uses of the cache, and self._keys[key_id] raises *)
(* KeyError (auth.py:156-159).                                              *)
THEOREM RaisesJustified == Spec => RaiseJustified
<1>1. IInv /\ [Next]_vars =>
        \A t \in Workers : Ends(t, {"OSError", "other"}) =>
          \/ ~Good(token[t])
          \/ \E c \in own[t] : ~Usable(c)
          \/ /\ \E c \in Near(t) : Usable(c) /\ Has(c, token[t].kid)
             /\ \E c \in Near(t) : Usable(c) /\ ~Has(c, token[t].kid)
  <2> SUFFICES ASSUME IInv, [Next]_vars, NEW t \in Workers, Ends(t, {"OSError", "other"})
               PROVE  \/ ~Good(token[t])
                      \/ \E c \in own[t] : ~Usable(c)
                      \/ /\ \E c \in Near(t) : Usable(c) /\ Has(c, token[t].kid)
                         /\ \E c \in Near(t) : Usable(c) /\ ~Has(c, token[t].kid)
    OBVIOUS
  <2>1. pc'[t] = "idle" /\ outcome'[t].result \in {"OSError", "other"} /\ Running(t)
    BY DEF Ends, Running
  <2>2. ~Usable(file) \/ Lookup(t) \/ Sign(t) \/ Claims(t)
    BY <2>1, EndingStep DEF Ends, Usable, Absent
  <2>3. file \in own[t]
    BY <2>1 DEF IInv, CallsSeeTheFile
  <2> QED BY <2>1, <2>2, <2>3, LookupEnds, SignEnds, ClaimsEnds
<1> QED BY <1>1, Invariance, PTL DEF Spec, RaiseJustified
===============================================================================
