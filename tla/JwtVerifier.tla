----------------------------- MODULE JwtVerifier -----------------------------
(***************************************************************************)
(* JWTVerifier: the verification of a token against a cache of the JWKS    *)
(* file that all request threads share and refresh without a lock.         *)
(*                                                                         *)
(* The pattern is that of KeyStore, with three differences.  A load that   *)
(* fails raises out of verify() and leaves the cache as it was.  The cache *)
(* is not used by the step that refreshed it: the token is parsed in       *)
(* between, so another thread may publish first.  And it is used twice, to *)
(* look for the key id and to check the signature.                         *)
(***************************************************************************)
EXTENDS Integers

CONSTANTS
  Workers,        \* request threads
  Contents,       \* the contents the JWKS file may take
  Tokens,         \* the tokens that the requests of each thread present
  Issuer, Audience,    \* auth.jwt.issuer and auth.jwt.audience
  Second,         \* ticks of the clock in a second
  MaxMtime,       \* bound of the model on the changes of the file
  MaxClock,       \* bound of the model on the clock, in ticks
  None

AllTokens == UNION {Tokens[t] : t \in Workers}

ASSUME JwtAssumption ==
  /\ None \notin Int
  /\ \A tok \in AllTokens : /\ tok.form \in {"proper", "claimless", "refused", "raises"}
                            /\ tok.exp \in Int \cup {None}
  /\ Second \in Nat \ {0} /\ MaxMtime \in Nat /\ MaxClock \in Nat

(* A content is no file, a file without a usable key (not JSON, or no oct   *)
(* key), or the keys by their ids.                                          *)
NoKeys == [k \in {} |-> None]
Absent   == [kind |-> "absent",   keys |-> NoKeys]
Unusable == [kind |-> "unusable", keys |-> NoKeys]
Jwks(keys) == [kind |-> "jwks", keys |-> keys]

Usable(c) == c.kind = "jwks"

(* A token is what verify() tells apart: whether header and payload parse   *)
(* to an HS256 token ("proper"), to one whose claims are not an object      *)
(* ("claimless", seen only when the signature has been checked), to         *)
(* something refused, or to something that raises; its kid; the key it was  *)
(* signed with, None for a signature that is not base64; and its claims,    *)
(* exp = None if int() does not take it.                                    *)
Pending == [result |-> "none", tenant |-> None]
Refused == [result |-> "refused", tenant |-> None]
Raised(e) == [result |-> e, tenant |-> None]
Accepted(tenant) == [result |-> "accepted", tenant |-> tenant]

Outcome == {Pending, Refused, Raised("OSError"), Raised("other")}
             \cup {Accepted(tok.tenant) : tok \in AllTokens}

(* The token has a header of the only algorithm there is. *)
Parsed(tok) == tok.form \in {"proper", "claimless"}

(* Mutant: a token is good until the end of the second in which it expires. *)
JudgedLate(tok, seconds) ==
  IF tok.form = "claimless" THEN Raised("other")
  ELSE IF tok.iss # Issuer \/ Audience \notin tok.aud THEN Refused
  ELSE IF tok.exp = None THEN Raised("other")
  ELSE IF tok.exp < seconds \/ tok.tenant = None THEN Refused
  ELSE Accepted(tok.tenant)

(* The claims, in the order of their checks. *)
Judged(tok, seconds) ==
  IF tok.form = "claimless" THEN Raised("other")
  ELSE IF tok.iss # Issuer \/ Audience \notin tok.aud THEN Refused
  ELSE IF tok.exp = None THEN Raised("other")
  ELSE IF tok.exp <= seconds \/ tok.tenant = None THEN Refused
  ELSE Accepted(tok.tenant)

VARIABLES
  file, mtime,    \* the JWKS file and its modification time
  cache,          \* _keys and _mtime_ns
  clock,          \* time.time(), in ticks
  pc,             \* where each thread is in verify()
  token,          \* the token each thread was given
  statM,          \* stat.st_mtime_ns of each thread's load
  got,            \* what each thread read
  outcome,        \* how verify() ended
  own,            \* history: the contents of the file during the call
  around          \* history: the contents that the calls which were running
                  \* when it began had seen by then

world == <<file, mtime, clock>>
history == <<own, around>>
vars == <<world, cache, pc, token, statM, got, outcome, history>>

Running(t) == pc[t] # "idle"

TypeOK ==
  /\ file \in Contents /\ mtime \in Nat /\ clock \in Nat
  /\ cache \in [keys : {c.keys : c \in Contents}, mtime : Nat]
  /\ pc \in [Workers -> {"idle", "stat", "compare", "read", "publish",
                         "lookup", "sign", "claims"}]
  /\ token \in [Workers -> AllTokens \cup {None}]
  /\ statM \in [Workers -> Nat \cup {None}]
  /\ got \in [Workers -> Contents \cup {Absent}]
  /\ outcome \in [Workers -> Outcome]
  /\ own \in [Workers -> SUBSET Contents]
  /\ around \in [Workers -> SUBSET Contents]
-------------------------------------------------------------------------------
(* Mutant: the time of the first load is not kept. *)
StartUpUnset == [keys |-> file.keys, mtime |-> None]

(* _load_keys(force=True): the gateway does not start without a usable file. *)
StartUp == [keys |-> file.keys, mtime |-> mtime]

Init ==
  /\ file \in {c \in Contents : Usable(c)}
  /\ mtime = 0
  /\ cache = StartUp
  /\ clock = 0
  /\ pc = [t \in Workers |-> "idle"]
  /\ token = [t \in Workers |-> None]
  /\ statM = [t \in Workers |-> None]
  /\ got = [t \in Workers |-> Absent]
  /\ outcome = [t \in Workers |-> Pending]
  /\ own = [t \in Workers |-> {}]
  /\ around = [t \in Workers |-> {}]

Goto(t, step) == pc' = [pc EXCEPT ![t] = step]

(* verify() returns or raises, and its locals are gone. *)
End(t, result) ==
  /\ Goto(t, "idle")
  /\ outcome' = [outcome EXCEPT ![t] = result]
  /\ token' = [token EXCEPT ![t] = None]
  /\ statM' = [statM EXCEPT ![t] = None]
  /\ got' = [got EXCEPT ![t] = Absent]
  /\ own' = [own EXCEPT ![t] = {}]
  /\ around' = [around EXCEPT ![t] = {}]
  /\ UNCHANGED <<world, cache>>

(* The thread goes on, and no local of it changes. *)
GoOn(t, step) ==
  /\ Goto(t, step)
  /\ UNCHANGED <<world, cache, token, statM, got, outcome, history>>

(* A request with a bearer token that is no API key. *)
Begin(t) ==
  /\ ~Running(t)
  /\ Goto(t, "stat")
  /\ \E tok \in Tokens[t] : token' = [token EXCEPT ![t] = tok]
  /\ outcome' = [outcome EXCEPT ![t] = Pending]
  /\ own' = [own EXCEPT ![t] = {file}]
  /\ around' = [around EXCEPT ![t] =
                  UNION {own[u] : u \in {v \in Workers : Running(v)}}]
  /\ UNCHANGED <<world, cache, statM, got>>

(* path.stat() *)
Stat(t) ==
  /\ pc[t] = "stat"
  /\ IF file = Absent
     THEN End(t, Raised("OSError"))
     ELSE /\ Goto(t, "compare")
          /\ statM' = [statM EXCEPT ![t] = mtime]
          /\ UNCHANGED <<world, cache, token, got, outcome, history>>

(* Mutant: the file is loaded only once. *)
KeepAlways(t) == pc[t] = "compare" /\ GoOn(t, "lookup")

Keep(t) == pc[t] = "compare" /\ statM[t] = cache.mtime /\ GoOn(t, "lookup")

Reload(t) == pc[t] = "compare" /\ statM[t] # cache.mtime /\ GoOn(t, "read")

(* read_text(), and the parse of what it returned. *)
Read(t) ==
  /\ pc[t] = "read"
  /\ IF Usable(file)
     THEN /\ Goto(t, "publish")
          /\ got' = [got EXCEPT ![t] = file]
          /\ UNCHANGED <<world, cache, token, statM, outcome, history>>
     ELSE End(t, Raised(IF file = Absent THEN "OSError" ELSE "other"))

(* Mutant: the keys are stored with the time the file has after the read.   *)
PublishRestat(t) ==
  /\ pc[t] = "publish"
  /\ cache' = [keys |-> got[t].keys, mtime |-> mtime]
  /\ Goto(t, "lookup")
  /\ UNCHANGED <<world, token, statM, got, outcome, history>>

(* The keys are stored with the time the file had before the read. *)
Publish(t) ==
  /\ pc[t] = "publish"
  /\ cache' = [keys |-> got[t].keys, mtime |-> statM[t]]
  /\ Goto(t, "lookup")
  /\ UNCHANGED <<world, token, statM, got, outcome, history>>

(* Mutant: the key id is not looked for. *)
LookupUnchecked(t) ==
  /\ pc[t] = "lookup"
  /\ IF Parsed(token[t]) THEN GoOn(t, "sign") ELSE End(t, Refused)

(* The token is parsed, and its key id is looked for in the cache. *)
Lookup(t) ==
  /\ pc[t] = "lookup"
  /\ CASE token[t].form = "refused" -> End(t, Refused)
       [] token[t].form = "raises" -> End(t, Raised("other"))
       [] Parsed(token[t]) ->
            IF token[t].kid \in DOMAIN cache.keys THEN GoOn(t, "sign")
                                                  ELSE End(t, Refused)

(* The key is taken from the cache, which may be another one by now: then   *)
(* the id may be missing (KeyError).                                        *)
Sign(t) ==
  /\ pc[t] = "sign"
  /\ IF token[t].kid \notin DOMAIN cache.keys \/ token[t].key = None
     THEN End(t, Raised("other"))
     ELSE IF cache.keys[token[t].kid] # token[t].key THEN End(t, Refused)
     ELSE GoOn(t, "claims")

(* int(time.time()), and the claims. *)
Claims(t) ==
  /\ pc[t] = "claims"
  /\ End(t, Judged(token[t], clock \div Second))

Tick ==
  /\ clock < MaxClock
  /\ clock' = clock + 1
  /\ UNCHANGED <<file, mtime, cache, pc, token, statM, got, outcome, history>>

(* An operator replaces, damages, removes or touches the file; every change *)
(* has a modification time of its own.                                      *)
Rewrite(c) ==
  /\ mtime < MaxMtime
  /\ file' = c
  /\ mtime' = mtime + 1
  /\ own' = [t \in Workers |-> IF Running(t) THEN own[t] \cup {c} ELSE own[t]]
  /\ UNCHANGED <<clock, cache, pc, token, statM, got, outcome, around>>

(* The process stops with its calls and starts again, if the file lets it. *)
Restart ==
  /\ Usable(file)
  /\ cache' = StartUp
  /\ pc' = [t \in Workers |-> "idle"]
  /\ token' = [t \in Workers |-> None]
  /\ statM' = [t \in Workers |-> None]
  /\ got' = [t \in Workers |-> Absent]
  /\ outcome' = [t \in Workers |-> Pending]
  /\ own' = [t \in Workers |-> {}]
  /\ around' = [t \in Workers |-> {}]
  /\ UNCHANGED world

Verify(t) ==
  \/ Begin(t) \/ Stat(t) \/ Keep(t) \/ Reload(t) \/ Read(t) \/ Publish(t)
  \/ Lookup(t) \/ Sign(t) \/ Claims(t)

Next ==
  \/ \E t \in Workers : Verify(t)
  \/ \E c \in Contents : Rewrite(c)
  \/ Tick
  \/ Restart

(* Threads go on running and requests keep arriving; nobody has to change   *)
(* the file, and time may stand still.                                      *)
Spec == Init /\ [][Next]_vars /\ \A t \in Workers : WF_vars(Verify(t))
-------------------------------------------------------------------------------
(* The step in which a call ends with one of these results. *)
Ends(t, results) == Running(t) /\ ~Running(t)' /\ outcome'[t].result \in results

(* The contents whose keys may be in the cache while the call runs. *)
Near(t) == own[t] \cup around[t]

Has(c, kid) == kid \in DOMAIN c.keys
Signed(c, tok) == Has(c, tok.kid) /\ c.keys[tok.kid] = tok.key
Good(tok) == tok.form = "proper" /\ tok.key # None /\ tok.exp # None
Rightful(tok) == tok.iss = Issuer /\ Audience \in tok.aud /\ tok.tenant # None
Expired(tok) == clock >= tok.exp * Second

(* A token is accepted only if its key was in the file during the call, or  *)
(* while a call ran that overlaps its beginning; if the file was usable at  *)
(* some moment of the call, so that a removed or damaged file is never      *)
(* answered from old keys; and not from the instant on at which it expires  *)
(* (auth.py:143-192).                                                       *)
AcceptJustified ==
  [][\A t \in Workers : Ends(t, {"accepted"}) =>
       /\ Rightful(token[t]) /\ ~Expired(token[t])
       /\ \E c \in Near(t) : Signed(c, token[t])
       /\ \E c \in own[t] : Usable(c)]_vars

(* A good token is refused only if it has expired, or one of those contents *)
(* did not have its key: no mixture of loads in flight locks out a key that *)
(* has been in the file all along (auth.py:143-192).                        *)
RefusalJustified ==
  [][\A t \in Workers : Ends(t, {"refused"}) /\ Good(token[t]) =>
       \/ ~Rightful(token[t]) \/ Expired(token[t])
       \/ \E c \in Near(t) : ~Signed(c, token[t])]_vars

(* verify() raises, and the request ends without an authentication answer,  *)
(* only if the token is malformed in a way the code does not catch, the     *)
(* file was not usable during the call, or the key id vanished from the     *)
(* cache between the two uses of it (auth.py:156-159, 181-190).             *)
RaiseJustified ==
  [][\A t \in Workers : Ends(t, {"OSError", "other"}) =>
       \/ ~Good(token[t])
       \/ \E c \in own[t] : ~Usable(c)
       \/ /\ \E c \in Near(t) : Usable(c) /\ Has(c, token[t].kid)
          /\ \E c \in Near(t) : Usable(c) /\ ~Has(c, token[t].kid)]_vars

(* Once the file stops changing and is usable, the cache ends up with its   *)
(* keys, whatever loads were in flight and however many failed before.      *)
Converges ==
  <>[](Usable(file) => cache = [keys |-> file.keys, mtime |-> mtime])
===============================================================================
