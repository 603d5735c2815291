------------------------------- MODULE KeyStore -------------------------------
(***************************************************************************)
(* APIKeyStore: the cache of the key file that every request thread of the *)
(* gateway consults and refreshes, without a lock, in authenticate().      *)
(*                                                                         *)
(* A step is what one thread does between two points where the interpreter *)
(* may switch threads: the stat call, the read and parse of the file, and  *)
(* the straight-line code after each.  The three assignments that publish  *)
(* a load and the tests that follow them contain no such point.            *)
(*                                                                         *)
(* The file belongs to the environment: the admin endpoint (KeyManagement  *)
(* composes it) or an operator's editor.                                   *)
(***************************************************************************)
EXTENDS KeyFile

CONSTANTS
  Workers,        \* request threads
  Contents,       \* the contents the file may take
  Supplied,       \* the secrets requests present
  MaxMtime        \* bound of the model on the changes of the file

ASSUME KeyStoreAssumption ==
  /\ Contents \subseteq Content
  /\ MaxMtime \in Nat

VARIABLES
  content,        \* what the file holds
  mtime,          \* its modification time; the last one if it is absent
  cache,          \* _dynamic_keys, _load_error and _mtime_ns
  pc,             \* where each thread is in authenticate()
  supplied,       \* the secret each thread was given
  statM,          \* stat.st_mtime_ns of each thread's load
  got,            \* what each thread read
  outcome,        \* what authenticate() returned
  seen            \* history: the contents the file had while the call ran

fileVars == <<content, mtime>>
threadVars == <<pc, supplied, statM, got, outcome>>
vars == <<content, mtime, cache, pc, supplied, statM, got, outcome, seen>>

Active(t) == pc[t] \in {"stat", "gone", "compare", "read", "publish"}

TypeOK ==
  /\ content \in Content
  /\ mtime \in Nat
  /\ cache \in [keys : SUBSET Record, err : BOOLEAN, mtime : Nat \cup {None}]
  /\ pc \in [Workers -> {"idle", "stat", "gone", "compare", "read",
                         "publish", "done"}]
  /\ supplied \in [Workers -> Supplied \cup {None}]
  /\ statM \in [Workers -> Nat \cup {None}]
  /\ got \in [Workers -> Content]
  /\ outcome \in [Workers -> Outcome]
  /\ seen \in [Workers -> SUBSET Content]
-------------------------------------------------------------------------------
(* Mutant: the flag of a failed load is not initialised. *)
StartUpUnset == [keys |-> {}, err |-> None, mtime |-> None]

(* _load_dynamic_keys(force=True), before the server listens. *)
StartUp == [keys  |-> ViewOf(content).keys, err |-> ViewOf(content).err,
            mtime |-> IF content = Absent THEN None ELSE mtime]

Init ==
  /\ content \in Contents
  /\ mtime = 0
  /\ cache = StartUp
  /\ pc = [t \in Workers |-> "idle"]
  /\ supplied = [t \in Workers |-> None]
  /\ statM = [t \in Workers |-> None]
  /\ got = [t \in Workers |-> Absent]
  /\ outcome = [t \in Workers |-> Denied]
  /\ seen = [t \in Workers |-> {}]

(* The view of the keys that the cache gives. *)
Cached == [keys |-> cache.keys, err |-> cache.err]

(* authenticate() decides from the cache as this step leaves it (36-43). *)
Decide(t) ==
  /\ pc' = [pc EXCEPT ![t] = "done"]
  /\ outcome' = [outcome EXCEPT ![t] = Decision(Cached', supplied[t])]
  /\ UNCHANGED <<supplied, seen>>
  /\ statM' = [statM EXCEPT ![t] = None]
  /\ got' = [got EXCEPT ![t] = Absent]

(* A request with an API key reaches authenticate(). *)
Begin(t) ==
  /\ pc[t] \in {"idle", "done"}
  /\ \E s \in Supplied : supplied' = [supplied EXCEPT ![t] = s]
  /\ pc' = [pc EXCEPT ![t] = "stat"]
  /\ outcome' = [outcome EXCEPT ![t] = Denied]
  /\ seen' = [seen EXCEPT ![t] = {content}]
  /\ UNCHANGED <<fileVars, cache, statM, got>>

(* stat() returns a modification time, or raises FileNotFoundError. *)
Stat(t) ==
  /\ pc[t] = "stat"
  /\ IF content = Absent
     THEN /\ pc' = [pc EXCEPT ![t] = "gone"]
          /\ UNCHANGED statM
     ELSE /\ pc' = [pc EXCEPT ![t] = "compare"]
          /\ statM' = [statM EXCEPT ![t] = mtime]
  /\ UNCHANGED <<fileVars, cache, supplied, got, outcome, seen>>

(* The FileNotFoundError handler: no keys, and an earlier error stays. *)
Gone(t) ==
  /\ pc[t] = "gone"
  /\ cache' = [cache EXCEPT !.keys = {}, !.mtime = None]
  /\ Decide(t)
  /\ UNCHANGED fileVars

(* Mutant: the file is loaded only once. *)
KeepForever(t) ==
  /\ pc[t] = "compare"
  /\ cache.mtime # None
  /\ UNCHANGED <<fileVars, cache>>
  /\ Decide(t)

(* The file has the modification time of the last load: keep the keys. *)
Keep(t) ==
  /\ pc[t] = "compare"
  /\ statM[t] = cache.mtime
  /\ UNCHANGED <<fileVars, cache>>
  /\ Decide(t)

(* It has another one: go on to read it. *)
Reload(t) ==
  /\ pc[t] = "compare"
  /\ statM[t] # cache.mtime
  /\ pc' = [pc EXCEPT ![t] = "read"]
  /\ UNCHANGED <<fileVars, cache, supplied, statM, got, outcome, seen>>

(* read_text() and the parse of what it returned. *)
Read(t) ==
  /\ pc[t] = "read"
  /\ got' = [got EXCEPT ![t] = content]
  /\ pc' = [pc EXCEPT ![t] = "publish"]
  /\ UNCHANGED <<fileVars, cache, supplied, statM, outcome, seen>>

(* Mutants: the load is stored with the time the file has after it was      *)
(* read; an error stays once it was set; a failed load keeps the old keys.  *)
PublishRestat(t) ==
  /\ pc[t] = "publish"
  /\ cache' = [keys |-> Loaded(got[t]).keys, err |-> Loaded(got[t]).err,
               mtime |-> mtime]
  /\ Decide(t)
  /\ UNCHANGED fileVars

PublishSticky(t) ==
  /\ pc[t] = "publish"
  /\ cache' = [keys |-> Loaded(got[t]).keys,
               err |-> cache.err \/ Loaded(got[t]).err, mtime |-> statM[t]]
  /\ Decide(t)
  /\ UNCHANGED fileVars

PublishLenient(t) ==
  /\ pc[t] = "publish"
  /\ cache' = [keys |-> IF LoadFails(got[t]) THEN cache.keys ELSE got[t].recs,
               err |-> FALSE, mtime |-> statM[t]]
  /\ Decide(t)
  /\ UNCHANGED fileVars

(* The load is stored with the time the file had before it was read. *)
Publish(t) ==
  /\ pc[t] = "publish"
  /\ cache' = [keys |-> Loaded(got[t]).keys, err |-> Loaded(got[t]).err,
               mtime |-> statM[t]]
  /\ Decide(t)
  /\ UNCHANGED fileVars

(* History: the running calls see what the file becomes. *)
Observe ==
  seen' = [t \in Workers |-> IF Active(t) THEN seen[t] \cup {content'}
                                          ELSE seen[t]]

(* Somebody rewrites, creates, damages, removes or touches the file. *)
Rewrite(c) ==
  /\ mtime < MaxMtime
  /\ content' = c
  /\ mtime' \in NextMtimes(mtime)
  /\ Observe
  /\ UNCHANGED <<cache, threadVars>>

(* The gateway process stops, with the requests it was serving, and starts *)
(* again.                                                                  *)
Restart ==
  /\ cache' = StartUp
  /\ pc' = [t \in Workers |-> "idle"]
  /\ supplied' = [t \in Workers |-> None]
  /\ statM' = [t \in Workers |-> None]
  /\ got' = [t \in Workers |-> Absent]
  /\ outcome' = [t \in Workers |-> Denied]
  /\ seen' = [t \in Workers |-> {}]
  /\ UNCHANGED fileVars

Load(t) == Stat(t) \/ Gone(t) \/ Keep(t) \/ Reload(t) \/ Read(t) \/ Publish(t)

Authenticate(t) == Begin(t) \/ Load(t)

Next ==
  \/ \E t \in Workers : Authenticate(t)
  \/ \E c \in Contents : Rewrite(c)
  \/ Restart

Spec == Init /\ [][Next]_vars

(* A thread that is running goes on running, and requests keep arriving.   *)
(* Nothing makes anybody change the file or restart the process.           *)
FairSpec == Spec /\ \A t \in Workers : WF_vars(Authenticate(t))
-------------------------------------------------------------------------------
(* A key is accepted only if the file, at some moment of the call itself,   *)
(* said so: no thread's stale or half-finished load can revive a revoked    *)
(* key for a request that began after the revocation (auth.py:34-67).       *)
AcceptJustified ==
  \A t \in Workers :
    pc[t] = "done" /\ outcome[t] # Denied =>
      \E c \in seen[t] : outcome[t] = Decision(ViewOf(c), supplied[t])

(* A key is refused only if the file, at some moment of the call, did not   *)
(* grant it or was missing; a late load by another thread cannot lock out   *)
(* a key that the file has granted all along (auth.py:34-67).               *)
DenyJustified ==
  \A t \in Workers :
    pc[t] = "done" /\ outcome[t] = Denied =>
      \E c \in seen[t] : c = Absent \/ Decision(ViewOf(c), supplied[t]) = Denied

(* If the recorded time is the time of the file, then the cached keys are   *)
(* those of the file, whatever happened between the stat and the read of    *)
(* whoever loaded them: the test of line 54 skips no change.                *)
FreshWhenMtimeMatches ==
  cache.mtime = mtime /\ content # Absent => Cached = Loaded(content)

(* Why those three hold, for every number of threads and any interleaving: *)
(* an invariant that every step preserves.                                  *)
Loading(t) == pc[t] \in {"compare", "read", "publish"}

(* A running call has seen the file as it is. *)
CallsSeeTheFile == \A t \in Workers : Active(t) => content \in seen[t]

(* No recorded time is ahead of the file. *)
TimesNotAhead ==
  /\ cache.mtime # None => cache.mtime <= mtime
  /\ \A t \in Workers : Loading(t) => statM[t] \in Nat /\ statM[t] <= mtime

(* What carries the time of the file was read from the file as it is. *)
SameTimeSameFile ==
  /\ cache.mtime = mtime => Cached = Loaded(content)
  /\ \A t \in Workers : pc[t] = "publish" /\ statM[t] = mtime =>
                           got[t] = content

(* A call that finds the recorded time equal to its own finds keys that the *)
(* file had during the call, even if another thread publishes in between.   *)
CacheWasSeen ==
  /\ \A t \in Workers : pc[t] = "compare" /\ statM[t] = cache.mtime =>
                           \E c \in seen[t] : Cached = Loaded(c)
  /\ \A t, u \in Workers :
       pc[t] = "compare" /\ pc[u] = "publish" /\ statM[t] = statM[u] =>
         got[u] \in seen[t]

(* A call saw what it read, or the absence of the file. *)
LoadsWereSeen ==
  \A t \in Workers : /\ pc[t] = "publish" => got[t] \in seen[t]
                     /\ pc[t] = "gone" => Absent \in seen[t]

IInv ==
  /\ TypeOK
  /\ CallsSeeTheFile
  /\ TimesNotAhead
  /\ SameTimeSameFile
  /\ CacheWasSeen
  /\ LoadsWereSeen
  /\ AcceptJustified
  /\ DenyJustified

(* The cache and the file agree. *)
Synced ==
  IF content = Absent
  THEN cache.keys = {} /\ cache.mtime = None
  ELSE cache.mtime = mtime /\ Cached = Loaded(content)

(* Once the file stops changing, the cache ends up in agreement with it and *)
(* stays so, although late threads may still publish older loads.           *)
Converges == <>[]Synced
===============================================================================
