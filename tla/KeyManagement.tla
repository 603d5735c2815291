---------------------------- MODULE KeyManagement ----------------------------
(***************************************************************************)
(* The key store and the admin endpoint of one gateway process over the    *)
(* one key file: the admin threads (KeyAdmin) are the environment that     *)
(* changes the file under the request threads (KeyStore).                  *)
(***************************************************************************)
EXTENDS KeyFile, FiniteSets

CONSTANTS
  Workers, Supplied,              \* see KeyStore
  Admins, Requests, InitContents, \* see KeyAdmin
  Faults,
  MaxMtime        \* bound of the model: no admin request is received once
                  \* the file has changed this often

ASSUME KeyManagementAssumption ==
  /\ Requests \subseteq Request
  /\ \A q \in Requests : q.op = "issue" => q.tenant # None
  /\ InitContents \subseteq Content
  /\ Faults \in BOOLEAN
  /\ MaxMtime \in Nat /\ IsFiniteSet(Admins)

VARIABLES
  content, mtime,
  cache, pc, supplied, statM, got, outcome, seen,
  step, req, secret, recs, old, reply, made, stored, dead,
  barred,         \* history: the calls whose secret is dead since they began
  entitled        \* history: those whose secret is valid since they began

storeVars == <<cache, pc, supplied, statM, got, outcome>>
adminVars == <<step, req, secret, recs, old, reply, made, stored, dead>>
vars == <<content, mtime, storeVars, seen, adminVars, barred, entitled>>

(* Requests that were received before the bound may still change the file   *)
(* twice each.                                                              *)
Store == INSTANCE KeyStore
           WITH Contents <- Content, MaxMtime <- MaxMtime + 2 * Cardinality(Admins)
Admin == INSTANCE KeyAdmin

(* The secrets that the last records written in full, or the configuration, *)
(* make valid.                                                              *)
Valid(R) == {k.secret : k \in {r \in StaticKeys \cup R : ~r.revoked}}

Init ==
  /\ Admin!Init
  /\ mtime = 0
  /\ cache = Store!StartUp
  /\ pc = [t \in Workers |-> "idle"]
  /\ supplied = [t \in Workers |-> None]
  /\ statM = [t \in Workers |-> None]
  /\ got = [t \in Workers |-> Absent]
  /\ outcome = [t \in Workers |-> Denied]
  /\ seen = [t \in Workers |-> {}]
  /\ barred = {}
  /\ entitled = {}

(* The histories follow every step of the system. *)
Begun(t) == pc[t] # "stat" /\ pc'[t] = "stat"

Track ==
  /\ barred' = {t \in Workers : /\ supplied'[t] \in dead'
                                /\ t \in barred \/ Begun(t)}
  /\ entitled' = {t \in Workers : /\ supplied'[t] \in Valid(stored')
                                  /\ t \in entitled \/ Begun(t)}

(* A request thread takes a step of authenticate(). *)
Authenticate(t) ==
  /\ Store!Authenticate(t)
  /\ UNCHANGED adminVars

(* An admin thread changes the file under the request threads. *)
Rewrite(a) ==
  /\ Admin!Rewrites(a)
  /\ mtime' \in NextMtimes(mtime)
  /\ Store!Observe
  /\ UNCHANGED storeVars

(* An admin thread works on a request without touching the file. *)
Prepare(a) ==
  /\ Admin!Prepares(a)
  /\ step[a] = "idle" => mtime < MaxMtime
  /\ UNCHANGED <<mtime, storeVars, seen>>

(* The process stops with all its threads and starts again. *)
Restart == Admin!Crash /\ Store!Restart

Next ==
  /\ \/ \E t \in Workers : Authenticate(t)
     \/ \E a \in Admins : Rewrite(a) \/ Prepare(a)
     \/ Restart
  /\ Track

Spec == Init /\ [][Next]_vars

(* Threads that are running go on, and requests keep arriving; nothing      *)
(* makes anybody send an admin request.                                     *)
Proceed(a) == Rewrite(a) \/ (step[a] # "idle" /\ Prepare(a))

FairSpec ==
  /\ Spec
  /\ \A t \in Workers : WF_vars(Authenticate(t) /\ Track)
  /\ \A a \in Admins : WF_vars(Proceed(a) /\ Track)
-------------------------------------------------------------------------------
(* Once a revocation or a rotation is acknowledged, a request that begins   *)
(* afterwards is refused the dead secret, whatever the other request        *)
(* threads have in flight, and whatever failed or crashed in between.       *)
RevokedKeyRefused ==
  \A t \in barred : pc[t] = "done" => outcome[t] = Denied

(* A key that is valid throughout a call is accepted, if the file could be  *)
(* loaded at every moment of the call.                                      *)
ValidKeyAccepted ==
  \A t \in entitled :
    pc[t] = "done" /\ (\A c \in seen[t] : c = Absent \/ ~LoadFails(c))
      => outcome[t] # Denied

(* The gateway reloads the key file when it changes: if the file can be     *)
(* loaded from some moment on, then the store does not refuse every key for *)
(* good because of a load that failed (auth.py:45-67).                      *)
OutageEnds == <>[](~LoadFails(content)) => []<>(~cache.err)
=============================================================================
