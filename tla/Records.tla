------------------------------- MODULE Records -------------------------------
(***************************************************************************)
(* The records that concurrent handlers leave of their requests: the       *)
(* access log (GatewayLogger), the audit file (AuditLogger) and the        *)
(* counters (MetricsRegistry) with their rendering for GET /metrics.       *)
(*                                                                         *)
(* The handlers share one text stream for the access log, open the audit   *)
(* file for each record, and update the counters without a lock.  A step   *)
(* ends where the interpreter may switch threads: at each file operation,  *)
(* each reading of the clock, and between the two passes of a rendering.   *)
(***************************************************************************)
EXTENDS Integers, Sequences, FiniteSets, SequencesExt

CONSTANTS
  Threads,        \* request threads
  Retention,      \* audit_retention_days, in ticks of the clock
  Faults,         \* may writes fail?
  MaxRequests,    \* bound of the model on the requests
  MaxTime         \* bound of the model on the clock

ASSUME RecordsAssumption ==
  /\ Retention \in Nat \ {0} /\ Faults \in BOOLEAN
  /\ MaxRequests \in Nat /\ MaxTime \in Nat

VARIABLES
  clock,
  buffer,         \* the lines that the stream of the access log holds back
  log,            \* the lines of its file
  audit,          \* the audit file: [req, at, whole], in the order of the
                  \* appends; a torn record has no line end
  auditM,         \* its modification time
  requests,       \* _requests and _latency_ms: the requests that each of the
  latency,        \*   sums covers
  arrived,        \* the number of requests so far
  pc, req, at,    \* each thread: its place, its request, its timestamp
  shown,          \* what it has rendered of _requests, if it serves /metrics
  scraped,        \* the last rendering: [requests, latency, before]
  before,         \* history: the requests counted when its rendering began
  kept            \* history: the records whose append succeeded

files == <<buffer, log, audit, auditM>>
counters == <<requests, latency>>
local == <<req, at, shown, before>>
vars == <<clock, files, counters, arrived, pc, local, scraped, kept>>

Requests == 1..MaxRequests
AuditRecord == [req : Requests, at : 0..MaxTime, whole : BOOLEAN]

TypeOK ==
  /\ clock \in 0..MaxTime /\ auditM \in 0..clock
  /\ buffer \in Seq(Requests) /\ log \in Seq(Requests)
  /\ audit \in Seq(AuditRecord) /\ kept \subseteq AuditRecord
  /\ requests \subseteq 1..arrived /\ latency \subseteq 1..arrived
  /\ arrived \in 0..MaxRequests
  /\ pc \in [Threads -> {"idle", "render", "sums", "access", "flush",
                         "terminal", "stamp", "append", "observe"}]
  /\ req \in [Threads -> 0..MaxRequests] /\ at \in [Threads -> 0..MaxTime]
  /\ shown \in [Threads -> SUBSET Requests]
  /\ before \in [Threads -> SUBSET Requests]
  /\ scraped \in [requests : SUBSET Requests, latency : SUBSET Requests,
                  before : SUBSET Requests]

Nothing == [requests |-> {}, latency |-> {}, before |-> {}]

Init ==
  /\ clock = 0 /\ arrived = 0
  /\ buffer = <<>> /\ log = <<>> /\ audit = <<>> /\ auditM = 0
  /\ requests = {} /\ latency = {} /\ scraped = Nothing
  /\ pc = [t \in Threads |-> "idle"]
  /\ req = [t \in Threads |-> 0]
  /\ at = [t \in Threads |-> 0]
  /\ shown = [t \in Threads |-> {}]
  /\ before = [t \in Threads |-> {}]
  /\ kept = {}
-------------------------------------------------------------------------------
Goto(t, step) == pc' = [pc EXCEPT ![t] = step]

(* The handler is over: all records are made, or one raised an exception,   *)
(* which skips those after it.                                              *)
Leave(t) ==
  /\ Goto(t, "idle")
  /\ req' = [req EXCEPT ![t] = 0]
  /\ at' = [at EXCEPT ![t] = 0]
  /\ UNCHANGED <<shown, before>>

(* A request is handled up to its finally clause, or is GET /metrics. *)
Arrive(t) ==
  /\ pc[t] = "idle" /\ arrived < MaxRequests
  /\ arrived' = arrived + 1
  /\ req' = [req EXCEPT ![t] = arrived']
  /\ Goto(t, "access") \/ Goto(t, "render")
  /\ UNCHANGED <<clock, files, counters, at, shown, before, scraped, kept>>

(* prometheus(): a sorted copy of the counts, rendered line by line... *)
Render(t) ==
  /\ pc[t] = "render"
  /\ shown' = [shown EXCEPT ![t] = requests]
  /\ before' = [before EXCEPT ![t] = requests]
  /\ Goto(t, "sums")
  /\ UNCHANGED <<clock, files, counters, arrived, req, at, scraped, kept>>

(* Mutant: the sums are copied first, and the counts after them. *)
SumsFirst(t) ==
  /\ pc[t] = "sums"
  /\ scraped' = [requests |-> requests, latency |-> shown[t], before |-> before[t]]
  /\ shown' = [shown EXCEPT ![t] = {}]
  /\ before' = [before EXCEPT ![t] = {}]
  /\ Goto(t, "access")
  /\ UNCHANGED <<clock, files, counters, arrived, req, at, kept>>

(* ...and then one of the sums. *)
Sums(t) ==
  /\ pc[t] = "sums"
  /\ scraped' = [requests |-> shown[t], latency |-> latency, before |-> before[t]]
  /\ shown' = [shown EXCEPT ![t] = {}]
  /\ before' = [before EXCEPT ![t] = {}]
  /\ Goto(t, "access")
  /\ UNCHANGED <<clock, files, counters, arrived, req, at, kept>>

(* access(): the line goes to the stream that all threads share... *)
Access(t) ==
  /\ pc[t] = "access"
  /\ buffer' = Append(buffer, req[t])
  /\ Goto(t, "flush")
  /\ UNCHANGED <<clock, log, audit, auditM, counters, arrived, local, scraped, kept>>

(* ...and a flush writes whatever the stream holds. *)
Flush(t) ==
  /\ pc[t] = "flush"
  /\ log' = log \o buffer
  /\ buffer' = <<>>
  /\ Goto(t, "terminal")
  /\ UNCHANGED <<clock, audit, auditM, counters, arrived, local, scraped, kept>>

(* Mutant: the stream is opened anew after a failure. *)
FlushFailsReopened(t) ==
  /\ Faults
  /\ pc[t] = "flush"
  /\ Leave(t)
  /\ buffer' = <<>>
  /\ UNCHANGED <<clock, log, audit, auditM, counters, arrived, scraped, kept>>

(* The disk is full: the stream keeps its lines for the next flush. *)
FlushFails(t) ==
  /\ Faults
  /\ pc[t] = "flush"
  /\ Leave(t)
  /\ UNCHANGED <<clock, files, counters, arrived, scraped, kept>>

Terminal(t) ==
  /\ pc[t] = "terminal"
  /\ \/ Goto(t, "stamp") /\ UNCHANGED local
     \/ Faults /\ Leave(t)
  /\ UNCHANGED <<clock, files, counters, arrived, scraped, kept>>

(* AuditLogger.write: the timestamp... *)
Stamp(t) ==
  /\ pc[t] = "stamp"
  /\ at' = [at EXCEPT ![t] = clock]
  /\ Goto(t, "append")
  /\ UNCHANGED <<clock, files, counters, arrived, req, shown, before, scraped, kept>>

(* Mutant: the record is made from locals that were reset before. *)
MadeLate(t, whole) == [req |-> 0, at |-> at[t], whole |-> whole]

Made(t, whole) == [req |-> req[t], at |-> at[t], whole |-> whole]

(* ...and one write at the end of the file. *)
AppendRecord(t) ==
  /\ pc[t] = "append"
  /\ audit' = Append(audit, Made(t, TRUE))
  /\ auditM' = clock
  /\ kept' = kept \cup {Made(t, TRUE)}
  /\ Goto(t, "observe")
  /\ UNCHANGED <<clock, buffer, log, counters, arrived, local, scraped>>

(* Mutant: a failing audit record is passed over. *)
AppendPassedOver(t) ==
  /\ Faults
  /\ pc[t] = "append"
  /\ Goto(t, "observe")
  /\ UNCHANGED <<clock, files, counters, arrived, local, scraped, kept>>

(* It cannot be opened, or the disk is full and a part of it is written. *)
AppendFails(t) ==
  /\ Faults
  /\ pc[t] = "append"
  /\ Leave(t)
  /\ \/ UNCHANGED <<audit, auditM>>
     \/ audit' = Append(audit, Made(t, FALSE)) /\ auditM' = clock
  /\ UNCHANGED <<clock, buffer, log, counters, arrived, scraped, kept>>

(* observe(): no call separates the two increments. *)
Observe(t) ==
  /\ pc[t] = "observe"
  /\ requests' = requests \cup {req[t]}
  /\ latency' = latency \cup {req[t]}
  /\ Leave(t)
  /\ UNCHANGED <<clock, files, arrived, scraped, kept>>

Tick ==
  /\ clock < MaxTime
  /\ clock' = clock + 1
  /\ UNCHANGED <<files, counters, arrived, pc, local, scraped, kept>>

(* Mutant: the age is that of the first record. *)
ExpiredByFirst == audit # <<>> /\ clock - Head(audit).at > Retention

(* _prune_if_expired: the age is that of the file. *)
Expired == clock - auditM > Retention

(* The process stops, at any moment, and starts again: its lines, counters  *)
(* and threads are gone, and an expired audit file is emptied.              *)
Restart ==
  /\ audit' = IF Expired THEN <<>> ELSE audit
  /\ auditM' = IF Expired THEN clock ELSE auditM
  /\ buffer' = <<>>
  /\ requests' = {} /\ latency' = {} /\ scraped' = Nothing
  /\ pc' = [t \in Threads |-> "idle"]
  /\ req' = [t \in Threads |-> 0]
  /\ at' = [t \in Threads |-> 0]
  /\ shown' = [t \in Threads |-> {}]
  /\ before' = [t \in Threads |-> {}]
  /\ UNCHANGED <<clock, log, arrived, kept>>

Handle(t) ==
  \/ Arrive(t) \/ Render(t) \/ Sums(t) \/ Access(t) \/ Flush(t) \/ FlushFails(t)
  \/ Terminal(t) \/ Stamp(t) \/ AppendRecord(t) \/ AppendFails(t) \/ Observe(t)

Next == Tick \/ Restart \/ \E t \in Threads : Handle(t)

Spec == Init /\ [][Next]_vars
-------------------------------------------------------------------------------
(* The records that a reader of the file finds, line by line: what follows  *)
(* a torn record is on its line and unreadable as well.                     *)
Readable ==
  {audit[i] : i \in {n \in DOMAIN audit :
                       audit[n].whole /\ (n = 1 \/ audit[n - 1].whole)}}

(* The records that share the line of a torn one. *)
Glued == {audit[i] : i \in {n \in DOMAIN audit \ {1} : ~audit[n - 1].whole}}

(* An audit record whose append succeeded stays readable until it is older  *)
(* than the retention, whenever the gateway restarts and however late its   *)
(* thread was; the one record after a failed append is the exception        *)
(* (audit.py:17-37).                                                        *)
YoungRecordsSurvive ==
  \A r \in kept : clock - r.at <= Retention => r \in Readable \cup Glued

(* A request that the counters include is in the access log and has its     *)
(* audit record, whatever failed for it or for others (server.py:179-213).  *)
CountedIsRecorded ==
  \A r \in requests : /\ r \in ToSet(log)
                      /\ \E rec \in kept : rec.req = r

(* A rendering that overlaps other requests includes those that had been    *)
(* counted before it, and its latencies cover every request it counts       *)
(* (metrics.py:17-36).                                                      *)
ScrapeIsConsistent ==
  scraped.before \subseteq scraped.requests /\ scraped.requests \subseteq scraped.latency

(* No access line is written twice, and none is lost while its handler is   *)
(* still at its records, also if a flush fails and another thread's flush   *)
(* writes the line (logging.py:47-52).                                      *)
AccessOnce ==
  /\ IsInjective(log \o buffer)
  /\ \A t \in Threads : pc[t] \in {"flush", "terminal", "stamp", "append", "observe"}
                           => req[t] \in ToSet(log \o buffer)
===============================================================================
