----------------------------- MODULE RecordsProofs -----------------------------
(***************************************************************************)
(* For any number of threads and requests, any retention, and failures and *)
(* restarts at any moment: what the access log, the audit file and the     *)
(* counters hold of a request agrees.                                      *)
(***************************************************************************)
EXTENDS Records, TLAPS

(* The lines of the access log, those that the stream holds back included. *)
Lines == log \o buffer

Busy(t) == pc[t] # "idle"

(* Every handler has a request of its own. *)
OwnRequests ==
  /\ \A t \in Threads : Busy(t) => req[t] \in 1..arrived
  /\ \A t, u \in Threads : Busy(t) /\ Busy(u) /\ t # u => req[t] # req[u]

(* A request is not in the log before its handler writes its line, and      *)
(* stays in it afterwards.                                                  *)
Unwritten(t) == pc[t] \in {"render", "sums", "access"}
Written(t) == pc[t] \in {"terminal", "stamp", "append", "observe"}

LinesAreDue ==
  /\ ToSet(Lines) \subseteq 1..arrived
  /\ \A t \in Threads : Unwritten(t) => req[t] \notin ToSet(Lines)
  /\ AccessOnce

(* A handler passes a record that succeeded, and no other. *)
InOrder ==
  /\ \A t \in Threads : Written(t) => req[t] \in ToSet(log)
  /\ \A t \in Threads : pc[t] = "observe" => \E rec \in kept : rec.req = req[t]
  /\ CountedIsRecorded

(* A rendering copies the counts before the sums, and both only grow. *)
CountsBeforeSums ==
  /\ requests \subseteq latency
  /\ \A t \in Threads : pc[t] = "sums" => before[t] \subseteq shown[t] /\ shown[t] \subseteq requests
  /\ ScrapeIsConsistent

(* No record is younger than the file, so the file expires after all of     *)
(* its records.                                                             *)
NoneYounger ==
  /\ \A t \in Threads : at[t] <= clock
  /\ \A r \in kept : r.at <= auditM
  /\ YoungRecordsSurvive

IInv ==
  /\ TypeOK
  /\ OwnRequests
  /\ LinesAreDue
  /\ InOrder
  /\ CountsBeforeSums
  /\ NoneYounger
-------------------------------------------------------------------------------
(* Sequences of lines and of records. *)
LEMMA AppendFacts ==
  ASSUME NEW S, NEW s \in Seq(S), NEW x \in S
  PROVE  /\ Append(s, x) \in Seq(S) /\ Len(Append(s, x)) = Len(s) + 1
         /\ DOMAIN Append(s, x) = DOMAIN s \cup {Len(s) + 1}
         /\ \A i \in DOMAIN s : i \in 1..Len(s) /\ Append(s, x)[i] = s[i]
         /\ Append(s, x)[Len(s) + 1] = x
  OBVIOUS

LEMMA AppendSet ==
  ASSUME NEW S, NEW s \in Seq(S), NEW x \in S
  PROVE  /\ ToSet(Append(s, x)) = ToSet(s) \cup {x}
         /\ IsInjective(s) /\ x \notin ToSet(s) => IsInjective(Append(s, x))
<1>1. ToSet(Append(s, x)) = ToSet(s) \cup {x}
  BY AppendFacts DEF ToSet
<1>2. ASSUME IsInjective(s), x \notin ToSet(s) PROVE IsInjective(Append(s, x))
  <2> SUFFICES ASSUME NEW i \in DOMAIN Append(s, x), NEW j \in DOMAIN Append(s, x),
                      Append(s, x)[i] = Append(s, x)[j]
               PROVE  i = j
    BY DEF IsInjective
  <2>1. \A k \in DOMAIN s : s[k] # x
    BY <1>2 DEF ToSet
  <2>2. CASE i \in DOMAIN s /\ j \in DOMAIN s
    BY <1>2, <2>2, AppendFacts DEF IsInjective
  <2>3. CASE i = Len(s) + 1 \/ j = Len(s) + 1
    BY <2>1, <2>3, AppendFacts
  <2> QED BY <2>2, <2>3, AppendFacts
<1> QED BY <1>1, <1>2

LEMMA ConcatFacts ==
  ASSUME NEW S, NEW s \in Seq(S), NEW b \in Seq(S)
  PROVE  /\ s \o b \in Seq(S) /\ s \o <<>> = s
         /\ \A x \in S : s \o Append(b, x) = Append(s \o b, x)
         /\ ToSet(s) \subseteq ToSet(s \o b)
         /\ IsInjective(s \o b) => IsInjective(s)
<1>1. s \o b \in Seq(S) /\ s \o <<>> = s
  OBVIOUS
<1>2. ASSUME NEW x \in S PROVE s \o Append(b, x) = Append(s \o b, x)
  OBVIOUS
<1>3. \A i \in DOMAIN s : i \in DOMAIN (s \o b) /\ (s \o b)[i] = s[i]
  OBVIOUS
<1>4. ToSet(s) \subseteq ToSet(s \o b)
  BY <1>3 DEF ToSet
<1>5. IsInjective(s \o b) => IsInjective(s)
  BY <1>3 DEF IsInjective
<1> QED BY <1>1, <1>2, <1>4, <1>5
-------------------------------------------------------------------------------
LEMMA InitIInv == Init => IInv
<1> SUFFICES ASSUME Init PROVE IInv
  OBVIOUS
<1> USE RecordsAssumption DEF Init
<1>1. TypeOK
  BY DEF TypeOK, Requests, Nothing
<1>2. OwnRequests /\ InOrder
  BY DEF OwnRequests, InOrder, CountedIsRecorded, Busy, Written
<1>3. LinesAreDue
  <2>1. Lines = <<>> /\ DOMAIN Lines = {}
    BY DEF Lines
  <2> QED BY <2>1 DEF LinesAreDue, AccessOnce, Lines, ToSet, IsInjective
<1>4. CountsBeforeSums /\ NoneYounger
  BY DEF CountsBeforeSums, ScrapeIsConsistent, Nothing, NoneYounger, YoungRecordsSurvive
<1> QED BY <1>1, <1>2, <1>3, <1>4 DEF IInv

(* A record that a handler makes. *)
LEMMA RecordType ==
  ASSUME TypeOK, OwnRequests, NEW t \in Threads, pc[t] = "append", NEW whole \in BOOLEAN
  PROVE  Made(t, whole) \in AuditRecord /\ req[t] \in Requests
<1>1. req[t] \in 1..arrived
  BY DEF OwnRequests, Busy
<1>2. req[t] \in Requests /\ at[t] \in 0..MaxTime
  BY <1>1, RecordsAssumption DEF TypeOK, Requests
<1> QED BY <1>2 DEF Made, AuditRecord

(* The types of the files, and those of the counters and the handlers.      *)
Files ==
  /\ buffer \in Seq(Requests) /\ log \in Seq(Requests)
  /\ audit \in Seq(AuditRecord) /\ kept \subseteq AuditRecord

Locals ==
  /\ pc \in [Threads -> {"idle", "render", "sums", "access", "flush",
                         "terminal", "stamp", "append", "observe"}]
  /\ req \in [Threads -> 0..MaxRequests] /\ at \in [Threads -> 0..MaxTime]
  /\ shown \in [Threads -> SUBSET Requests]
  /\ before \in [Threads -> SUBSET Requests]

Handlers ==
  /\ clock \in 0..MaxTime /\ auditM \in 0..clock
  /\ requests \subseteq 1..arrived /\ latency \subseteq 1..arrived
  /\ arrived \in 0..MaxRequests
  /\ Locals
  /\ scraped \in [requests : SUBSET Requests, latency : SUBSET Requests,
                  before : SUBSET Requests]

LEMMA Types == TypeOK <=> Files /\ Handlers
  BY DEF TypeOK, Files, Handlers, Locals

LEMMA NextFiles == TypeOK /\ OwnRequests /\ [Next]_vars => Files'
<1> SUFFICES ASSUME TypeOK, OwnRequests, [Next]_vars PROVE Files'
  OBVIOUS
<1>f. Files
  BY Types
<1>1. ASSUME NEW t \in Threads, Access(t) PROVE Files'
  <2>1. req[t] \in Requests
    BY <1>1, RecordsAssumption DEF Access, OwnRequests, Busy, TypeOK, Requests
  <2>2. buffer' \in Seq(Requests)
    BY <1>1, <1>f, <2>1, AppendFacts DEF Access, Files
  <2> QED BY <1>1, <1>f, <2>2 DEF Access, Files
<1>2. ASSUME NEW t \in Threads, Flush(t) PROVE Files'
  <2>1. log' \in Seq(Requests) /\ buffer' \in Seq(Requests)
    BY <1>2, <1>f, ConcatFacts DEF Flush, Files
  <2> QED BY <1>2, <1>f, <2>1 DEF Flush, Files
<1>3. ASSUME NEW t \in Threads, AppendRecord(t) PROVE Files'
  <2>1. Made(t, TRUE) \in AuditRecord
    BY <1>3, RecordType DEF AppendRecord
  <2>2. audit' \in Seq(AuditRecord)
    BY <1>3, <1>f, <2>1, AppendFacts DEF AppendRecord, Files
  <2> QED BY <1>3, <1>f, <2>1, <2>2 DEF AppendRecord, Files
<1>4. ASSUME NEW t \in Threads, AppendFails(t) PROVE Files'
  <2>1. Made(t, FALSE) \in AuditRecord
    BY <1>4, RecordType DEF AppendFails
  <2>2. audit' \in Seq(AuditRecord)
    <3>1. audit' = audit \/ audit' = Append(audit, Made(t, FALSE))
      BY <1>4 DEF AppendFails
    <3>2. Append(audit, Made(t, FALSE)) \in Seq(AuditRecord)
      BY <1>f, <2>1, AppendFacts DEF Files
    <3> QED BY <1>f, <3>1, <3>2 DEF Files
  <2> QED BY <1>4, <1>f, <2>2 DEF AppendFails, Files
<1>5. CASE Restart
  <2>1. <<>> \in Seq(Requests) /\ <<>> \in Seq(AuditRecord)
    OBVIOUS
  <2> QED BY <1>5, <1>f, <2>1 DEF Restart, Files
<1>6. ASSUME UNCHANGED <<buffer, log, audit, kept>> PROVE Files'
  BY <1>f, <1>6 DEF Files
<1>7. ASSUME NEW t \in Threads, Arrive(t) \/ Render(t) \/ Sums(t) \/ FlushFails(t) \/ Terminal(t)
                                \/ Stamp(t) \/ Observe(t)
      PROVE  Files'
  BY <1>6, <1>7 DEF Arrive, Render, Sums, FlushFails, Terminal, Stamp, Observe, files
<1>8. CASE Tick \/ UNCHANGED vars
  BY <1>6, <1>8 DEF Tick, vars, files
<1> QED BY <1>1, <1>2, <1>3, <1>4, <1>5, <1>7, <1>8 DEF Next, Handle

LEMMA LeaveLocals ==
  ASSUME Locals, NEW t \in Threads, Leave(t)
  PROVE  Locals'
<1>1. 0 \in 0..MaxRequests /\ 0 \in 0..MaxTime
  BY RecordsAssumption
<1>2. req' \in [Threads -> 0..MaxRequests] /\ at' \in [Threads -> 0..MaxTime]
  BY <1>1 DEF Locals, Leave
<1> QED BY <1>2 DEF Locals, Leave, Goto

LEMMA NextHandlers == Handlers /\ OwnRequests /\ [Next]_vars => Handlers'
<1> SUFFICES ASSUME Handlers, OwnRequests, [Next]_vars PROVE Handlers'
  OBVIOUS
<1>l. ASSUME NEW t \in Threads, Leave(t), UNCHANGED <<clock, arrived, scraped>>,
             auditM' \in {auditM, clock},
             requests' \subseteq 1..arrived, latency' \subseteq 1..arrived
      PROVE  Handlers'
  <2>1. Locals'
    BY <1>l, LeaveLocals DEF Handlers, Locals
  <2>2. auditM' \in 0..clock
    BY <1>l DEF Handlers
  <2> QED BY <1>l, <2>1, <2>2 DEF Handlers, Locals
<1> USE RecordsAssumption DEF Handlers, Locals, Requests, Goto, files, counters, local
<1>1. ASSUME NEW t \in Threads, Arrive(t) PROVE Handlers'
  <2>1. arrived' \in 0..MaxRequests /\ arrived' = arrived + 1
    BY <1>1 DEF Arrive
  <2>2. requests' \subseteq 1..arrived' /\ latency' \subseteq 1..arrived'
    BY <1>1, <2>1 DEF Arrive
  <2> QED BY <1>1, <2>1, <2>2 DEF Arrive
<1>2. ASSUME NEW t \in Threads, Render(t) PROVE Handlers'
  <2>1. requests \in SUBSET (1..MaxRequests)
    OBVIOUS
  <2> QED BY <1>2, <2>1 DEF Render
<1>3. ASSUME NEW t \in Threads, Sums(t) PROVE Handlers'
  <2>1. latency \in SUBSET (1..MaxRequests) /\ shown[t] \in SUBSET (1..MaxRequests)
        /\ before[t] \in SUBSET (1..MaxRequests)
    OBVIOUS
  <2>2. scraped' \in [requests : SUBSET (1..MaxRequests), latency : SUBSET (1..MaxRequests),
                      before : SUBSET (1..MaxRequests)]
    BY <1>3, <2>1 DEF Sums
  <2> QED BY <1>3, <2>2 DEF Sums
<1>4. ASSUME NEW t \in Threads, Access(t) \/ Flush(t) PROVE Handlers'
  BY <1>4 DEF Access, Flush
<1>5. ASSUME NEW t \in Threads, FlushFails(t) PROVE Handlers'
  BY <1>l, <1>5 DEF FlushFails
<1>6. ASSUME NEW t \in Threads, Terminal(t) PROVE Handlers'
  <2>1. CASE Leave(t)
    BY <1>l, <1>6, <2>1 DEF Terminal
  <2>2. CASE ~Leave(t)
    BY <1>6, <2>2 DEF Terminal
  <2> QED BY <2>1, <2>2
<1>7. ASSUME NEW t \in Threads, Stamp(t) PROVE Handlers'
  <2>1. at' \in [Threads -> 0..MaxTime]
    BY <1>7 DEF Stamp
  <2> QED BY <1>7, <2>1 DEF Stamp
<1>c. clock \in 0..clock
  OBVIOUS
<1>8. ASSUME NEW t \in Threads, AppendRecord(t) PROVE Handlers'
  <2>1. auditM' \in 0..clock /\ clock' = clock
    BY <1>8, <1>c DEF AppendRecord
  <2> QED BY <1>8, <2>1 DEF AppendRecord
<1>9. ASSUME NEW t \in Threads, AppendFails(t) PROVE Handlers'
  <2>1. auditM' \in {auditM, clock} /\ Leave(t) /\ UNCHANGED <<clock, counters, arrived, scraped>>
    BY <1>9 DEF AppendFails
  <2> QED BY <1>l, <2>1
<1>10. ASSUME NEW t \in Threads, Observe(t) PROVE Handlers'
  <2>1. req[t] \in 1..arrived
    BY <1>10 DEF Observe, OwnRequests, Busy
  <2> QED BY <1>l, <1>10, <2>1 DEF Observe
<1>11. CASE Tick
  BY <1>11 DEF Tick
<1>12. CASE Restart
  <2>1. (auditM' = auditM \/ auditM' = clock) /\ clock' = clock
    BY <1>12 DEF Restart
  <2>2. auditM' \in 0..clock
    BY <2>1, <1>c
  <2> QED BY <1>12, <2>1, <2>2 DEF Restart, Nothing
<1>13. CASE UNCHANGED vars
  BY <1>13 DEF vars
<1> QED BY <1>1, <1>2, <1>3, <1>4, <1>5, <1>6, <1>7, <1>8, <1>9, <1>10, <1>11, <1>12, <1>13
           DEF Next, Handle
-------------------------------------------------------------------------------
(* A step of a handler leaves the others where they are. *)
Others(t) ==
  \A u \in Threads \ {t} : /\ pc'[u] = pc[u] /\ req'[u] = req[u] /\ at'[u] = at[u]
                           /\ shown'[u] = shown[u] /\ before'[u] = before[u]

LEMMA LeaveFacts ==
  ASSUME Locals, NEW t \in Threads, Leave(t)
  PROVE  Others(t) /\ pc'[t] = "idle" /\ req'[t] = 0 /\ at'[t] = 0
  BY DEF Locals, Leave, Goto, Others

LEMMA StepsAlone ==
  ASSUME Locals, NEW t \in Threads, Handle(t)
  PROVE  Others(t)
<1>1. CASE Leave(t)
  BY <1>1, LeaveFacts
<1>2. CASE ~Leave(t)
  BY <1>2 DEF Locals, Others, Handle, Goto, local, Arrive, Render, Sums, Access, Flush, FlushFails,
              Terminal, Stamp, AppendRecord, AppendFails, Observe
<1> QED BY <1>1, <1>2

(* A handler keeps its request until it is over. *)
LEMMA KeepsRequest ==
  ASSUME Locals, NEW t \in Threads, Handle(t), ~Arrive(t)
  PROVE  /\ Busy(t) /\ arrived' = arrived
         /\ pc'[t] = "idle" \/ (req'[t] = req[t] /\ UNCHANGED req)
<1>1. Busy(t) /\ arrived' = arrived
  BY DEF Busy, Handle, Render, Sums, Access, Flush, FlushFails, Terminal, Stamp,
         AppendRecord, AppendFails, Observe
<1>2. CASE Leave(t)
  BY <1>1, <1>2, LeaveFacts
<1>3. CASE ~Leave(t)
  <2>1. UNCHANGED req
    BY <1>3 DEF Handle, local, Render, Sums, Access, Flush, FlushFails, Terminal, Stamp,
                AppendRecord, AppendFails, Observe
  <2> QED BY <1>1, <2>1
<1> QED BY <1>2, <1>3

LEMMA RestartFacts ==
  ASSUME Restart
  PROVE  /\ \A t \in Threads : pc'[t] = "idle" /\ at'[t] = 0
         /\ requests' = {} /\ latency' = {} /\ scraped' = Nothing
         /\ UNCHANGED <<clock, log, arrived, kept>> /\ buffer' = <<>>
  BY DEF Restart

LEMMA NextOwnRequests == Handlers /\ OwnRequests /\ [Next]_vars => OwnRequests'
<1> SUFFICES ASSUME Handlers, OwnRequests, [Next]_vars PROVE OwnRequests'
  OBVIOUS
<1>t. Locals /\ arrived \in Nat
  BY RecordsAssumption DEF Handlers
<1>1. ASSUME NEW t \in Threads, Arrive(t) PROVE OwnRequests'
  <2>1. Others(t) /\ arrived' = arrived + 1 /\ req'[t] = arrived + 1
    BY <1>t, <1>1, StepsAlone DEF Handle, Arrive, Locals
  <2> QED BY <1>t, <2>1 DEF OwnRequests, Busy, Others
<1>2. ASSUME NEW t \in Threads, Handle(t), ~Arrive(t) PROVE OwnRequests'
  <2>1. Others(t) /\ Busy(t) /\ arrived' = arrived /\ (pc'[t] = "idle" \/ req'[t] = req[t])
    BY <1>t, <1>2, StepsAlone, KeepsRequest
  <2> QED BY <2>1 DEF OwnRequests, Busy, Others
<1>3. CASE Restart
  BY <1>3, RestartFacts DEF OwnRequests, Busy
<1>4. CASE Tick \/ UNCHANGED vars
  BY <1>4 DEF Tick, vars, local, OwnRequests, Busy
<1> QED BY <1>1, <1>2, <1>3, <1>4 DEF Next
-------------------------------------------------------------------------------
(* The places before and after the write of the line. *)
Past(t) == pc[t] \in {"flush", "terminal", "stamp", "append", "observe"}

LEMMA PlaceFacts ==
  ASSUME Locals, NEW t \in Threads, Handle(t), ~Arrive(t), ~Access(t)
  PROVE  /\ Unwritten(t)' => Unwritten(t)
         /\ Past(t)' => Past(t)
         /\ Written(t)' => Written(t) \/ Flush(t)
<1>1. CASE Leave(t)
  <2>1. pc'[t] = "idle"
    BY <1>1, LeaveFacts
  <2> QED BY <2>1 DEF Unwritten, Past, Written
<1>2. CASE ~Leave(t)
  BY <1>2 DEF Locals, Unwritten, Past, Written, Handle, Goto, Render, Sums, Flush, FlushFails,
              Terminal, Stamp, AppendRecord, AppendFails, Observe
<1> QED BY <1>1, <1>2

LEMMA LinesKept ==
  ASSUME Files, NEW t \in Threads, Handle(t), ~Access(t)
  PROVE  Lines' = Lines
<1>1. CASE Flush(t)
  <2>1. log \o buffer \in Seq(Requests)
    BY ConcatFacts DEF Files
  <2>2. Lines' = (log \o buffer) \o <<>>
    BY <1>1 DEF Lines, Flush
  <2> QED BY <2>1, <2>2, ConcatFacts DEF Lines
<1>2. CASE ~Flush(t)
  <2>1. UNCHANGED <<log, buffer>>
    BY <1>2 DEF Handle, files, Arrive, Render, Sums, FlushFails, Terminal, Stamp,
                AppendRecord, AppendFails, Observe
  <2> QED BY <2>1 DEF Lines
<1> QED BY <1>1, <1>2

LEMMA Due ==
  LinesAreDue <=> /\ ToSet(Lines) \subseteq 1..arrived
                  /\ IsInjective(Lines)
                  /\ \A t \in Threads : Unwritten(t) => req[t] \notin ToSet(Lines)
                  /\ \A t \in Threads : Past(t) => req[t] \in ToSet(Lines)
  BY DEF LinesAreDue, AccessOnce, Lines, Past

LEMMA NextLinesAreDue ==
  Files /\ Handlers /\ OwnRequests /\ LinesAreDue /\ [Next]_vars => LinesAreDue'
<1> SUFFICES ASSUME Files, Handlers, OwnRequests, LinesAreDue, [Next]_vars PROVE LinesAreDue'
  OBVIOUS
<1>t. Locals /\ arrived \in Nat
  BY RecordsAssumption DEF Handlers
<1>q. log \o buffer \in Seq(Requests) /\ Lines \in Seq(Requests)
  BY ConcatFacts DEF Files, Lines
<1>d. /\ ToSet(Lines) \subseteq 1..arrived
      /\ IsInjective(Lines)
      /\ \A t \in Threads : Unwritten(t) => req[t] \notin ToSet(Lines)
      /\ \A t \in Threads : Past(t) => req[t] \in ToSet(Lines)
  BY Due
<1>e. ASSUME ToSet(Lines)' \subseteq 1..arrived', IsInjective(Lines)',
             \A t \in Threads : Unwritten(t)' => req'[t] \notin ToSet(Lines)',
             \A t \in Threads : Past(t)' => req'[t] \in ToSet(Lines)'
      PROVE  LinesAreDue'
  BY <1>e DEF LinesAreDue, AccessOnce, Lines, Past
<1>s. ASSUME Lines' = Lines
      PROVE  ToSet(Lines)' = ToSet(Lines) /\ IsInjective(Lines)' = IsInjective(Lines)
  BY <1>s
<1>1. ASSUME NEW t \in Threads, Arrive(t) PROVE LinesAreDue'
  <2>1. Others(t) /\ arrived' = arrived + 1 /\ req'[t] = arrived + 1 /\ Unwritten(t)'
    BY <1>t, <1>1, StepsAlone DEF Handle, Arrive, Locals, Unwritten, Goto
  <2>2. Lines' = Lines
    BY <1>1 DEF Arrive, files, Lines
  <2>3. \A u \in Threads : Past(u)' => u # t
    BY <2>1 DEF Past, Unwritten
  <2>4. \A u \in Threads : Past(u)' => req'[u] \in ToSet(Lines)
    BY <1>d, <2>1, <2>3 DEF Past, Others
  <2>5. req'[t] \notin ToSet(Lines)
    BY <1>t, <1>d, <2>1
  <2>6. \A u \in Threads : Unwritten(u)' => req'[u] \notin ToSet(Lines)
    BY <1>d, <2>1, <2>5 DEF Unwritten, Others
  <2> QED BY <1>t, <1>d, <1>e, <1>s, <2>1, <2>2, <2>4, <2>6
<1>2. ASSUME NEW t \in Threads, Access(t) PROVE LinesAreDue'
  <2>1. Others(t) /\ arrived' = arrived /\ req' = req /\ pc[t] = "access" /\ pc'[t] = "flush"
    BY <1>t, <1>2, StepsAlone DEF Handle, Access, Locals, Goto, local
  <2>2. req[t] \in 1..arrived /\ req[t] \in Requests
    BY <1>t, <2>1, RecordsAssumption DEF OwnRequests, Busy, Handlers, Requests
  <2>3. Lines' = Append(Lines, req[t])
    BY <1>2, <2>2, ConcatFacts DEF Access, Files, Lines
  <2>4. req[t] \notin ToSet(Lines)
    BY <1>d, <2>1 DEF Unwritten
  <2>5. ToSet(Lines)' = ToSet(Lines) \cup {req[t]} /\ IsInjective(Lines)'
    BY <1>q, <1>d, <2>2, <2>3, <2>4, AppendSet
  <2>6. \A u \in Threads : Unwritten(u)' => u # t /\ Unwritten(u) /\ req[u] # req[t]
    BY <2>1 DEF Unwritten, Others, OwnRequests, Busy
  <2>7. \A u \in Threads : Past(u)' => u = t \/ Past(u)
    BY <2>1 DEF Past, Others
  <2> QED BY <1>d, <1>e, <2>1, <2>2, <2>5, <2>6, <2>7
<1>3. ASSUME NEW t \in Threads, Handle(t), ~Arrive(t), ~Access(t) PROVE LinesAreDue'
  <2>1. Others(t) /\ arrived' = arrived /\ (pc'[t] = "idle" \/ req'[t] = req[t])
    BY <1>t, <1>3, StepsAlone, KeepsRequest
  <2>2. Lines' = Lines
    BY <1>3, LinesKept
  <2>3. (Unwritten(t)' => Unwritten(t)) /\ (Past(t)' => Past(t))
    BY <1>t, <1>3, PlaceFacts
  <2>4. \A u \in Threads : Unwritten(u)' => Unwritten(u) /\ req'[u] = req[u]
    BY <2>1, <2>3 DEF Unwritten, Others
  <2>5. \A u \in Threads : Past(u)' => Past(u) /\ req'[u] = req[u]
    BY <2>1, <2>3 DEF Past, Others
  <2> QED BY <1>d, <1>e, <1>s, <2>1, <2>2, <2>4, <2>5
<1>4. CASE Restart
  <2>1. \A u \in Threads : ~Past(u)' /\ ~Unwritten(u)'
    BY <1>4, RestartFacts DEF Past, Unwritten
  <2>2. Lines' = log /\ arrived' = arrived
    BY <1>4, RestartFacts, ConcatFacts DEF Lines, Files
  <2>3. ToSet(log) \subseteq ToSet(Lines) /\ IsInjective(log)
    BY <1>d, ConcatFacts DEF Lines, Files
  <2>4. ToSet(Lines)' = ToSet(log) /\ IsInjective(Lines)'
    BY <2>2, <2>3
  <2> QED BY <1>d, <1>e, <2>1, <2>2, <2>3, <2>4
<1>5. CASE Tick \/ UNCHANGED vars
  <2>1. UNCHANGED <<pc, req, arrived, log, buffer>>
    BY <1>5 DEF Tick, vars, local, files
  <2> QED BY <1>d, <1>e, <1>s, <2>1 DEF Past, Unwritten, Lines
<1> QED BY <1>1, <1>2, <1>3, <1>4, <1>5 DEF Next
-------------------------------------------------------------------------------
(* The log and the record of what was appended only grow. *)
LEMMA LogGrows ==
  ASSUME Files, [Next]_vars
  PROVE  ToSet(log) \subseteq ToSet(log') /\ kept \subseteq kept'
<1>1. ASSUME NEW t \in Threads, Flush(t) PROVE ToSet(log) \subseteq ToSet(log') /\ kept \subseteq kept'
  <2>1. log' = log \o buffer /\ kept' = kept
    BY <1>1 DEF Flush
  <2> QED BY <2>1, ConcatFacts DEF Files
<1>2. ASSUME NEW t \in Threads, Handle(t), ~Flush(t) PROVE log' = log /\ kept \subseteq kept'
  BY <1>2 DEF Handle, files, Arrive, Render, Sums, Access, FlushFails, Terminal, Stamp,
              AppendRecord, AppendFails, Observe
<1>3. CASE Tick \/ Restart \/ UNCHANGED vars
  <2>1. log' = log /\ kept' = kept
    BY <1>3 DEF Tick, Restart, vars, files
  <2> QED BY <2>1
<1> QED BY <1>1, <1>2, <1>3 DEF Next

(* Only observe() counts a request, and only a successful append leads there. *)
LEMMA CountFacts ==
  ASSUME Handlers, NEW t \in Threads, Handle(t), ~Observe(t)
  PROVE  requests' = requests /\ latency' = latency
  BY DEF Handle, counters, Arrive, Render, Sums, Access, Flush, FlushFails, Terminal, Stamp,
         AppendRecord, AppendFails

LEMMA ObserveFacts ==
  ASSUME Locals, NEW t \in Threads, Handle(t), pc'[t] = "observe"
  PROVE  AppendRecord(t)
<1>1. ~Leave(t)
  BY LeaveFacts
<1> QED BY <1>1 DEF Locals, Handle, Goto, Arrive, Render, Sums, Access, Flush, FlushFails,
                    Terminal, Stamp, AppendFails, Observe

LEMMA NextInOrder ==
  /\ Files /\ Handlers /\ OwnRequests /\ LinesAreDue /\ InOrder
  /\ [Next]_vars
  => InOrder'
<1> SUFFICES ASSUME Files, Handlers, OwnRequests, LinesAreDue, InOrder, [Next]_vars PROVE InOrder'
  OBVIOUS
<1>t. Locals
  BY DEF Handlers
<1>g. ToSet(log) \subseteq ToSet(log') /\ kept \subseteq kept'
  BY LogGrows
<1>i. /\ \A t \in Threads : Written(t) => req[t] \in ToSet(log)
      /\ \A t \in Threads : pc[t] = "observe" => \E rec \in kept : rec.req = req[t]
      /\ \A r \in requests : r \in ToSet(log) /\ \E rec \in kept : rec.req = r
  BY DEF InOrder, CountedIsRecorded
<1>e. ASSUME \A t \in Threads : Written(t)' => req'[t] \in ToSet(log'),
             \A t \in Threads : pc'[t] = "observe" => \E rec \in kept' : rec.req = req'[t],
             \A r \in requests' : r \in ToSet(log') /\ \E rec \in kept' : rec.req = r
      PROVE  InOrder'
  BY <1>e DEF InOrder, CountedIsRecorded
<1>1. ASSUME NEW t \in Threads, Handle(t) PROVE InOrder'
  <2>o. Others(t)
    BY <1>t, <1>1, StepsAlone
  <2>1. ASSUME Written(t)' PROVE req'[t] \in ToSet(log')
    <3>0. pc'[t] # "idle" /\ ~Unwritten(t)' /\ pc'[t] # "flush"
      BY <2>1 DEF Written, Unwritten
    <3>1. ~Arrive(t) /\ ~Access(t)
      BY <3>0, <1>t DEF Arrive, Access, Locals, Goto, Unwritten
    <3>2. req'[t] = req[t] /\ (Written(t) \/ Flush(t))
      BY <1>t, <1>1, <2>1, <3>0, <3>1, KeepsRequest, PlaceFacts
    <3>3. CASE Flush(t)
      <4>1. log' = Lines /\ Past(t)
        BY <3>3 DEF Flush, Lines, Past
      <4>2. req[t] \in ToSet(Lines)
        BY <4>1, Due
      <4> QED BY <3>2, <4>1, <4>2
    <3> QED BY <1>g, <1>i, <3>2, <3>3
  <2>2. ASSUME pc'[t] = "observe" PROVE \E rec \in kept' : rec.req = req'[t]
    <3>1. AppendRecord(t)
      BY <1>t, <1>1, <2>2, ObserveFacts
    <3>2. Made(t, TRUE) \in kept' /\ req'[t] = req[t]
      BY <3>1 DEF AppendRecord, local
    <3>3. Made(t, TRUE).req = req[t]
      BY DEF Made
    <3> QED BY <3>2, <3>3
  <2>3. ASSUME NEW r \in requests' PROVE r \in ToSet(log') /\ \E rec \in kept' : rec.req = r
    <3>1. CASE Observe(t)
      <4>1. Written(t) /\ pc[t] = "observe" /\ requests' = requests \cup {req[t]}
        BY <3>1 DEF Observe, Written
      <4> QED BY <1>g, <1>i, <2>3, <4>1
    <3>2. CASE ~Observe(t)
      BY <1>1, <1>g, <1>i, <2>3, <3>2, CountFacts
    <3> QED BY <3>1, <3>2
  <2>4. ASSUME NEW u \in Threads, u # t, Written(u)' PROVE req'[u] \in ToSet(log')
    BY <1>g, <1>i, <2>o, <2>4 DEF Written, Others
  <2>5. ASSUME NEW u \in Threads, u # t, pc'[u] = "observe"
        PROVE  \E rec \in kept' : rec.req = req'[u]
    BY <1>g, <1>i, <2>o, <2>5 DEF Others
  <2> QED BY <1>e, <2>1, <2>2, <2>3, <2>4, <2>5
<1>2. CASE Restart
  <2>1. \A t \in Threads : ~Written(t)' /\ pc'[t] # "observe"
    BY <1>2, RestartFacts DEF Written
  <2> QED BY <1>2, <1>e, <2>1, RestartFacts
<1>3. CASE Tick \/ UNCHANGED vars
  <2>1. UNCHANGED <<pc, req, log, kept, requests>>
    BY <1>3 DEF Tick, vars, local, files, counters
  <2> QED BY <1>i, <1>e, <2>1 DEF Written
<1> QED BY <1>1, <1>2, <1>3 DEF Next

LEMMA NextCountsBeforeSums ==
  Handlers /\ CountsBeforeSums /\ [Next]_vars => CountsBeforeSums'
<1> SUFFICES ASSUME Handlers, CountsBeforeSums, [Next]_vars PROVE CountsBeforeSums'
  OBVIOUS
<1>t. Locals
  BY DEF Handlers
<1>i. /\ requests \subseteq latency
      /\ \A t \in Threads : pc[t] = "sums" => before[t] \subseteq shown[t] /\ shown[t] \subseteq requests
      /\ scraped.before \subseteq scraped.requests /\ scraped.requests \subseteq scraped.latency
  BY DEF CountsBeforeSums, ScrapeIsConsistent
<1>e. ASSUME requests' \subseteq latency', requests \subseteq requests', scraped' = scraped,
             NEW t \in Threads, Others(t),
             pc'[t] = "sums" => before'[t] \subseteq shown'[t] /\ shown'[t] \subseteq requests'
      PROVE  CountsBeforeSums'
  BY <1>i, <1>e DEF CountsBeforeSums, ScrapeIsConsistent, Others
<1>1. ASSUME NEW t \in Threads, Render(t) PROVE CountsBeforeSums'
  <2>1. requests' = requests /\ latency' = latency /\ scraped' = scraped /\ Others(t)
    BY <1>t, <1>1, StepsAlone DEF Render, Handle, counters
  <2>2. before'[t] = requests /\ shown'[t] = requests
    BY <1>t, <1>1 DEF Render, Locals
  <2> QED BY <1>i, <1>e, <2>1, <2>2
<1>2. ASSUME NEW t \in Threads, Sums(t) PROVE CountsBeforeSums'
  <2>1. /\ requests' = requests /\ latency' = latency /\ Others(t) /\ pc'[t] # "sums" /\ pc[t] = "sums"
        /\ scraped' = [requests |-> shown[t], latency |-> latency, before |-> before[t]]
    BY <1>t, <1>2, StepsAlone DEF Sums, Handle, counters, Goto, Locals
  <2>2. scraped'.before \subseteq scraped'.requests /\ scraped'.requests \subseteq scraped'.latency
    BY <1>i, <2>1
  <2> QED BY <1>i, <2>1, <2>2 DEF CountsBeforeSums, ScrapeIsConsistent, Others
<1>3. ASSUME NEW t \in Threads, Handle(t), ~Render(t), ~Sums(t) PROVE CountsBeforeSums'
  <2>1. Others(t) /\ pc'[t] # "sums" /\ scraped' = scraped
    <3>1. Others(t)
      BY <1>t, <1>3, StepsAlone
    <3>2. scraped' = scraped
      BY <1>3 DEF Handle, Arrive, Access, Flush, FlushFails, Terminal, Stamp, AppendRecord, AppendFails, Observe
    <3>3. CASE Leave(t)
      BY <1>t, <3>1, <3>2, <3>3, LeaveFacts
    <3>4. CASE ~Leave(t)
      BY <1>t, <1>3, <3>1, <3>2, <3>4 DEF Handle, Goto, Locals, Arrive, Access, Flush, FlushFails,
                          Terminal, Stamp, AppendRecord, AppendFails, Observe
    <3> QED BY <3>3, <3>4
  <2>2. requests' \subseteq latency' /\ requests \subseteq requests'
    <3>1. CASE Observe(t)
      BY <1>i, <3>1 DEF Observe
    <3> QED BY <1>3, <1>i, <3>1, CountFacts
  <2> QED BY <1>e, <2>1, <2>2
<1>4. CASE Restart
  <2>1. scraped' = Nothing /\ requests' = {} /\ \A t \in Threads : pc'[t] # "sums"
    BY <1>4, RestartFacts
  <2> QED BY <2>1 DEF CountsBeforeSums, ScrapeIsConsistent, Nothing
<1>5. CASE Tick \/ UNCHANGED vars
  <2>1. UNCHANGED <<pc, shown, before, requests, latency, scraped>>
    BY <1>5 DEF Tick, vars, local, counters
  <2> QED BY <1>i, <2>1 DEF CountsBeforeSums, ScrapeIsConsistent
<1> QED BY <1>1, <1>2, <1>3, <1>4, <1>5 DEF Next
-------------------------------------------------------------------------------
(* An append leaves the records of the file where they were, and its own     *)
(* record, if it is whole, is on a line of its own or on that of a torn one. *)
LEMMA FileGrows ==
  ASSUME audit \in Seq(AuditRecord), NEW rec \in AuditRecord, audit' = Append(audit, rec)
  PROVE  /\ Readable \cup Glued \subseteq (Readable \cup Glued)'
         /\ rec.whole => rec \in (Readable \cup Glued)'
<1>1. /\ DOMAIN audit' = DOMAIN audit \cup {Len(audit) + 1}
      /\ \A i \in DOMAIN audit : i \in 1..Len(audit) /\ audit'[i] = audit[i]
      /\ audit'[Len(audit) + 1] = rec /\ Len(audit) \in Nat /\ DOMAIN audit = 1..Len(audit)
  BY AppendFacts
<1>2. \A i \in DOMAIN audit : i - 1 \in DOMAIN audit \/ i = 1
  BY <1>1
<1>3. ASSUME NEW r \in Readable PROVE r \in Readable'
  <2>1. PICK i \in DOMAIN audit : audit[i].whole /\ (i = 1 \/ audit[i - 1].whole) /\ r = audit[i]
    BY <1>3 DEF Readable
  <2>2. i \in DOMAIN audit' /\ audit'[i] = audit[i] /\ (i = 1 \/ audit'[i - 1] = audit[i - 1])
    BY <1>1, <1>2
  <2> QED BY <2>1, <2>2 DEF Readable
<1>4. ASSUME NEW r \in Glued PROVE r \in Glued'
  <2>1. PICK i \in DOMAIN audit \ {1} : ~audit[i - 1].whole /\ r = audit[i]
    BY <1>4 DEF Glued
  <2>2. i \in DOMAIN audit' \ {1} /\ audit'[i] = audit[i] /\ audit'[i - 1] = audit[i - 1]
    BY <1>1, <1>2
  <2> QED BY <2>1, <2>2 DEF Glued
<1>5. ASSUME rec.whole PROVE rec \in (Readable \cup Glued)'
  <2> DEFINE n == Len(audit) + 1
  <2>1. n \in DOMAIN audit' /\ audit'[n] = rec
    BY <1>1
  <2>2. CASE n = 1 \/ audit'[n - 1].whole
    BY <1>5, <2>1, <2>2 DEF Readable
  <2>3. CASE n # 1 /\ ~audit'[n - 1].whole
    BY <2>1, <2>3 DEF Glued
  <2> QED BY <2>2, <2>3
<1> QED BY <1>3, <1>4, <1>5

LEMMA NextTimestamps ==
  /\ Handlers /\ \A t \in Threads : at[t] <= clock
  /\ [Next]_vars
  => \A t \in Threads : at'[t] <= clock'
<1> SUFFICES ASSUME Handlers, \A t \in Threads : at[t] <= clock, [Next]_vars,
                    NEW u \in Threads
             PROVE  at'[u] <= clock'
  OBVIOUS
<1>t. Locals /\ clock \in Nat /\ at[u] \in Nat
  BY RecordsAssumption DEF Handlers, Locals
<1>1. ASSUME NEW t \in Threads, Handle(t) PROVE at'[u] <= clock'
  <2>1. Others(t) /\ clock' = clock
    BY <1>t, <1>1, StepsAlone DEF Handle, Arrive, Render, Sums, Access, Flush, FlushFails, Terminal,
                                  Stamp, AppendRecord, AppendFails, Observe
  <2>2. at'[t] \in {0, clock, at[t]}
    <3>1. CASE Leave(t)
      BY <1>t, <3>1, LeaveFacts
    <3>2. CASE ~Leave(t)
      BY <1>t, <1>1, <3>2 DEF Handle, Locals, local, Arrive, Render, Sums, Access, Flush, FlushFails,
                              Terminal, Stamp, AppendRecord, AppendFails, Observe
    <3> QED BY <3>1, <3>2
  <2> QED BY <1>t, <2>1, <2>2 DEF Others
<1>2. CASE Restart
  BY <1>t, <1>2, RestartFacts
<1>3. CASE Tick \/ UNCHANGED vars
  <2>1. at' = at /\ clock' \in {clock, clock + 1}
    BY <1>3 DEF Tick, vars, local
  <2> QED BY <1>t, <2>1
<1> QED BY <1>1, <1>2, <1>3 DEF Next

LEMMA NextNoneYounger ==
  /\ Files /\ Handlers /\ OwnRequests /\ NoneYounger
  /\ [Next]_vars
  => NoneYounger'
<1> SUFFICES ASSUME Files, Handlers, OwnRequests, NoneYounger, [Next]_vars PROVE NoneYounger'
  OBVIOUS
<1>t. /\ clock \in Int /\ auditM \in Int /\ auditM <= clock /\ Retention \in Int
      /\ \A r \in AuditRecord : r.at \in Int
      /\ kept \subseteq AuditRecord /\ audit \in Seq(AuditRecord)
  BY RecordsAssumption DEF Handlers, Files, AuditRecord
<1>i. /\ \A t \in Threads : at[t] <= clock
      /\ \A r \in kept : r.at <= auditM
      /\ \A r \in kept : clock - r.at <= Retention => r \in Readable \cup Glued
  BY DEF NoneYounger, YoungRecordsSurvive
<1>a. \A t \in Threads : at'[t] <= clock'
  BY <1>i, NextTimestamps
<1>e. ASSUME \A r \in kept' : r.at <= auditM',
             \A r \in kept' : clock' - r.at <= Retention => r \in (Readable \cup Glued)'
      PROVE  NoneYounger'
  BY <1>a, <1>e DEF NoneYounger, YoungRecordsSurvive
<1>s. ASSUME audit' = audit PROVE (Readable \cup Glued)' = Readable \cup Glued
  BY <1>s DEF Readable, Glued
<1>1. ASSUME NEW t \in Threads, AppendRecord(t) PROVE NoneYounger'
  <2>1. /\ audit' = Append(audit, Made(t, TRUE)) /\ auditM' = clock /\ clock' = clock
        /\ kept' = kept \cup {Made(t, TRUE)} /\ pc[t] = "append"
    BY <1>1 DEF AppendRecord
  <2>2. Made(t, TRUE) \in AuditRecord
    BY <2>1, RecordType, Types
  <2>3. Made(t, TRUE).at = at[t] /\ Made(t, TRUE).whole
    BY DEF Made
  <2>4. Readable \cup Glued \subseteq (Readable \cup Glued)' /\ Made(t, TRUE) \in (Readable \cup Glued)'
    BY <1>t, <2>1, <2>2, <2>3, FileGrows
  <2>5. \A r \in kept' : r.at <= auditM'
    <3>1. at[t] <= clock
      BY <1>i
    <3>2. \A r \in kept : r.at <= clock
      BY <1>t, <1>i
    <3> QED BY <2>1, <2>3, <3>1, <3>2
  <2> QED BY <1>i, <1>e, <2>1, <2>4, <2>5
<1>2. ASSUME NEW t \in Threads, AppendFails(t) PROVE NoneYounger'
  <2>1. clock' = clock /\ kept' = kept /\ pc[t] = "append"
    BY <1>2 DEF AppendFails
  <2>2. CASE UNCHANGED <<audit, auditM>>
    BY <1>i, <1>e, <1>s, <2>1, <2>2
  <2>3. CASE audit' = Append(audit, Made(t, FALSE)) /\ auditM' = clock
    <3>1. Made(t, FALSE) \in AuditRecord
      BY <2>1, RecordType, Types
    <3>2. Readable \cup Glued \subseteq (Readable \cup Glued)'
      BY <1>t, <2>3, <3>1, FileGrows
    <3>3. \A r \in kept' : r.at <= auditM'
      BY <1>t, <1>i, <2>1, <2>3
    <3> QED BY <1>i, <1>e, <2>1, <3>2, <3>3
  <2> QED BY <1>2, <2>2, <2>3 DEF AppendFails
<1>3. CASE Restart
  <2>1. clock' = clock /\ kept' = kept
    BY <1>3, RestartFacts
  <2>2. CASE Expired
    <3>1. auditM' = clock
      BY <1>3, <2>2 DEF Restart
    <3>2. \A r \in kept : r.at <= clock /\ ~(clock - r.at <= Retention)
      BY <1>t, <1>i, <2>2 DEF Expired
    <3> QED BY <1>e, <2>1, <3>1, <3>2
  <2>3. CASE ~Expired
    <3>1. audit' = audit /\ auditM' = auditM
      BY <1>3, <2>3 DEF Restart
    <3> QED BY <1>i, <1>e, <1>s, <2>1, <3>1
  <2> QED BY <2>2, <2>3
<1>4. CASE Tick
  <2>1. audit' = audit /\ auditM' = auditM /\ kept' = kept /\ clock' = clock + 1
    BY <1>4 DEF Tick, files
  <2>2. \A r \in kept : clock' - r.at <= Retention => clock - r.at <= Retention
    BY <1>t, <2>1
  <2> QED BY <1>i, <1>e, <1>s, <2>1, <2>2
<1>5. ASSUME UNCHANGED <<clock, audit, auditM, kept>> PROVE NoneYounger'
  BY <1>i, <1>e, <1>s, <1>5
<1>6. ASSUME NEW t \in Threads, Handle(t), ~AppendRecord(t), ~AppendFails(t) PROVE NoneYounger'
  BY <1>5, <1>6 DEF Handle, files, Arrive, Render, Sums, Access, Flush, FlushFails, Terminal,
                    Stamp, Observe
<1>7. CASE UNCHANGED vars
  BY <1>5, <1>7 DEF vars, files
<1> QED BY <1>1, <1>2, <1>3, <1>4, <1>6, <1>7 DEF Next
-------------------------------------------------------------------------------
LEMMA NextIInv == IInv /\ [Next]_vars => IInv'
<1> SUFFICES ASSUME IInv, [Next]_vars PROVE IInv'
  OBVIOUS
<1>1. Files /\ Handlers /\ OwnRequests /\ LinesAreDue /\ InOrder /\ CountsBeforeSums /\ NoneYounger
  BY Types DEF IInv
<1>2. Files' /\ Handlers'
  BY <1>1, NextFiles, NextHandlers DEF IInv
<1>3. TypeOK'
  BY <1>2 DEF TypeOK, Files, Handlers, Locals
<1>4. OwnRequests' /\ LinesAreDue' /\ InOrder'
  BY <1>1, NextOwnRequests, NextLinesAreDue, NextInOrder
<1>5. CountsBeforeSums' /\ NoneYounger'
  BY <1>1, NextCountsBeforeSums, NextNoneYounger
<1> QED BY <1>3, <1>4, <1>5 DEF IInv

LEMMA Invariance == Spec => []IInv
  BY InitIInv, NextIInv, PTL DEF Spec

(* The types of the files, the counters and the handlers. *)
THEOREM TypeCorrect == Spec => []TypeOK
<1>1. IInv => TypeOK
  BY DEF IInv
<1> QED BY <1>1, Invariance, PTL

(* A record whose append succeeded is in the audit file until it is older   *)
(* than the retention, however late its handler and whenever a restart      *)
(* looks at the file's age (audit.py:17-37).                                *)
THEOREM YoungSurvive == Spec => []YoungRecordsSurvive
<1>1. IInv => YoungRecordsSurvive
  BY DEF IInv, NoneYounger
<1> QED BY <1>1, Invariance, PTL

(* What the counters include has its line and its record (server.py:179-213). *)
THEOREM CountedRecorded == Spec => []CountedIsRecorded
<1>1. IInv => CountedIsRecorded
  BY DEF IInv, InOrder
<1> QED BY <1>1, Invariance, PTL

(* A rendering misses nothing counted before it, and its sums cover what it *)
(* counts (metrics.py:17-36).                                               *)
THEOREM ScrapeConsistent == Spec => []ScrapeIsConsistent
<1>1. IInv => ScrapeIsConsistent
  BY DEF IInv, CountsBeforeSums
<1> QED BY <1>1, Invariance, PTL

(* Each handler's line is written once, by its own flush or by another's    *)
(* (logging.py:47-52).                                                      *)
THEOREM OneLineEach == Spec => []AccessOnce
<1>1. IInv => AccessOnce
  BY DEF IInv, LinesAreDue
<1> QED BY <1>1, Invariance, PTL
===============================================================================
