----------------------------- MODULE GatewayProofs -----------------------------
(***************************************************************************)
(* For any requests, any codes of the backend and any settings: the        *)
(* records of a request tell what its client was told, quota is charged    *)
(* only when it is due, and a backend gets no secret of a client.          *)
(***************************************************************************)
EXTENDS Gateway, TLAPS

(* The stages in front of the limiter, those after it, the writing of the   *)
(* response, and the records.                                               *)
Early == {"dispatch", "admin", "body", "authenticate", "route", "endpoint", "limiter"}
Late == {"limits", "forward", "receive", "respond"}
Writing == {"headers", "content"}
Recording == {"access", "audit", "metrics", "end"}

(* What a write to a client that is gone raises. *)
Failed == {"OSError", "TimeoutError"}

(* Nothing is recorded before the records are due; a response is written    *)
(* with the status of the request, which the endpoint for keys returns at   *)
(* its end; and only a failed write leads from one response to another.     *)
Truth ==
  /\ pc \notin Recording => access = None /\ audit = None /\ metrics = None /\ ~whole
  /\ access \in {status, None} /\ audit \in {status, None} /\ metrics \in {status, None}
  /\ pc \in Early \cup Late => raised = None /\ code = None /\ sent = None
  /\ pc \in Writing => /\ code # None
                       /\ status = code \/ (IsAdmin /\ raised = None)
                       /\ raised \in Failed => code = Clause[raised]
  /\ pc \in {"headers", "except"} /\ sent # None => ~client /\ raised \in Failed
  /\ pc = "content" => /\ client => sent = code
                       /\ sent # None => sent = code \/ raised \in Failed
  /\ pc \in Recording => /\ whole => sent # None /\ sent = status
                         /\ sent # None => status \in {sent, 502, 504}

(* What has been established of a request when it is at a stage. *)
Progress ==
  /\ pc \in Early \cup Late \cup Writing \cup Recording \cup {"except"}
  /\ pc = "except" => raised \in Exceptions
  /\ pc = "admin" => IsAdmin
  /\ pc \in Early => charged = {}
  /\ pc \in Early \cup {"limits", "forward"} => forwarded = None
  /\ pc \in {"receive", "respond"} => forwarded # None
  /\ pc \in (Early \cup Late) \ {"dispatch", "admin", "body"} => Parsed
  /\ pc \in {"route", "endpoint", "limiter"} \cup Late =>
       principal = Supplied /\ (principal = "token" => request.authorization = "token")
  /\ pc \in {"endpoint", "limiter"} \cup Late => routed
  /\ pc \in Late => charged = Quotas

(* The request that was counted and not forwarded ends in one of few ways.  *)
Charged ==
  /\ forwarded # None => charged = Quotas
  /\ charged # {} => routed /\ principal = Supplied
                     /\ (principal = "token" => request.authorization = "token")
  /\ charged # {} /\ pc = "except" => raised \in {"TimeoutError", "OSError", "other"}
  /\ forwarded = None =>
       \A s \in {code, sent} : /\ s \in {401, 403, 413} => charged = {}
                               /\ s = 429 => "day" \notin charged

(* A client that is still there when the records are due has its answer.    *)
Answered == pc \in Recording /\ client => whole \/ raised = "other"

(* The records that are configured are made in this order, and each only    *)
(* after the one before it.                                                 *)
Recorded ==
  /\ pc \in {"audit", "metrics"} /\ AccessLog => access # None
  /\ pc = "metrics" /\ AuditFile => audit # None
  /\ EveryEndIsRecorded

(* What was sent to the backend. *)
Private == BackendSeesNoSecret

IInv == TypeOK /\ Truth /\ Progress /\ Charged /\ Answered /\ Recorded /\ Private

(* The codes of the clauses. *)
LEMMA Clauses ==
  /\ \A e \in DOMAIN Clause : Clause[e] \in Status /\ Clause[e] \notin {401, 429}
  /\ Clause["TimeoutError"] = 504 /\ Clause["OSError"] = 502
  /\ Clause.TimeoutError = 504 /\ Clause.OSError = 502
  /\ Failed \subseteq DOMAIN Clause /\ \A e \in Exceptions \ DOMAIN Clause : e = "other"
  /\ "other" \notin DOMAIN Clause
  BY DEF Clause, Status, Failed, Exceptions

(* The codes are numbers, and None is no number. *)
LEMMA Codes ==
  /\ \A s \in Status : s # None
  /\ \A s \in KnownCodes : s \in Status
  /\ {200, 201, 400, 401, 403, 404, 405, 413, 429, 500} \subseteq Status
  BY GatewayAssumption DEF Status

(* A body that was parsed is sent redacted, if redaction is due, or not at  *)
(* all; and no credential is among the headers.                             *)
LEMMA OutgoingIsPrivate ==
  ASSUME Parsed
  PROVE  /\ Outgoing.headers \cap Sensitive = {}
         /\ redact /\ Redaction => Outgoing.body \in {None, "redacted"}
  BY DEF Parsed, Outgoing, ForwardHeaders, Redacted

(* Something was sent. *)
LEMMA OutgoingIsSent ==
  ASSUME Locals
  PROVE  Outgoing # None
<1>1. request \in Request
  BY GatewayAssumption DEF Locals
<1>2. /\ request.headers \in SUBSET OtherHeaders
      /\ request.body \in {"json", "text", "binary", "large", "no length"}
  BY <1>1 DEF Request
<1>3. ForwardHeaders \subseteq request.headers
  BY DEF ForwardHeaders, HeaderNames, Sensitive
<1>4. Outgoing \in Message
  BY <1>2, <1>3 DEF Outgoing, Message, Redacted
<1> QED BY <1>4, GatewayAssumption

LEMMA InitIInv == Init => IInv
<1> SUFFICES ASSUME Init PROVE IInv
  OBVIOUS
<1> USE DEF Init
<1>1. TypeOK
  <2>1. Flags
    BY DEF Flags
  <2>2. Locals
    BY GatewayAssumption, Codes DEF Locals
  <2> QED BY <2>1, <2>2 DEF TypeOK
<1>2. Truth
  BY DEF Truth, Early, Late, Writing, Recording
<1>3. Progress
  BY DEF Progress, Early, Late, Writing, Recording
<1>4. Charged /\ Private
  BY DEF Charged, Private, BackendSeesNoSecret
<1>5. Answered /\ Recorded
  BY DEF Answered, Recorded, EveryEndIsRecorded, Recording
<1> QED BY <1>1, <1>2, <1>3, <1>4, <1>5 DEF IInv

-------------------------------------------------------------------------------
(* A body is parsed or refused, and nothing else happens. *)
LEMMA BodyStep ==
  ASSUME Body
  PROVE  /\ pc = "body"
         /\ UNCHANGED <<request, client, status, code, sent, whole, principal, routed>>
         /\ UNCHANGED <<redact, charged, forwarded, piece, access, audit, metrics, unrecorded>>
         /\ \/ pc' = "authenticate" /\ Parsed /\ raised' = raised
            \/ pc' = "except" /\ raised' \in Exceptions
  BY DEF Body, Stage, Goto, Raise, Exceptions, flow, records, response

(* The stages of the try block up to a response.  Each goes on to another,  *)
(* raises an exception, or answers.                                         *)
Work ==
  \/ Dispatch \/ Admin \/ Body \/ Authenticate \/ FindRoute \/ Endpoint
  \/ Limiter \/ Limits \/ Forward \/ Receive \/ Relay

Goes ==
  \/ pc' \in Early \cup Late /\ UNCHANGED <<status, raised, code>>
  \/ pc' = "except" /\ raised' \in Exceptions /\ code' = code
  \/ /\ pc' = "headers" /\ raised' = raised /\ code' \in Status
     /\ status' = code' \/ (pc = "admin" /\ status' = status)

LEMMA WorkFacts ==
  ASSUME Work
  PROVE  /\ pc \in Early \cup Late /\ Goes
         /\ UNCHANGED <<request, client, sent, whole, access, audit, metrics, unrecorded>>
<1> USE Codes DEF Goes, Early, Late, Exceptions, Stage, Goto, Raise, Answer, Reply, flow, records, response
<1>1. CASE Dispatch
  BY <1>1 DEF Dispatch
<1>2. CASE Admin
  BY <1>2 DEF Admin
<1>3. CASE Body
  BY <1>3, BodyStep
<1>4. CASE Authenticate
  BY <1>4 DEF Authenticate
<1>5. CASE FindRoute \/ Endpoint
  BY <1>5 DEF FindRoute, Endpoint
<1>6. CASE Limiter \/ Limits
  BY <1>6 DEF Limiter, Limits
<1>7. CASE Forward \/ Receive
  BY <1>7 DEF Forward, Receive
<1>8. CASE Relay
  BY <1>8 DEF Relay
<1> QED BY <1>1, <1>2, <1>3, <1>4, <1>5, <1>6, <1>7, <1>8 DEF Work

(* A response is written, or its client is gone; a clause answers, or there *)
(* is none.                                                                 *)
LEMMA WriteFacts ==
  ASSUME WriteHeaders \/ WriteBody
  PROVE  /\ UNCHANGED <<request, client, principal, routed, redact, charged, forwarded, piece>>
         /\ UNCHANGED <<access, audit, metrics, unrecorded, code>> /\ (client' <=> client)
         /\ \/ /\ pc = "headers" /\ pc' = "content" /\ sent' = (IF client THEN code ELSE sent)
               /\ UNCHANGED <<status, raised, whole>>
            \/ /\ pc = "content" /\ pc' = "access" /\ (whole' <=> client)
               /\ status' = IF IsAdmin /\ raised = None THEN code ELSE status
               /\ UNCHANGED <<raised, sent>>
            \/ /\ pc \in Writing /\ ~client /\ UNCHANGED <<status, sent, whole>>
               /\ \/ raised = None /\ pc' = "except" /\ raised' \in Failed
                  \/ raised # None /\ pc' = "access" /\ raised' = raised
<1> USE DEF Writing, Failed, WriteFails, Stage, Goto, Raise, flow, records, response
<1>1. CASE WriteHeaders
  BY <1>1 DEF WriteHeaders
<1>2. CASE WriteBody
  BY <1>2 DEF WriteBody
<1> QED BY <1>1, <1>2

LEMMA ExceptFacts ==
  ASSUME Except
  PROVE  /\ pc = "except" /\ raised' = raised
         /\ UNCHANGED <<request, client, sent, whole, principal, routed, redact, charged>>
         /\ UNCHANGED <<forwarded, piece, access, audit, metrics, unrecorded>>
         /\ \/ /\ raised \in DOMAIN Clause /\ pc' = "headers"
               /\ status' = Clause[raised] /\ code' = Clause[raised]
            \/ raised \notin DOMAIN Clause /\ pc' = "access" /\ UNCHANGED <<status, code>>
  BY DEF Except, Stage, Goto, Answer, flow, records, response

LEMMA NextFlags == Flags /\ [Next]_vars => Flags'
<1> SUFFICES ASSUME Flags, [Next]_vars PROVE Flags'
  OBVIOUS
<1> USE DEF Flags, Stage, Goto, Raise, Answer, Reply, flow, records, response, outcome
<1>1. CASE Dispatch
  BY <1>1 DEF Dispatch
<1>2. CASE Admin
  BY <1>2 DEF Admin
<1>3. CASE Body
  BY <1>3 DEF Body
<1>4. CASE Authenticate
  BY <1>4 DEF Authenticate
<1>5. CASE FindRoute
  BY <1>5 DEF FindRoute
<1>6. CASE Endpoint
  BY <1>6 DEF Endpoint
<1>7. CASE Limiter
  BY <1>7 DEF Limiter
<1>8. CASE Limits
  BY <1>8 DEF Limits
<1>9. CASE Forward
  BY <1>9 DEF Forward
<1>10. CASE Receive
  BY <1>10 DEF Receive
<1>11. CASE Relay
  BY <1>11 DEF Relay
<1>12. CASE WriteHeaders \/ WriteBody \/ Except
  <2>1. CASE WriteHeaders \/ Except
    BY <2>1 DEF WriteHeaders, WriteFails, Except
  <2>2. CASE WriteBody
    <3>1. whole' = client \/ whole' = whole
      BY <2>2 DEF WriteBody, WriteFails
    <3>2. UNCHANGED <<client, routed, redact, unrecorded>>
      BY <2>2, WriteFacts
    <3> QED BY <3>1, <3>2
  <2> QED BY <1>12, <2>1, <2>2
<1>13. CASE RecordAccess
  BY <1>13 DEF RecordAccess, Made
<1>14. CASE RecordAudit
  BY <1>14 DEF RecordAudit, Made
<1>15. CASE RecordMetrics
  BY <1>15 DEF RecordMetrics
<1>16. CASE Leave
  BY <1>16 DEF Leave
<1>17. CASE UNCHANGED vars
  BY <1>17 DEF vars
<1> QED BY <1>1, <1>2, <1>3, <1>4, <1>5, <1>6, <1>7, <1>8, <1>9, <1>10,
          <1>11, <1>12, <1>13, <1>14, <1>15, <1>16, <1>17 DEF Next, Handle

LEMMA NextLocals == Locals /\ Truth /\ [Next]_vars => Locals'
<1> SUFFICES ASSUME Locals, Truth, [Next]_vars PROVE Locals'
  OBVIOUS
<1> USE Codes DEF Locals, Exceptions, Stage, Goto, Raise, Answer, Reply, flow, records, response, outcome
<1>1. CASE Dispatch
  BY <1>1 DEF Dispatch
<1>2. CASE Admin
  BY <1>2 DEF Admin
<1>3. CASE Body
  BY <1>3, BodyStep
<1>4. CASE Authenticate
  BY <1>4 DEF Authenticate
<1>5. CASE FindRoute
  BY <1>5 DEF FindRoute
<1>6. CASE Endpoint
  BY <1>6 DEF Endpoint
<1>7. CASE Limiter
  BY <1>7 DEF Limiter
<1>8. CASE Limits
  BY <1>8 DEF Limits
<1>9. CASE Forward
  BY <1>9 DEF Forward
<1>10. CASE Receive
  BY <1>10, GatewayAssumption DEF Receive
<1>11. CASE Relay
  BY <1>11 DEF Relay
<1>12. CASE WriteHeaders \/ WriteBody \/ Except
  <2>1. pc \in Writing => code \in Status
    BY DEF Truth
  <2> QED BY <1>12, <2>1, WriteFacts, ExceptFacts, Clauses DEF Failed, Writing
<1>13. CASE RecordAccess
  BY <1>13 DEF RecordAccess, Made
<1>14. CASE RecordAudit
  BY <1>14 DEF RecordAudit, Made
<1>15. CASE RecordMetrics
  BY <1>15 DEF RecordMetrics
<1>16. CASE Leave
  BY <1>16 DEF Leave
<1>17. CASE UNCHANGED vars
  BY <1>17 DEF vars
<1> QED BY <1>1, <1>2, <1>3, <1>4, <1>5, <1>6, <1>7, <1>8, <1>9, <1>10,
          <1>11, <1>12, <1>13, <1>14, <1>15, <1>16, <1>17 DEF Next, Handle

LEMMA NextTruth == Progress /\ Locals /\ Truth /\ [Next]_vars => Truth'
<1> SUFFICES ASSUME Progress, Locals, Truth, [Next]_vars PROVE Truth'
  OBVIOUS
<1> USE DEF Truth, Early, Late, Writing, Recording, Failed, IsAdmin
<1>1. CASE Work
  <2>1. /\ pc \in Early \cup Late /\ Goes
        /\ UNCHANGED <<request, client, sent, whole, access, audit, metrics, unrecorded>>
    BY <1>1, WorkFacts
  <2>2. /\ access = None /\ audit = None /\ metrics = None /\ ~whole /\ raised = None
        /\ code = None /\ sent = None /\ (pc = "admin" => IsAdmin)
    BY <2>1 DEF Progress
  <2>3. CASE pc' \in Early \cup Late
    BY <2>1, <2>2, <2>3 DEF Goes
  <2>4. CASE pc' = "except"
    BY <2>1, <2>2, <2>4 DEF Goes
  <2>5. CASE pc' = "headers"
    <3>1. raised' = None /\ code' # None /\ (status' = code' \/ IsAdmin) /\ raised' \notin Failed
      BY <2>1, <2>2, <2>5, Codes, GatewayAssumption DEF Goes, Exceptions
    <3> QED BY <2>1, <2>2, <2>5, <3>1
  <2> QED BY <2>1, <2>3, <2>4, <2>5 DEF Goes
<1>2. CASE WriteHeaders \/ WriteBody
  <2>1. \A e \in Failed : Clause[e] \in {502, 504} /\ e # None
    BY Clauses, GatewayAssumption DEF Exceptions
  <2>2. CASE pc = "headers" /\ pc' = "content"
    BY <1>2, <2>2, WriteFacts
  <2>3. CASE /\ pc = "content" /\ pc' = "access" /\ (whole' <=> client)
             /\ status' = (IF IsAdmin /\ raised = None THEN code ELSE status)
             /\ UNCHANGED <<raised, sent>>
    <3>1. status' = code /\ sent' = sent /\ raised' = raised /\ (whole' => client)
      BY <2>3
    <3>2. UNCHANGED <<request, access, audit, metrics, code>>
      BY <1>2, WriteFacts
    <3>3. sent # None => sent = code \/ code \in {502, 504}
      BY <2>1, <2>3
    <3> QED BY <2>3, <3>1, <3>2, <3>3
  <2>4. CASE pc' = "except"
    BY <1>2, <2>4, WriteFacts
  <2>5. CASE pc' = "access" /\ UNCHANGED <<status, sent, whole>> /\ raised # None
    BY <1>2, <2>1, <2>5, WriteFacts
  <2> QED BY <1>2, <2>2, <2>3, <2>4, <2>5, WriteFacts
<1>3. CASE Except
  <2>1. \A e \in DOMAIN Clause : Clause[e] # None
    BY Clauses, Codes
  <2> QED BY <1>3, <2>1, ExceptFacts, Clauses
<1> USE DEF flow, records, response, outcome
<1>4. CASE RecordAccess
  BY <1>4 DEF RecordAccess, Made
<1>5. CASE RecordAudit
  BY <1>5 DEF RecordAudit, Made
<1>6. CASE RecordMetrics
  BY <1>6 DEF RecordMetrics
<1>7. CASE Leave
  <2>1. /\ UNCHANGED <<request, pc, status, raised, code, sent, whole, access, audit, metrics>>
        /\ ~client'
    BY <1>7 DEF Leave
  <2> QED BY <2>1
<1>8. CASE UNCHANGED vars
  BY <1>8 DEF vars
<1> QED BY <1>1, <1>2, <1>3, <1>4, <1>5, <1>6, <1>7, <1>8 DEF Next, Handle, Work

(* What was asked stays as it is. *)
LEMMA SameRequest ==
  ASSUME [Next]_vars
  PROVE  /\ request' = request
         /\ Parsed' <=> Parsed
         /\ Supplied' = Supplied
<1>1. request' = request
  BY DEF Next, Handle, Dispatch, Admin, Body, Authenticate, FindRoute, Endpoint,
         Limiter, Limits, Forward, Receive, Relay, Except, RecordAccess, RecordAudit,
         RecordMetrics, WriteHeaders, WriteBody, Leave, Stage, vars
<1> QED BY <1>1 DEF Parsed, Supplied, Bearer

(* A bearer that is a token is the one in Authorization, and it is looked   *)
(* at before X-Api-Key.                                                     *)
LEMMA BearerTokens ==
  Bearer = "token" => Supplied = "token" /\ request.authorization = "token"
<1>1. None # "token"
  BY GatewayAssumption
<1> QED BY <1>1 DEF Bearer, Supplied

LEMMA NextProgress == Locals /\ Progress /\ [Next]_vars => Progress'
<1> SUFFICES ASSUME Locals, Progress, [Next]_vars PROVE Progress'
  OBVIOUS
<1> USE SameRequest DEF Progress, Early, Late, Writing, Recording, Failed, IsAdmin, Exceptions, Stage, Goto, Raise, Answer, Reply, flow, records, response, outcome
<1>1. CASE Dispatch
  BY <1>1 DEF Dispatch
<1>2. CASE Admin
  BY <1>2 DEF Admin
<1>3. CASE Body
  BY <1>3, BodyStep
<1>4. CASE Authenticate
  <2>1. pc = "authenticate" /\ UNCHANGED <<routed, charged, forwarded>>
    BY <1>4 DEF Authenticate
  <2>2. \/ pc' = "route"
        \/ pc' = "headers"
        \/ pc' = "except" /\ raised' \in Exceptions
    BY <1>4 DEF Authenticate
  <2>3. pc' = "route" => /\ principal' = Supplied
                         /\ principal' = "token" => request.authorization = "token"
    <3>1. pc' = "route" => \/ principal' = "key" /\ Supplied = "key"
                           \/ principal' = "token" /\ Bearer = "token"
      BY <1>4 DEF Authenticate
    <3> QED BY <3>1, BearerTokens
  <2> QED BY <2>1, <2>2, <2>3
<1>5. CASE FindRoute
  BY <1>5 DEF FindRoute
<1>6. CASE Endpoint
  BY <1>6 DEF Endpoint
<1>7. CASE Limiter
  BY <1>7 DEF Limiter
<1>8. CASE Limits
  BY <1>8 DEF Limits
<1>9. CASE Forward
  BY <1>9, OutgoingIsSent DEF Forward
<1>10. CASE Receive
  BY <1>10 DEF Receive
<1>11. CASE Relay
  BY <1>11 DEF Relay
<1>12. CASE WriteHeaders \/ WriteBody \/ Except
  BY <1>12, WriteFacts, ExceptFacts, Clauses
<1>13. CASE RecordAccess
  BY <1>13 DEF RecordAccess, Made
<1>14. CASE RecordAudit
  BY <1>14 DEF RecordAudit, Made
<1>15. CASE RecordMetrics
  BY <1>15 DEF RecordMetrics
<1>16. CASE Leave
  BY <1>16 DEF Leave
<1>17. CASE UNCHANGED vars
  BY <1>17 DEF vars
<1> QED BY <1>1, <1>2, <1>3, <1>4, <1>5, <1>6, <1>7, <1>8, <1>9, <1>10,
          <1>11, <1>12, <1>13, <1>14, <1>15, <1>16, <1>17 DEF Next, Handle

LEMMA NextCharged == Truth /\ Progress /\ Charged /\ [Next]_vars => Charged'
<1> SUFFICES ASSUME Truth, Progress, Charged, [Next]_vars PROVE Charged'
  OBVIOUS
<1> USE SameRequest, Codes, Clauses DEF Truth, Charged, Progress, Early, Late, Writing, Recording, Failed, Stage, Goto, Raise, Answer, Reply, flow, records, response, outcome
<1>1. CASE Dispatch
  BY <1>1 DEF Dispatch
<1>2. CASE Admin
  BY <1>2 DEF Admin
<1>3. CASE Body
  <2>1. pc = "body" /\ UNCHANGED <<charged, forwarded>>
    BY <1>3, BodyStep
  <2>2. charged' = {}
    BY <2>1
  <2> QED BY <2>1, <2>2
<1>4. CASE Authenticate
  BY <1>4 DEF Authenticate
<1>5. CASE FindRoute
  BY <1>5 DEF FindRoute
<1>6. CASE Endpoint
  BY <1>6 DEF Endpoint
<1>7. CASE Limiter
  BY <1>7 DEF Limiter
<1>8. CASE Limits
  BY <1>8 DEF Limits
<1>9. CASE Forward
  BY <1>9 DEF Forward
<1>10. CASE Receive
  BY <1>10 DEF Receive
<1>11. CASE Relay
  BY <1>11 DEF Relay
<1>12. CASE WriteHeaders \/ WriteBody \/ Except
  BY <1>12, WriteFacts, ExceptFacts, Clauses
<1>13. CASE RecordAccess
  BY <1>13 DEF RecordAccess, Made
<1>14. CASE RecordAudit
  BY <1>14 DEF RecordAudit, Made
<1>15. CASE RecordMetrics
  BY <1>15 DEF RecordMetrics
<1>16. CASE Leave
  BY <1>16 DEF Leave
<1>17. CASE UNCHANGED vars
  BY <1>17 DEF vars
<1> QED BY <1>1, <1>2, <1>3, <1>4, <1>5, <1>6, <1>7, <1>8, <1>9, <1>10,
          <1>11, <1>12, <1>13, <1>14, <1>15, <1>16, <1>17 DEF Next, Handle

(* Whatever answers a client that is there reaches it, and an exception     *)
(* that no clause answers is one of those without a clause.                 *)
LEMMA NextAnswered == Progress /\ Answered /\ [Next]_vars => Answered'
<1> SUFFICES ASSUME Progress, Answered, [Next]_vars PROVE Answered'
  OBVIOUS
<1> USE DEF Answered, Recording, flow, records, response, outcome
<1>1. CASE Work
  <2>1. pc' \notin Recording
    BY <1>1, WorkFacts DEF Goes, Early, Late
  <2> QED BY <2>1
<1>2. CASE WriteHeaders \/ WriteBody
  BY <1>2, WriteFacts
<1>3. CASE Except
  <2>1. raised \in Exceptions
    BY <1>3, ExceptFacts DEF Progress
  <2> QED BY <1>3, <2>1, ExceptFacts, Clauses
<1>4. CASE RecordAccess \/ RecordAudit \/ RecordMetrics
  BY <1>4 DEF RecordAccess, RecordAudit, RecordMetrics, Made
<1>5. CASE Leave
  BY <1>5 DEF Leave
<1>6. CASE UNCHANGED vars
  BY <1>6 DEF vars
<1> QED BY <1>1, <1>2, <1>3, <1>4, <1>5, <1>6 DEF Next, Handle, Work

LEMMA NextRecorded == Locals /\ Truth /\ Recorded /\ [Next]_vars => Recorded'
<1> SUFFICES ASSUME Locals, Truth, Recorded, [Next]_vars PROVE Recorded'
  OBVIOUS
<1> USE DEF Recorded, EveryEndIsRecorded
<1>s. status # None
  BY Codes DEF Locals
<1>1. CASE RecordAccess
  BY <1>s, <1>1 DEF RecordAccess, Made, flow
<1>2. CASE RecordAudit
  BY <1>s, <1>2 DEF RecordAudit, Made, flow
<1>3. CASE RecordMetrics
  BY <1>s, <1>3 DEF RecordMetrics, flow
<1>4. CASE Leave \/ UNCHANGED vars
  BY <1>4 DEF Leave, vars, flow, records, outcome
<1>5. ASSUME UNCHANGED <<access, audit, metrics, unrecorded>>, pc' \notin {"audit", "metrics", "end"}
      PROVE  Recorded'
  BY <1>5
<1>6. CASE Work
  BY <1>5, <1>6, WorkFacts DEF Goes, Early, Late
<1>7. CASE WriteHeaders \/ WriteBody \/ Except
  BY <1>5, <1>7, WriteFacts, ExceptFacts
<1> QED BY <1>1, <1>2, <1>3, <1>4, <1>6, <1>7 DEF Next, Handle, Work

(* Once something was sent, nothing of it changes. *)
LEMMA NextPrivate == Progress /\ Private /\ [Next]_vars => Private'
<1> SUFFICES ASSUME Progress, Private, [Next]_vars PROVE Private'
  OBVIOUS
<1>1. CASE Forward
  <2>1. Parsed
    BY <1>1 DEF Forward, Stage, Progress, Early, Late
  <2>2. UNCHANGED <<request, redact>> /\ (forwarded' = Outgoing \/ forwarded' = forwarded)
    BY <1>1 DEF Forward, Stage
  <2> QED BY <2>1, <2>2, OutgoingIsPrivate DEF Private, BackendSeesNoSecret
<1>2. CASE FindRoute
  <2>1. forwarded = None /\ forwarded' = forwarded
    BY <1>2 DEF FindRoute, Stage, Progress, Early
  <2> QED BY <2>1 DEF Private, BackendSeesNoSecret
<1>3. CASE ~Forward /\ ~FindRoute
  <2>1. UNCHANGED <<redact, forwarded>>
    BY <1>3 DEF Next, Handle, Dispatch, Admin, Body, Authenticate, Endpoint, Limiter,
                Limits, Receive, Relay, Except, RecordAccess, RecordAudit,
                RecordMetrics, WriteHeaders, WriteBody, Leave, flow, vars
  <2> QED BY <2>1 DEF Private, BackendSeesNoSecret
<1> QED BY <1>1, <1>2, <1>3

-------------------------------------------------------------------------------
LEMMA InvIsInductive == Spec => []IInv
<1>1. IInv /\ [Next]_vars => IInv'
  BY NextFlags, NextLocals, NextTruth, NextProgress, NextCharged, NextAnswered,
     NextRecorded, NextPrivate
     DEF IInv, TypeOK
<1> QED BY <1>1, InitIInv, PTL DEF Spec

(* The handler, its locals and its records keep their types.               *)
THEOREM TypeCorrect == Spec => []TypeOK
<1>1. IInv => TypeOK
  BY DEF IInv
<1> QED BY <1>1, InvIsInductive, PTL

(* The records of a request say what its client was told, for any requests  *)
(* and any settings, and whenever the client leaves: the code of a response *)
(* it got to its end; of one that it cut off, that code or 502 or 504.      *)
THEOREM RecordsTrue == Spec => []RecordsAreTrue
<1>1. IInv => RecordsAreTrue
  <2> SUFFICES ASSUME IInv PROVE RecordsAreTrue
    OBVIOUS
  <2>1. CASE pc \in Recording
    BY <2>1, Clauses DEF IInv, Truth, RecordsAreTrue
  <2>2. CASE pc \notin Recording
    BY <2>2 DEF IInv, Truth, RecordsAreTrue
  <2> QED BY <2>1, <2>2
<1> QED BY <1>1, InvIsInductive, PTL

(* Quota is charged to authenticated and routed requests only, in every     *)
(* window before they are forwarded, never to one that is refused before    *)
(* the limiter, and never in the day to one that the limiter refuses.       *)
THEOREM QuotaDue == Spec => []QuotaIsDue
<1>1. IInv => QuotaIsDue
  BY DEF IInv, Charged, QuotaIsDue
<1> QED BY <1>1, InvIsInductive, PTL

(* A client that waits for its answer gets one, whatever fails, unless an   *)
(* exception that no clause names ends the request.                         *)
THEOREM PatientAnswered == Spec => []PatientClientIsAnswered
<1>1. IInv => PatientClientIsAnswered
  BY DEF IInv, Answered, Recording, PatientClientIsAnswered
<1> QED BY <1>1, InvIsInductive, PTL

(* A request that ends has left the records that are configured, or making  *)
(* one of them failed; what the metrics count, the logs hold.               *)
THEOREM EndsRecorded == Spec => []EveryEndIsRecorded
<1>1. IInv => EveryEndIsRecorded
  BY DEF IInv, Recorded
<1> QED BY <1>1, InvIsInductive, PTL

(* No backend gets a credential of a client, or an unredacted body where    *)
(* redaction is due.                                                        *)
THEOREM SecretsKept == Spec => []BackendSeesNoSecret
<1>1. IInv => BackendSeesNoSecret
  BY DEF IInv, Private
<1> QED BY <1>1, InvIsInductive, PTL
===============================================================================
