------------------------------- MODULE Gateway -------------------------------
(***************************************************************************)
(* GatewayHandler._handle: one request from its first line to its last     *)
(* record.  What the key stores, the policy and the limiter decide is left *)
(* open here (they have modules of their own); this module is about the    *)
(* control around them: the early returns, the exceptions each call may    *)
(* raise and the clauses that catch them, the one response of the          *)
(* connection, what is sent to the backend, and the three records that the *)
(* finally clause makes.                                                   *)
(*                                                                         *)
(* The server speaks HTTP/1.0, one request on a connection and a thread.   *)
(* The threads share only what the other modules model, so one handler is  *)
(* enough.  A response is two writes to the connection, its head and its   *)
(* body, and the client may leave before either.                           *)
(***************************************************************************)
EXTENDS Integers

CONSTANTS
  KnownCodes,     \* the codes of backends that http.HTTPStatus has a name for
  Requests,       \* the requests of clients, see Request
  BackendKey,     \* routes have a backend_api_key_env that is set
  Redaction,      \* redaction.enabled
  Quotas,         \* the windows of the limiter that have a limit
  AccessLog,      \* privacy.access_log is not "off"
  AuditFile,      \* privacy.audit_log_file is set
  None

(* The codes of responses. *)
Status == 100..999

(* Headers without a credential of the gateway that the handler tells apart. *)
OtherHeaders ==
  {"cookie", "proxy-authorization", "te", "host", "content-length", "accept"}

(* What the handler tells apart of a request: its path; its body, by what   *)
(* reading and parsing make of it ("text": no JSON object, or one that      *)
(* json.loads gives up on, nested too deep or with too long a number); its  *)
(* Authorization and X-Api-Key headers, by what they hold, an API key, a    *)
(* token, something else after "Bearer" or (in Authorization) another       *)
(* scheme; and the names of its other headers.                              *)
Request ==
  [command : {"GET", "POST"},
   path : {"/healthz", "/metrics", "/admin/api-keys", "/v1/models", "other", "bad"},
   body : {"json", "text", "binary", "large", "no length"},
   authorization : {"key", "token", "wrong", "basic", None},
   xApiKey : {"key", "token", "wrong", None},
   headers : SUBSET OtherHeaders]

(* What is sent to a backend: headers of the client that go along, another  *)
(* Authorization, and a body.                                               *)
Message == [headers : SUBSET OtherHeaders, authorization : {"backend key", None},
            body : {"json", "text", "binary", "large", "no length", "redacted", None}]

Exceptions == {"PayloadTooLarge", "BadJSON", "PolicyDenied", "TimeoutError",
               "OSError", "other"}

ASSUME GatewayAssumption ==
  /\ Requests \subseteq Request
  /\ {BackendKey, Redaction} \subseteq BOOLEAN
  /\ KnownCodes \subseteq Status
  /\ Quotas \subseteq {"minute", "day"}
  /\ None \notin Nat \cup Message \cup Exceptions \cup {"key", "token", "wrong"}

VARIABLES
  request,        \* the request; it does not change
  pc,             \* the stage of the handler
  status,         \* its variable of that name
  raised,         \* the exception that left the try block, or None
  client,         \* is the client still connected?
  code,           \* of the response that is written, or None
  sent,           \* history: the code that reached the client, or None
  whole,          \* history: the body of that response reached it too
  principal,      \* the credential that was accepted, or None
  routed,         \* backend_name is set: the request has a route
  redact,         \* decision.redact_before_forward
  charged,        \* history: the windows in which the limiter has counted it
  forwarded,      \* history: what has been sent to the backend, or None
  piece,          \* parity of the pieces of the backend's body so far
  access, audit, metrics,    \* the status each record was made with, or None
  unrecorded      \* history: making a record failed

response == <<code, sent, whole>>
outcome == <<pc, status, raised, response>>
flow == <<principal, routed, redact, charged, forwarded, piece>>
records == <<access, audit, metrics, unrecorded>>
vars == <<request, outcome, client, flow, records>>

(* The types of the variables, the Boolean ones apart from the others. *)
Flags ==
  /\ client \in BOOLEAN /\ routed \in BOOLEAN /\ redact \in BOOLEAN
  /\ whole \in BOOLEAN /\ unrecorded \in BOOLEAN

Locals ==
  /\ pc \in {"dispatch", "admin", "body", "authenticate", "route", "endpoint",
             "limiter", "limits", "forward", "receive", "respond", "headers",
             "content", "except", "access", "audit", "metrics", "end"}
  /\ status \in Status
  /\ raised \in Exceptions \cup {None}
  /\ code \in Status \cup {None} /\ sent \in Status \cup {None}
  /\ request \in Requests /\ principal \in {"key", "token", None}
  /\ charged \subseteq Quotas /\ piece \in {0, 1}
  /\ access \in Status \cup {None}
  /\ audit \in Status \cup {None}
  /\ metrics \in Status \cup {None}

TypeOK == Flags /\ Locals

Init ==
  /\ request \in Requests
  /\ pc = "dispatch" /\ status = 500 /\ raised = None
  /\ client = TRUE /\ code = None /\ sent = None /\ whole = FALSE
  /\ principal = None /\ routed = FALSE /\ redact = FALSE
  /\ charged = {} /\ forwarded = None /\ piece = 0
  /\ access = None /\ audit = None /\ metrics = None /\ unrecorded = FALSE

(* The client closes the connection. *)
Leave ==
  /\ client /\ pc # "end"
  /\ client' = FALSE
  /\ UNCHANGED <<request, outcome, flow, records>>

Goto(stage) ==
  /\ pc' = stage
  /\ UNCHANGED <<status, raised, response>>

(* An exception leaves the try block for its clauses. *)
Raise(e) ==
  /\ pc' = "except"
  /\ raised' = e
  /\ UNCHANGED <<status, response>>

(* A response with code s.  The endpoint for keys returns its status after  *)
(* the response; everyone else assigns status first.                        *)
Reply(s) ==
  /\ pc' = "headers"
  /\ code' = s
  /\ UNCHANGED <<status, raised, sent, whole>>

Answer(s) ==
  /\ pc' = "headers"
  /\ status' = s
  /\ code' = s
  /\ UNCHANGED <<raised, sent, whole>>

(* What a stage may do, from stage s on. *)
Stage(s, step) == pc = s /\ step /\ UNCHANGED <<request, client, records>>

(* A write to a client that is gone is lost in a buffer, or it fails: in    *)
(* the try block an OSError, which is a TimeoutError if the connection      *)
(* timed out, goes to the clauses; in a clause it escapes.  The endpoint for *)
(* keys has a clause of its own (server.py:293), whose reply fails too.     *)
WriteFails ==
  /\ ~client
  /\ IF raised = None THEN \E e \in {"OSError", "TimeoutError"} : Raise(e)
                      ELSE Goto("access")

(* end_headers() sends the status line and the headers. *)
WriteHeaders ==
  /\ Stage("headers", \/ /\ pc' = "content"
                         /\ sent' = IF client THEN code ELSE sent
                         /\ UNCHANGED <<status, raised, code, whole>>
                      \/ WriteFails)
  /\ UNCHANGED flow

IsAdmin == request.path = "/admin/api-keys"

(* wfile.write(body); then the endpoint for keys returns its status. *)
WriteBody ==
  /\ Stage("content", \/ /\ pc' = "access"
                         /\ whole' = client
                         /\ status' = IF IsAdmin /\ raised = None THEN code ELSE status
                         /\ UNCHANGED <<raised, code, sent>>
                      \/ WriteFails)
  /\ UNCHANGED flow

(* Is it this method and path? *)
Asks(command, path) == request.command = command /\ request.path = path

(* GET /healthz and GET /metrics answer at once; a path that urlparse does  *)
(* not take raises ValueError.                                              *)
Dispatch ==
  /\ Stage("dispatch",
           \/ Asks("GET", "/healthz") /\ Answer(200)
           \/ Asks("GET", "/metrics") /\ Answer(200)
           \/ IsAdmin /\ Goto("admin")
           \/ request.path = "bad" /\ Raise("other")
           \/ /\ ~Asks("GET", "/healthz") /\ ~Asks("GET", "/metrics")
              /\ ~IsAdmin /\ request.path # "bad"
              /\ Goto("body"))
  /\ UNCHANGED flow

Bearer == IF request.authorization = "basic" THEN None ELSE request.authorization

(* _extract_api_key: what follows "Bearer", and else X-Api-Key. *)
Supplied == IF Bearer # None THEN Bearer ELSE request.xApiKey

(* Mutant: one path through the endpoint returns no status. *)
AdminWithoutStatus ==
  /\ Stage("admin", pc' = "access" /\ status' = 0 /\ UNCHANGED <<raised, response>>)
  /\ UNCHANGED flow

(* The key management endpoint: switched off, refused (compare_digest       *)
(* raises TypeError for a key that is not ASCII), another method; then      *)
(* the body, and the request itself or what ValueError, OSError and KeyError *)
(* make of it.                                                              *)
Admin ==
  /\ Stage("admin",
           \/ \E s \in {404, 401} : Reply(s)
           \/ Supplied = "wrong" /\ Raise("other")
           \/ request.command # "POST" /\ Reply(405)
           \/ /\ request.command = "POST"
              /\ \/ request.body # "large" /\ Reply(400)
                 \/ request.body = "json" /\ (Reply(201) \/ Reply(200) \/ Raise("other"))
                 \/ request.body = "large" /\ Raise("PayloadTooLarge")
                 \/ request.body \in {"text", "binary"} /\ Raise("BadJSON")
                 \/ request.body = "text" /\ Raise("other"))
  /\ UNCHANGED flow

(* Mutant: a body that is not UTF-8 passes for an empty one. *)
ParsedLeniently == request.command = "GET" \/ request.body \in {"json", "binary"}

(* _parse_json_body: a GET has no payload, whatever its body. *)
Parsed == request.command = "GET" \/ request.body = "json"

(* _read_body and _parse_json_body; int() raises ValueError for a length    *)
(* that is no number, json.loads RecursionError or ValueError for what it   *)
(* gives up on.                                                             *)
Body ==
  /\ Stage("body",
           \/ request.body = "large" /\ Raise("PayloadTooLarge")
           \/ request.body = "no length" /\ Raise("other")
           \/ /\ request.body \notin {"large", "no length"}
              /\ \/ Raise("OSError")
                 \/ Parsed /\ Goto("authenticate")
                 \/ ~Parsed /\ Raise("BadJSON")
                 \/ ~Parsed /\ request.body = "text" /\ Raise("other"))
  /\ UNCHANGED flow

(* The key store may accept a key.  It raises, whatever the key, if stat()   *)
(* fails or the file is not UTF-8 or has a malformed hash, and if the key   *)
(* is not ASCII.  The JWT verifier may accept a bearer token, and raises if *)
(* the JWKS file is gone or bad, whatever the bearer holds.                 *)
Authenticate ==
  /\ \/ /\ Supplied = "key" /\ Stage("authenticate", Goto("route"))
        /\ principal' = "key"
     \/ /\ Bearer = "token" /\ Stage("authenticate", Goto("route"))
        /\ principal' = "token"
     \/ /\ Stage("authenticate",
                 \/ Answer(401)
                 \/ Supplied # None /\ \E e \in {"OSError", "other"} : Raise(e))
        /\ UNCHANGED principal
  /\ UNCHANGED <<routed, redact, charged, forwarded, piece>>

FindRoute ==
  /\ \/ /\ Stage("route", Goto("endpoint"))
        /\ routed' = TRUE
        /\ redact' \in BOOLEAN
     \/ /\ Stage("route", Raise("PolicyDenied"))
        /\ UNCHANGED <<routed, redact>>
  /\ UNCHANGED <<principal, charged, forwarded, piece>>

(* The endpoint of the route and the models of the principal. *)
Endpoint ==
  /\ Stage("endpoint", Goto("limiter") \/ Answer(403))
  /\ UNCHANGED flow

(* Mutant: the day is asked, and counted, before the minute. *)
LimiterDayFirst ==
  /\ \/ /\ Stage("limiter", Goto("limits"))
        /\ charged' = Quotas
     \/ \E w \in Quotas :
          /\ Stage("limiter", Answer(429) \/ Raise("other"))
          /\ charged' = IF w = "minute" THEN Quotas \ {"minute"} ELSE {}
  /\ UNCHANGED <<principal, routed, redact, forwarded, piece>>

(* TenantRateLimiter.allow: the minute first, then the day.  A window that  *)
(* is full refuses (and CPython 3.11 and 3.12 may raise IndexError, see     *)
(* RateLimiter); a refusal by the day leaves the entry in the minute.       *)
Limiter ==
  /\ \/ /\ Stage("limiter", Goto("limits"))
        /\ charged' = Quotas
     \/ \E w \in Quotas :
          /\ Stage("limiter", Answer(429) \/ Raise("other"))
          /\ charged' = IF w = "day" THEN Quotas \ {"day"} ELSE {}
  /\ UNCHANGED <<principal, routed, redact, forwarded, piece>>

(* _validate_limits: the size of the body, which a negative Content-Length  *)
(* (read to the end of the stream) lets through to here; max_tokens and n   *)
(* of the payload, which a GET has not; int(Infinity) raises OverflowError. *)
Limits ==
  /\ Stage("limits", \/ Goto("forward") \/ Answer(400)
                     \/ request.command = "POST" /\ Raise("other"))
  /\ UNCHANGED flow

Sensitive == {"authorization", "cookie", "x-api-key", "proxy-authorization"}
HopByHop == {"connection", "keep-alive", "proxy-authenticate",
             "proxy-authorization", "te", "trailer", "transfer-encoding", "upgrade"}

HeaderNames ==
  request.headers
    \cup {h \in {"authorization"} : request.authorization # None}
    \cup {h \in {"x-api-key"} : request.xApiKey # None}

(* _forward_headers: the headers of the client that go on to the backend. *)
ForwardHeaders ==
  HeaderNames \ (Sensitive \cup HopByHop \cup {"host", "content-length"})

(* Redactor.bytes: nothing is done to what is not UTF-8. *)
Redacted(body) == IF Redaction /\ body # "binary" THEN "redacted" ELSE body

Outgoing ==
  [headers |-> ForwardHeaders,
   authorization |-> IF BackendKey THEN "backend key" ELSE None,
   body |-> IF request.command = "GET" THEN None
            ELSE IF redact THEN Redacted(request.body) ELSE request.body]

(* _forward: connect and send; http.client has exceptions of its own. *)
Forward ==
  /\ \/ /\ Stage("forward", \/ Goto("receive")
                            \/ \E e \in {"TimeoutError", "OSError", "other"} : Raise(e))
        /\ forwarded' = Outgoing
     \/ /\ Stage("forward", \E e \in {"TimeoutError", "OSError", "other"} : Raise(e))
        /\ UNCHANGED forwarded
  /\ UNCHANGED <<principal, routed, redact, charged, piece>>

(* The body arrives piece by piece, any number of them; the timeout is that *)
(* of one read of the socket.                                               *)
Receive ==
  /\ \/ /\ Stage("receive", Goto("receive"))
        /\ piece' = 1 - piece
     \/ /\ Stage("receive", \/ Goto("respond")
                            \/ \E e \in {"TimeoutError", "OSError", "other"} : Raise(e))
        /\ UNCHANGED piece
  /\ UNCHANGED <<principal, routed, redact, charged, forwarded>>

(* HTTPStatus(response_status) raises ValueError for a code without a name; *)
(* with the code assigned, a token count of the body may raise.             *)
Relay ==
  /\ Stage("respond",
           \/ Raise("other")
           \/ \E s \in KnownCodes : \/ Answer(s)
                                  \/ /\ pc' = "except"
                                     /\ status' = s
                                     /\ raised' = "other"
                                     /\ UNCHANGED response)
  /\ UNCHANGED flow

(* Mutant: no clause for a denial of the policy. *)
ClauseWithoutPolicy == [PayloadTooLarge |-> 413, BadJSON |-> 400,
                        TimeoutError |-> 504, OSError |-> 502]

Clause == [PayloadTooLarge |-> 413, BadJSON |-> 400, PolicyDenied |-> 403,
           TimeoutError |-> 504, OSError |-> 502]

(* Mutant: the clauses answer without assigning status. *)
ExceptWithoutStatus ==
  /\ Stage("except", IF raised \in DOMAIN Clause THEN Reply(Clause[raised])
                                                 ELSE Goto("access"))
  /\ UNCHANGED flow

(* The clause of the exception answers; an exception without a clause       *)
(* escapes at once.  Either way the finally clause comes last.              *)
Except ==
  /\ Stage("except", IF raised \in DOMAIN Clause THEN Answer(Clause[raised])
                                                 ELSE Goto("access"))
  /\ UNCHANGED flow

(* A record is made, or is not configured, or fails and takes the ones      *)
(* after it along.                                                          *)
Made(record, configured, next) ==
  \/ /\ record' = IF configured THEN status ELSE record
     /\ pc' = next
     /\ UNCHANGED unrecorded
  \/ /\ configured
     /\ unrecorded' = TRUE
     /\ pc' = "end"
     /\ UNCHANGED record

RecordAccess ==
  /\ pc = "access"
  /\ Made(access, AccessLog, "audit")
  /\ UNCHANGED <<request, status, raised, response, client, flow, audit, metrics>>

(* Mutant: the metrics count a request whose audit record failed. *)
RecordAuditSwallowed ==
  /\ pc = "audit"
  /\ pc' = "metrics"
  /\ audit' \in {audit, status}
  /\ UNCHANGED <<request, status, raised, response, client, flow, access, metrics, unrecorded>>

RecordAudit ==
  /\ pc = "audit"
  /\ Made(audit, AuditFile, "metrics")
  /\ UNCHANGED <<request, status, raised, response, client, flow, access, metrics>>

RecordMetrics ==
  /\ pc = "metrics"
  /\ metrics' = status
  /\ pc' = "end"
  /\ UNCHANGED <<request, status, raised, response, client, flow, access, audit, unrecorded>>

Handle ==
  \/ Dispatch \/ Admin \/ Body \/ Authenticate \/ FindRoute \/ Endpoint
  \/ Limiter \/ Limits \/ Forward \/ Receive \/ Relay \/ Except
  \/ WriteHeaders \/ WriteBody
  \/ RecordAccess \/ RecordAudit \/ RecordMetrics

Next == Handle \/ Leave

Spec == Init /\ [][Next]_vars
-------------------------------------------------------------------------------
(* What was recorded of a request is what its client was told: the code of  *)
(* the response it got, on every way through the handler, its clauses and   *)
(* the endpoint for keys; of a response that the client cut off after its   *)
(* status line, that code or the one of the clause that caught the failed   *)
(* write (server.py:95-213).                                                *)
RecordsAreTrue ==
  /\ whole => sent # None /\ {access, audit, metrics} \subseteq {sent, None}
  /\ sent # None =>
       {access, audit, metrics} \subseteq {sent, Clause.OSError, Clause.TimeoutError, None}

(* A client that stays gets the whole of a response, whatever fails on the  *)
(* way, unless an exception occurs that no clause names (server.py:164-178). *)
PatientClientIsAnswered ==
  pc = "end" /\ client => whole \/ raised = "other"

(* Every request that ends leaves all the configured records, also if an    *)
(* exception escapes, unless making one of them failed; and a request that  *)
(* the metrics count is in the audit log (server.py:179-213).               *)
EveryEndIsRecorded ==
  /\ pc = "end" /\ ~unrecorded => metrics # None
  /\ metrics # None => (AuditFile => audit # None) /\ (AccessLog => access # None)

(* Quota is used up only by requests that were authenticated by the one     *)
(* credential that counts, and routed; what goes to a backend was counted   *)
(* in every window; a refusal before the limiter costs nothing, and one by  *)
(* the limiter nothing of the day, though it may cost a place of the minute *)
(* (server.py:125-159, 236-245, 382-398, rate_limit.py:14-20).              *)
QuotaIsDue ==
  /\ forwarded # None => charged = Quotas
  /\ charged # {} => routed /\ principal = Supplied
                     /\ (principal = "token" => request.authorization = "token")
  /\ forwarded = None /\ sent \in {401, 403, 413} => charged = {}
  /\ forwarded = None /\ sent = 429 => "day" \notin charged

(* A backend sees no credential of a client, by whatever combination of     *)
(* headers it authenticated; and if redaction is due, no body but a         *)
(* redacted one: what the redactor passes over has been refused before      *)
(* (server.py:221-230, 308-325, 408-420, redaction.py:34-41).               *)
BackendSeesNoSecret ==
  forwarded # None =>
    /\ forwarded.headers \cap Sensitive = {}
    /\ redact /\ Redaction => forwarded.body \in {None, "redacted"}
===============================================================================
