# A verification project for private-llm-gateway

TLA+ models of the gateway's own logic, the TLC runs that check them on small
instances, and TLAPS proofs for every value of the constants. Line numbers
refer to the repository (`gateway/*.py`, `docs/`, `PLAN.md`).

Contents: [the system](#the-system) · [modules](#the-modules) ·
[runs](#the-runs) · [proofs](#the-proofs) · [what the checks
found](#what-the-checks-found) · [not modelled](#not-modelled) · [plan](#plan)

## The system

A private gateway in front of LLM backends: one Python process, an HTTP/1.0
server with one thread for each connection. A handler class closes over one
instance of each component; threads share those instances and **no lock exists
anywhere**.

| Component | State | Operations | Talks to |
|---|---|---|---|
| `GatewayHandler` (`server.py`) | the locals of one request | `_handle` and its stages, clauses and records | everything below |
| `APIKeyStore` (`auth.py:25-67`) | `_dynamic_keys`, `_load_error`, `_mtime_ns` | `authenticate`, `_load_dynamic_keys` | the key file (reads) |
| Key management (`auth.py:70-126, 226-240`) | none of its own | issue, update (revoke), rotate | the key file (read, truncate, write) |
| `TenantRateLimiter` (`rate_limit.py`) | two deques of times per tenant | `allow` | the clock |
| `PolicyResolver` (`policy.py`) and validation (`config.py:386-526`) | immutable dictionaries | `resolve`, `route_for_models_endpoint`, `privacy_class_for_payload`, `_validate_policy` | the configuration |
| `JWTVerifier` (`auth.py:135-192`) | keys by id, mtime | `verify`, `_load_keys` | the JWKS file, the clock |
| `AuditLogger` (`audit.py`) | a file, appended | `write`, pruning at start-up | the disk |
| `MetricsRegistry` (`metrics.py`) | two counters by label | `observe`, `prometheus` | — |
| `GatewayLogger` (`logging.py`) | a file, a terminal | `access`, `info`, `error` | the disk |
| `Redactor`, trace filter | compiled patterns | `text`, `bytes`, `filter_trace_attributes` | — |
| Configuration, command line, TLS set-up | — | `load_config`, `parse_config`, `main`, `run_gateway` | files, environment |

How they interact. The handler calls the components in a fixed order
(authenticate, resolve, endpoint and model check, limiter, body limits, forward,
relay) and in a `finally` clause makes three records. Request threads meet in
the key store, the limiter, the metrics and the logs. The admin endpoint and
the key store never call each other: they meet only in the **key file**, which
the store watches by its modification time and the endpoint rewrites in place.

What is hard in this system:

* the cache of the key file is refreshed by many threads at once, with a file
  that changes between the stat and the read, and between the read and the
  assignments;
* key management is read–modify–write on a file, without exclusion, and the
  write truncates first;
* the limiter tests and appends in two steps, and threads prune for each other
  with clock readings that are out of order;
* start-up validation and per-request resolution must agree about duplicated
  names, order of lists and precedence of flags;
* the JWKS cache is used two steps after it was refreshed, and twice, so that
  another thread's load may come in between;
* handlers share one log stream, append to one audit file and update counters
  that a scrape reads in two passes;
* every exception a stage may raise must lead to one response and three
  records that tell the truth;
* crashes and failing writes while the key file is being replaced.

What makes each component correct: the store answers as the file justifies at
some moment of the call, and follows the file; key management amounts to an
atomic table, and what it revoked stays revoked; the limiter admits no more
than it may and refuses only when full; the policy routes exactly along the
documented links; the verifier accepts and refuses as the JWKS file justifies
near the call; what is counted is recorded, and records survive until they
expire; the handler answers, charges and records truthfully, and passes on no
credential. The
list of hazards, each at its line, is in `PROJECT.json`.

## The modules

| Module | What it is |
|---|---|
| `KeyFile` | the contents of the key file and the pure functions on them: loading, deciding, applying a request |
| `KeyStore` | `APIKeyStore` under any number of threads, with an environment that changes the file and restarts |
| `KeyStoreProofs` | its theorems |
| `KeyAdmin` | the admin endpoint under any number of threads, at the grain of file operations, with faults |
| `KeyAdminProofs` | its theorems, and that it implements `KeyRegistry` |
| `KeyRegistry` | the abstract specification of key management: an atomic table |
| `KeyManagement` | `KeyStore` and `KeyAdmin` composed over one file |
| `KeyManagementProofs` | that the composition implements both, and the promises that need both |
| `RateLimiter` | `TenantRateLimiter` for one tenant under any number of threads |
| `RateLimiterProofs` | its theorems |
| `Policy` | validation and resolution as operators, and a small machine that starts and serves |
| `PolicyProofs` | its theorems |
| `Gateway` | the control of one `_handle`, its credentials and what it sends to the backend |
| `GatewayProofs` | its theorems |
| `JwtVerifier` | `JWTVerifier` under any number of threads, over a JWKS file that changes and a clock |
| `JwtVerifierProofs` | its theorems |
| `Records` | access log, audit file and counters under any number of handlers, with failing writes and restarts |
| `RecordsProofs` | its theorems |
| `MC*` | the instances for TLC: model values, bounds, symmetry |

Definitions marked *Mutant* are wrong on purpose: each replaces a definition
of the code the way a plausible bug would, and the property named in
`PROJECT.json` fails with it. Nothing else refers to them.

### The grain of a step

CPython switches threads at calls and at backward jumps, not between plain
assignments. So `self._dynamic_keys = …; self._load_error = …;
self._mtime_ns = …` (65–67) is one step, while `stat()`, `read_text()`,
`time.time()`, `popleft()`, `len()` and `append()` each end one. Where a backward jump
lands depends on the version: 3.13 and later jump back to the test of a `while` loop, so
that the test and the first call of the body belong together; 3.11 and 3.12, which
`pyproject.toml:9` allows too, compile the test a second time at the bottom of the loop
and jump from there to the body. This matters to the pruning loop of the limiter
(`bottom`). This is the GIL build; a
free-threaded interpreter could separate the assignments, and the key store
results would not carry over to it. The walk over the loaded tuples in
`authenticate` (38–43) is part of the step that read the tuple: tuples are
immutable and the loop evaluates `self._dynamic_keys` once, right after the
test of `_load_error`. A thread switch between the return of
`_load_dynamic_keys` and that evaluation would need an interrupt at the return
itself, where CPython does not look for one.

### KeyFile and KeyStore

`content`, `mtime` are the file; `cache` holds `_dynamic_keys`, `_load_error`
and `_mtime_ns`; `pc`, `supplied`, `statM`, `got` are the locals of each thread in
`authenticate`; `outcome` is what it returned; `seen` is a history of the
contents the file had while the call ran. `Begin` enters, `Stat` is line 49,
`Gone` the handler 50–53, `Keep` and `Reload` the two sides of line 54,
`Read` lines 57–59, `Publish` 60–67; the last step of a call also decides
(36–43). `Restart` is a new process: a new `APIKeyStore` with a forced load.
A read of a file that vanished after the stat is a failed load, as in the code
(`OSError`, line 60), and `_load_error` outlives a file that is removed
(line 50–53), as in the code.

`Content` distinguishes no file, an empty file, text that is not JSON, and JSON
with a set of records. Blank ids and tenants are kept because one such record
fails the whole load (`_parse_key_record`). Left out: text that is not UTF-8
(its `UnicodeDecodeError` is not caught at line 60 and ends the request), the
order of records, and the allowed models of a key, which are copied like the
tenant. A hash matches one plaintext.

### KeyAdmin and KeyRegistry

`Receive` takes a request and draws the secret (77, 117 come before the read);
`Exists` and `Read` are `_read_records`; `Apply` checks and changes the
records in memory; `Open` is the truncation by `write_text`, `Write` the write.
With two admin threads a write may land over what another one has written; then
the text of the longer one sticks out behind (`Overlaid`). With `Faults`,
opening and writing may fail (the endpoint answers 400 for `OSError`) and the process may stop
at any point. A damaged file may be text, which is refused, or JSON of another
form, at which the request ends with an exception that nothing catches (`Raise`). `stored` (the last records written in full), `made`, `dead` and
`old` are histories.

`KeyRegistry` has a table, a `Generate` and a `Serve` that changes the table at
once. The refinement mapping is `table <- stored`: whatever the file looks like
halfway, it is the last complete write that counts.

### KeyManagement

Conjoins the steps of the two modules over one `content` and adds `mtime`, which
every change of the file moves; `Restart` is `Admin!Crash /\ Store!Restart`. No
request is received once the file has changed `MaxMtime` times, and those under way
may change it twice each, so the instance of `KeyStore` is bounded by `MaxMtime + 2 *
Cardinality(Admins)`. `barred` and `entitled` are histories of calls
whose secret has been dead, or valid, ever since the call began.

### RateLimiter

One tenant: `values` are its two deques, `now` and `at` the locals of each
thread. `Start` reads the clock once for both windows (15), `Prune` is the test
of the loop (25) with the `popleft` after it (26), `Refuse` and `Measure` the test of the
length (27), `Add` the append (29), which goes on to the next window or returns. The
interpreter is a variable that never changes: with
`bottom` (CPython 3.11 and 3.12) this is so for the first turn of the loop only:
`Test` is the repeated test and `Pop` the `popleft` it leads to, and between the two other
threads may remove the entry that was tested. Then `Pop` removes the next one, however
young, or raises `IndexError`. A limit of 0 skips its window.
`log` is a history of the admissions per window, in the order in which they were
appended; `Tick` drops its front up to the first entry still in the window, which
no later window can contain either. The clock never steps back.

### Policy

`Valid` is what `parse_config`, `_parse_route`, `_parse_endpoint`,
`_parse_policy` and `_validate_policy` require of routes, static keys and
policy. `Resolved` is `privacy_class_for_payload` followed by
`route_for_models_endpoint` or `resolve`, and `Admits` the two checks of the
handler that follow (139–147): the endpoints of the route, and the models of
the principal. `Decide` joins them. An endpoint is one value for method and
path; the only one the resolver tells apart is `Listing` (GET `/v1/models`).
Routes and tenant policies are sequences because dictionaries built from them
let the last of a name win while searches take the first; names are taken as
already stripped, and privacy classes as already in lower case. `PolicyAssumption`
says what parsing guarantees: lists are tuples, the global flag is a flag, and only
a listing names no model. `Legacy` is the
gateway without a policy section, for which no property about classes is
stated.

### Gateway

`request` is what the handler tells apart of a request: method, path, body, the
two headers that may hold a credential, the names of the others. `pc` is the
stage; `status` and `raised` are as in the code, `principal` is the credential
that was accepted, `redact` the flag of the decision; `sent`, `charged`,
`routed`, `forwarded` (what `_forward` sent) are histories. A stage
goes on, answers, or raises one of the exceptions that its calls can raise;
`Except` is the clause that names the exception, or none (`"other"`:
`ValueError`, `OverflowError`, `TypeError`, `RecursionError`, `http.client`
exceptions, `ConfigError`, …). A response is two writes: `WriteHeaders`
(`end_headers`, after which the client knows the code, `sent`) and `WriteBody`
(`wfile.write`, after which it has the `whole` of it). The client may leave at any
moment, after which either write may raise `OSError` or be lost; so a client that got
status 200 and left before the body is recorded as 502, by the clause for failed
backends. `Limiter` knows the two windows (`Quotas`): a refusal by the day leaves the
entry of the minute in `charged`. `Receive` takes piece after piece of the backend's body, and
nothing bounds their number; only the parity of it is kept (`piece`). The three records are steps of their own and each
may fail, which skips the rest. A redacted body is one value: what the patterns
find is not modelled, but that text which is not UTF-8 passes through
unredacted is (`redaction.py:39`).

### JwtVerifier

`file`, `mtime` are the JWKS file; `cache` holds `_keys` and `_mtime_ns`; `pc`,
`token`, `statM`, `got` are the locals of each call, `outcome` how it ended.
`Stat` is 181, `Keep` and `Reload` line 182, `Read` 184–190 (raises for a file
that is gone or has no usable key), `Publish` 191–192, `Lookup` 147–157, `Sign`
158–161, `Claims` 162–175 with its own reading of the clock. Claims that are not an
object (`"claimless"`) get as far as `Claims` and raise there. Unlike the key
store, the step that refreshes the cache does not use it, so another call may
publish in between. `own` is the history of contents during the call, `around`
what the calls it overlaps at its beginning had seen by then: those are the
loads that may still be published during it. Every change of the file has a
time of its own here; what a shared one does is shown on the key store. A token
is a record of what the checks compare; the audience of a token is a set;
signing is equality of keys.

### Records

`buffer` and `log` are the stream of the access log and its file, `audit` the
audit file as a sequence of records (`whole = FALSE` for one that was cut off),
`requests` and `latency` the requests that the two counters cover, `shown` and
`before` the locals of a scrape. `Access`, `Flush`, `Terminal` are
`GatewayLogger.access`; `Stamp` and `AppendRecord` are `AuditLogger.write`, where
the timestamp is read before the file is opened; `Observe` is the metrics;
`Render` and `Sums` are the passes of `prometheus`. `Restart` empties an audit
file that is older than the retention by its modification time. Retention is in
ticks. Requests are told apart by a number, and label sets are left out.

## The runs

| Run | Bounds | Shows |
|---|---|---|
| `keystore` | 2 threads, 4 contents, 2 changes of the file | every answer is justified; equal times mean equal keys; `IInv` holds; the cache converges |
| `admin_serial` | 1 admin thread, 2 ids and a blank one, 3 secrets, faults | requests implement `KeyRegistry`; dead secrets stay dead |
| `admin_parallel` | 2 admin threads, faults | readable files are consistent; damaged ones are not replaced |
| `admin_race` | 2 admin threads, no faults | **violation** of `RevokedStaysRevoked` |
| `management` | 2 request threads, 1 admin thread, 2 secrets and a static one, faults, restarts | acknowledged revocations hold; valid keys are accepted while the file loads |
| `management_outage` | 1 request thread, 1 admin thread, no faults, changes may share a time | **violation** of `OutageEnds` |
| `limiter` | 3 threads, limits 1 and 3, windows 1 and 2, 3 clock readings, both kinds of interpreter | room and undue refusals are bounded by the other threads; on CPython 3.13+ so is the overshoot, and both windows count the same |
| `limiter_race` | 2 threads | **violation** of `QuotaRespected` |
| `policy` | 2 routes, 1–2 tenants, up to 2 rules; every combination of redaction settings; every assignment of endpoints and of models to a key; routes without a policy | links, denials, rules and redaction |
| `gateway` | every method, path and body with a good key; every pair of credentials; 2 known codes | answers, records, quota, what the backend gets |
| `jwt` | 2 threads, 5 contents, 4 tokens, 2 changes of the file, 2 clock readings | acceptances, refusals and exceptions are justified; the cache converges |
| `records` | 2 threads, 3 requests, retention 1, 4 clock readings, faults, restarts | counted means recorded; young records survive; scrapes are consistent; access lines are not doubled, nor lost under their handlers |

Why the bounds are enough. *Key store*: the interplay is between a loader, a
second loader and the file; two changes give each loader a stale and a newer
version (the proofs lift the bound anyway). *Key management*: two threads are
what a race needs; three secrets let a key be issued and rotated twice from an
initial one. *Management*: `MaxMtime = 3` stops new requests once the file has
changed three times, and a request under way may still finish, so two complete
requests and an interrupted one fit. *Limiter*: with three threads two others
may overtake, and a day limit of 3 leaves their margin short of the limit, so that a refusal must find an entry in the window; the minute is the shortest window the clock can resolve and the
clock passes both windows; the day holds three entries, so that an expired one can have a
live one behind it, which one thread tests and another one pops. *Policy*: a rule and a search, a local and an
external route, and one name used twice are all there. *Gateway*: every
transition of the handler is there, and the backend's pieces are not bounded. *JWT*: a
thread with a stale load, one that overlaps it, and two changes; the file may
lose its key id, change the key under the id, become unusable or vanish; a token may
be signed with either key, have another audience or no claims, or expire while it is
checked. The other ways in which a token is wrong (no expiry, another issuer, another
form) take the same branches, and the theorems cover them. *Records*: two handlers in
flight and a third request for one of them to be overtaken by; the clock passes
the retention between two records.

The threads of `management`, `limiter` and `records` are symmetric: no property of these
runs names one and none of them is a liveness property. `policy` may deadlock because a
rejected configuration stops the gateway, `gateway` because a handled request
is over; all other runs check deadlock.

**Fairness.** `KeyStore!FairSpec`: each request thread goes on running and
requests keep arriving (a daemon thread of the server, no lock it could wait
for); nothing forces a change of the file or a restart. `Gateway!Spec` has
none: that a request ends is not claimed, because nothing in the code bounds the wait for the
client's body (`rfile.read` has no timeout) or the number of pieces of a backend's.
`JwtVerifier!Spec`: the same as for the key store. `KeyManagement!FairSpec`: request threads
as in `KeyStore`, and an admin thread that has a request goes on with it;
nobody has to send one.

## The proofs

`KeyStoreProofs` (any set of threads, any contents, any number of changes):

* `TypeCorrect`: `Spec => []TypeOK`;
* under `~CoarseMtime`, `Inductive`: `Spec => []IInv`, and from it
  `AcceptsAreJustified`, `DenialsAreJustified` and `EqualTimesEqualKeys`.

The properties alone are not inductive. `IInv` adds what makes them so: a
running call has seen the current content; recorded times are never ahead of
the file; whatever carries the time of the file was read from the file as it is
(`SameTimeSameFile`, the reason for storing the time from *before* the read);
and a call that is about to keep the cache has seen the content it was loaded from, even if another
thread publishes in between (`CacheWasSeen`). The proof has one step per
action, each with one step per conjunct. `DecideJustified` is shared by the
three steps that end a call. Assumptions: `KeyFileAssumption`,
`KeyStoreAssumption`, and that two changes of the file never share a time,
which `management_outage` shows to matter: with a shared time the cache may
stay at odds with the file for good.

`KeyAdminProofs` (any set of threads, any requests and secrets, with faults):

* for interleaved requests, `TypeCorrect`, `DamageKept`, and, if the first file
  names no key twice (`StartsConsistent`), `ReadableConsistent`. `IInv` is the
  types, where records and secrets come from (`Provenance`: nothing holds a
  secret that was not drawn), and that a secret just drawn is in no records and
  no other thread's hands yet (`Unused`), which is why two requests that overwrite each other still cannot
  produce two records of one secret;
* for requests that come one at a time (`Serial`: there is at most one admin
  thread), `RevocationsLast` and `RegistryImplemented`. They rest on `SInv`: a
  readable file holds the last records written in full (`FileIsStored`), a
  request about to write would apply to just these (`AppliesToStored`), and
  dead secrets are revoked or gone there. A `Write` is then a `Serve` of
  `KeyRegistry`, a `Receive` a `Generate`, and every other step a stutter.
  `admin_race` shows that `Serial` matters.

`KeyManagementProofs` (any request threads, any finite set of admin threads):

* `AdminImplemented` and `StoreImplemented`: `Spec => Admin!Spec` and
  `Spec => Store!Spec`, step by step. An admin step is a change of the file for
  `KeyStore`, a request thread's step a stutter for `KeyAdmin`. The bound of
  `KeyStore` needs an invariant (`ChangesBounded`: the changes so far and those
  that requests under way can still make). So the theorems about the parts hold
  of the process;
* `RevokedRefused`, with distinct modification times, `Serial` and
  `StartsConsistent`: whatever a barred call has seen keeps its secret dead, and
  by `AcceptJustified` of the store it is granted only by what it has seen;
* `ValidAccepted`, with distinct modification times only: a call is refused by a
  content it saw (`DenialSeen`, which extends `DenyJustified` to calls that find
  the file missing), and every content that an entitled call saw and that can be
  loaded grants its secret (`EntitledSeen`). While the file is missing nothing
  has failed to load (`NoFileNoLoad`), because the endpoint never removes it.

`RateLimiterProofs` (any finite set of threads, any limits and windows):
`TypeCorrect`, `RoomBounded` and `RefusalsDue` on any interpreter, `QuotaBounded` and
`BothCounted` where `~bottom` (CPython 3.13 and later), which is part of the two
properties. With `bottom` both fail, already on the instance of `limiter`: a thread that
tested an expired entry pops the live one behind it after another thread has removed the
first.
`RoomIsBounded` needs only the types: a test that finds room adds one claim, of
at most as many as there are threads, to fewer entries than the limit; an
append turns a claim into an entry. The others need what pruning does although
readings of the clock are out of order: `NoneAhead` (no reading is ahead of
the clock), `Held` (for every moment still in the window, the deque has as many
later entries as the history of admissions: no thread prunes what counts),
`Both` (for every reading, the admissions of the day and the threads on the way
to it are covered by entries of the minute), and `Late` (behind each entry
there are, with the threads that still may append, at most as many entries
with an older reading as there are other threads). `Held` turns the bound on
entries into one on admissions; `Late` bounds the expired entries that pruning
from the front leaves, and with them the undue refusals.

`PolicyProofs` (any configurations and requests that satisfy
`PolicyAssumption`): `LinksRequired`, `DenialsDue`, `RulesObeyed`,
`ListedRedacted`. The machine adds little: `IInv` says that a gateway that
serves has a valid configuration and that decisions are those of `Decide`. The
work is in lemmas on the operators: what the searches for the first and last
element return (from the well-foundedness of the naturals), that validation
looks at the same tenant policy and route as resolution, also when names are
duplicated (`RouteFacts`, `TenantFacts`), that there is one rule for a key
because there are as many keys as rules (`OneRuleEach`, by counting), that what
is resolved is linked and that something is resolved if anything is linked
(`ResolvedLinks`, `ResolvedComplete`), and the order of the eight flags
(`RedactFacts`).

`JwtVerifierProofs` (any set of threads, tokens and contents): `TypeCorrect`,
`AcceptsJustified`, `RefusalsJustified`, `RaisesJustified`, which are properties of
steps. `RaisesJustified` does not say that overlapping loads never make `verify` raise:
with a key id that comes or goes near the call, one may take it away between the two
uses of the cache (156, 159), and the `KeyError` is not caught. It says that on a good
token and a usable file this is the only way. `IInv` is that of the key store with contents near a call in place of
those seen: loads that may still be published, and the cache a call finds when
it looks up its key, are of contents near it (`LoadsAreNear`, `CacheIsNear`), and
what a call has passed holds of one of them (`Passed`). Every change of the
JWKS file has a time of its own in this model, which is the assumption
`~CoarseMtime` of the key store.

`RecordsProofs` (any set of threads, any number of requests, any retention, with
faults): `TypeCorrect`, `YoungSurvive`, `CountedRecorded`, `ScrapeConsistent`,
`OneLineEach`. `IInv` adds that each handler has a request of its own; that a
request has no line before its handler writes it and keeps it afterwards
(`LinesAreDue`), the lines still in the stream included; that what is counted has
passed the records before it (`InOrder`); that a scrape copies the counts before
the sums and both only grow (`CountsBeforeSums`); and that no record is younger
than the file it is in (`NoneYounger`), so that a file old enough to be emptied
holds only old ones.

`GatewayProofs` (any requests, any codes of a backend, any settings):
`TypeCorrect`, `RecordsTrue`, `PatientAnswered`, `EndsRecorded`, `QuotaDue` and
`SecretsKept`. `IInv` is the types and six conjuncts: `Truth` (nothing is
recorded before the records are due; a response is written with the status of the
request, which the endpoint for keys returns at its end; only a failed write leads
from one response to another; and from the records on `status` is what was sent, or
502 or 504 if the response was cut off); `Progress` (what has been established when the handler is at a stage: from
`authenticate` on the body was parsed, from `route` on the credential is the one
that counts, after the limiter the request is charged in every window); `Charged` (a request that
was charged is not refused with 401, 403 or 413, nor, in the day, with 429), which
rests on the codes of the clauses; `Answered` (with the records due, a client that
stays has its answer unless the exception has no clause); `Recorded` (the
configured records are made in their order); and `Private`. An exception is caught stages
after what it interrupts, hence `Progress`. The assumption is `GatewayAssumption`:
the types of the settings, and that `None` is none of the values it is compared
with.

**Assumptions.** Each theorem holds for all constants that satisfy the named
`ASSUME`s of its module, which TLC evaluates in the runs: types of parameters,
`None` and the blank name apart from values, finite sets where threads are
counted. `StartsConsistent` says of the first key file what the endpoint
guarantees for every later one (`ReadableConsistent`); a file edited by hand to
have an id twice is outside it. `Serial` and `~CoarseMtime` are not guaranteed by
the code: the runs `admin_race` and `management_outage` show what happens without
them, and the theorems say that nothing else can go wrong.

Every invariant and every action property of a passing run, and the refinement of
`KeyRegistry`, is the statement of a theorem. **Only model-checked**: liveness
(`Converges` of the key store and the verifier), which needs fairness and
is out of the prover's reach. The properties of the violation runs are refuted, by
TLC. That the refinements also preserve fairness is not claimed.

## What the checks found

1. `auth.py:102` — concurrent admin requests lose an acknowledged revocation
   (`docs/configuration.md:96`).
2. `auth.py:54` — the truncation and the write of a key file (`auth.py:240`) may
   share one `st_mtime_ns`; a request that loads the empty file in between
   records that time with its failed load, and every key, static ones too, is
   refused until the file changes again (`docs/configuration.md:98`, "The gateway
   reloads the key file when it changes."). With distinct times the property
   holds.
3. `rate_limit.py:27` — concurrent requests exceed the quota
   (`docs/configuration.md:190`), by at most the number of other threads (on
   CPython 3.13 and later).

Seen while modelling and not stated as properties:

* with distinct times too, all keys are refused while the key file is truncated
  (`auth.py:240`; `PLAN.md:141` has keys managed "without restarting the gateway"),
  and with a shared time a revoked key may stay accepted (`auth.py:54`);
* an issue with a blank id or tenant is acknowledged and then fails every load
  (`auth.py:78`, `server.py:265`); after a failed load, a removed file refuses the
  static keys (`auth.py:50`);
* a day refusal has used a place of the minute (`rate_limit.py:16-18`); a body
  rejected by `_validate_limits` has used quota (`server.py:148-153`);
* on CPython 3.11 and 3.12 one thread may pop an entry that is in the window, so that
  the quota is exceeded by more, or find the deque empty and raise `IndexError`, which
  ends the request without a response (`rate_limit.py:25-26`);
* a client that leaves is recorded as a 502 (`server.py:176`), also if it got the
  status line of another response (`server.py:338-339`, `364-365`), and also if the key
  it asked for was stored (`server.py:273-295`);
* the timeout of a backend is one of each read of the socket, not of the request: a
  backend that sends its body piece by piece holds the handler for as long as it likes
  and is not answered with 504 (`server.py:326`; `docs/configuration.md:189`);
* a negative `Content-Length` passes the first check of the size and reads the body to
  its end (`server.py:216-219`); the second check comes after the limiter (`298`);
* without a policy section the privacy class is not looked at (`policy.py:45`);
* the search of the allowlist settles on a backend before the endpoint is
  looked at, so a request may be denied although a later backend of the tenant
  has the endpoint (`policy.py:110`, `server.py:139`);
* the body is read and parsed before the request is authenticated
  (`server.py:121-125`);
* `X-Api-Key` is not looked at if there is a bearer (`server.py:382-389`), and a
  credential that is not ASCII ends the request without a response
  (`auth.py:195-197`);
* `redaction.enabled: false` switches off the redaction that a policy asks for
  (`redaction.py:35`);
* a token whose `allowed_models` claim is not a list is not restricted
  (`auth.py:173-174`), and malformed tokens and a missing JWKS file raise instead
  of refusing (`auth.py:156-167`, `181`); a key file that is JSON but not an object ends a
  request of key management without an answer (`auth.py:231`, `server.py:293`);
* an audit record that was cut off takes the next one along (`audit.py:27`), and
  every record renews the age of the whole file (`audit.py:35`).

## Not modelled

Parsing of the configuration field by field; texts: hashing, the patterns of the
redactor, log lines, metric labels; the trace filter, which nothing in the
program calls; response headers and token counts of a backend's answer; TLS and
the listening loop; the command line; deployment files. These are straight-line
code without state, for which a model would repeat the source.
`PROJECT.json` lists each with its reason. A clock that steps back, a
free-threaded interpreter and non-UTF-8 key files are outside the models above.
With a clock that steps back the limiter may refuse for longer than a window,
because it prunes from the front only.

## Plan

In the order of what matters most:

1. *Done*: every component above marked as modelled, with a theorem for each of
   its safety properties.
2. Left to prove: that `KeyAdmin` with any number of threads implements
   `KeyRegistry` as long as no two requests overlap, with the overlap as a history
   in place of `Serial`, and `RevokedRefused` from it; how many admissions a window of
   the limiter can hold on CPython 3.11 and 3.12; the order of precedence of
   `Redact` as an equation, where `ListedRedacted` bounds what is not redacted; and
   the routes of `Legacy`, which have no theorem.
