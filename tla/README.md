# Karaxys backend: TLA+ specifications

Karaxys observes HTTP conversations of running services, builds an inventory of
their endpoints from them, and scans those endpoints on request. The backend is
a set of Go processes that share MongoDB, Redis (or Valkey) and a Kafka-compatible
broker. Its hard parts are not computations but protocols: many processes update
the same documents, each of the calls they make can fail or be applied without
the caller knowing, and every process can die between two of them. These modules
describe those protocols one external call at a time, TLC checks them on small
instances, and TLAPS proves the central invariants for instances of every size.

`PROJECT.json` maps each definition to the lines of the code it stands for and
lists the components, runs, hazards, findings and theorems.

## 1. The system

### Components

| Component | State | Operations | Correct means |
|---|---|---|---|
| Scan API (`internal/api/server.go`, `scan_suite.go`) | none of its own; writes `scan_jobs`, `scan_secrets`, the topic `karaxys.scan.jobs` | trigger, suite, rerun, cancel | a job that is queued has its credential; a failed request leaves nothing behind that misbehaves |
| Scan job store (`internal/db/repository.go`) | `scan_jobs`: status, `not_before_at`, `results_count`; `scan_results`, `issues`, `scan_progress_events` | create, claim, requeue, complete, fail, time out, cancel, save result | one owner per job, settled jobs never change, results belong to one execution |
| Scanner worker (`cmd/scanner-worker`) | the job it holds, its deferred calls, its place in the result list | poll or consume, lock, admission, hydrate, execute, store, complete, release, commit | every queued job settles; limits hold; the credential of a job that was executed is removed |
| Coordination (`internal/coordination`) | Redis: a lock per job, semaphore slots, a rate window per target, progress cache | lock, release, acquire, allow; expiry of each | mutual exclusion and limits while leases last |
| Ingestor (`internal/ingest`, `cmd/ingestor`, `POST /ingest` of the API) | none of its own; writes `traffic_logs`, `traffic_conversations`, `ingest_dead_letters`, the topic `karaxys.http.conversations` | validate, deduplicate, store, prune, publish or analyze, answer | nothing answered as accepted is lost |
| Runtime analyzer (`internal/runtimeanalyzer`) | consumer position, committed offset | consume, load, analyze, dead-letter, commit | every published conversation is processed; replays do no harm |
| Traffic analyzer (`internal/analyzer`) | `api_inventory`, `api_parameters`, samples, `traffic_metrics`, the ledger `traffic_metric_events` | `ProcessLog`: normalize, classify, update each collection in turn | counted once, and only what is inventoried |
| Dead-letter consumer (`internal/deadletter`) | consumer position, committed offset | consume, store, commit; stop at an error | every dead letter is stored |
| Identity and sessions (`internal/api/auth_handlers.go`, `oauth_handlers.go`, `internal/db/auth_repository.go`, `oauth_repository.go`) | accounts, users, sessions, OAuth identities | signup, login, refresh, logout, OAuth login | a refused token stays refused; every user has an account; identities lead to the right user |
| Agents and data sources (`internal/db/datasource_repository.go`, `ingest_token_repository.go` and handlers) | data sources, enrollments, agents, ingest tokens | enroll, register, delete, create and rotate tokens, mark traffic seen | an enrollment registers one agent; an agent that authenticates is served; a shown token works |
| Settings (`internal/api/settings_handlers.go`, `internal/db/settings_repository.go`) | `account_settings` | read with creation of defaults, update | updates that do not overlap are kept |
| Scan planning (`internal/scanplan`, `internal/scanner`, `internal/scanpolicy`, `internal/api/scan_suite.go`) | none; reads endpoint and latest sample | which templates apply, what a suite contains, token, method, path and body of a test, target policy | a suite's answer and its jobs agree except for misreported calls; a test's token comes from the request; what redaction knows is not replayed |
| The rest | configuration, contracts, middleware, search, analytics, archive, proxy, tools | reads, formatting, single upserts | see `PROJECT.json`, components |

### How they interact

- The API inserts a job as `queued` after storing its credential, and then
  publishes an event. Workers poll the store or consume events; both paths end in
  the same conditional update (`claimScanJob`), which alone decides who owns a job.
- Users cancel at any time by another conditional update. The worker reads the
  status at a few places and carries on with what it read.
- Redis is advisory: the lock, the slots and the rate window expire on their own.
- The ingestor's deduplication is the upsert into `traffic_logs`; the event only
  refers to the stored log, which can be pruned or expire before it is loaded.
- Offsets are committed per record, but a commit covers everything before it.
- Analyzers (of the runtime analyzer, or inside requests without a broker) write
  the documents of an endpoint concurrently; the suite handler reads the endpoint
  and then its latest sample, and plans every test from what it read.
- Identity, agents, tokens and settings are written only by API requests and the
  goroutines these leave behind; the ingestor and the agent endpoints read them
  to authenticate.

### What is hard

Interleaving between the calls of different processes; updates whose filter
matches nothing and that report success; writes that are applied although they
report an error; crashes between two writes; leases that expire under their
holder; commits that pass over an earlier record; retries of requests that half
succeeded; requeue loops. `PROJECT.json`, hazards, lists each at its line with
the properties that would catch it.

## 2. Modules

| Module | What it is |
|---|---|
| `ScanJob` | the job document: statuses and, per store operation, the status filter and what it writes |
| `ScanLifecycle` | the abstract promise: one runner per job, results of one execution, settled jobs final |
| `ScanExecution` | API server, scanner workers, MongoDB, Redis and the broker for active scanning; inductive invariant `ScanInv`; refinement of `ScanLifecycle` |
| `ScanExecutionProofs` | theorems about `ScanExecution`: `ScanInv` and what follows from it |
| `ScanSafetyProofs` | extends it: lock, late results, admission, credentials of settled jobs, the refinement of `ScanLifecycle` |
| `MCScanExecution` | values for its constants |
| `ConversationPipeline` | ingestor, runtime analyzer, traffic analyzer writes, dead-letter consumer, MongoDB and broker for captured traffic |
| `MCConversationPipeline` | values for its constants |
| `ConversationPipelineProofs` | theorems about `ConversationPipeline` |
| `Identity` | accounts, users, OAuth identities and sessions under concurrent requests; `MCIdentity` |
| `IdentityProofs` | theorems about `Identity` |
| `AgentAccess` | data sources, enrollments, agents, ingest token and settings of one account; `MCAgentAccess` |
| `AgentAccessProofs` | theorems about `AgentAccess` |
| `EndpointAnalysis` | operators: what the analyzer derives from one conversation (path pattern, redaction, sensitive data, risk, rules, parameters) |
| `EndpointAnalysisProofs` | theorems about these operators |
| `SampleStore` | the abstract promise about samples: only outdated ones are deleted, at once |
| `TrafficInventory` | extends it: concurrent calls of `ProcessLog` on inventory, parameters, samples, ledger and metrics |
| `ScanPlan` | operators: template registry, suites, applicability, tokens, the configuration of a test, target policy |
| `Catalog` | composes `TrafficInventory` and `ScanPlan`: a suite is planned while analyzers write; refinement of `SampleStore`; `MCCatalog` |
| `CatalogProofs` | theorems about `Catalog`: samples and their refinement of `SampleStore`, tokens, suites |
| `CatalogCountProofs` | extends it: counters and types |

### ScanExecution

Each job is created by one request. `api[j]` is the place of that request
(`handleTriggerScan`, `enqueueSuiteJob` or `handleRerunScanJob`; their plans are
built before the first write and stand in the guard). The document fields are
functions on jobs (`status`, `deferred`, `created`, `count`), Redis keys are
functions to their holder (`lock`, `slot`) or counter (`hits`). A worker has a
program counter whose labels follow `processClaimedJob`: `claim`, `lock`,
`check`, `slot`, `rate`, `hydrate`, `execute`, `recheck`, `each`, `store`,
`issue`, `complete`, `progress`, `unwind`, with side branches for requeue,
rejection, timeout and failure. Go's deferred calls are the set `defers`, run in
`unwind` in reverse order. One action is one external call, and has one disjunct
per outcome the code distinguishes. `Ok` and `Err` say how the call ended; after
`Err` a write may or may not have been applied. `Crash` loses the worker's
volatile state: what it held in Redis stays there as `"orphan"` until it expires.

`late` counts results stored after a cancellation and `found` remembers what the
scan returned; neither influences a guard the code does not have.

Abstractions. A topic of scan events is the set of jobs with an uncommitted
event: the code treats an event as a hint to claim a job, so order and number do
not matter. The jobs of a suite may overlap in time, which the code's sequential
loop does not do; the model allows more. The cipher of the credential store is
left out; what matters is whether the document exists. The progress cache and
the progress event, written together, are one value.

### ConversationPipeline

Requests and the analyzer are processes with a program counter; `ProcessLog` is
written once and run by either, as in the code, where the API analyzes in the
request when no broker is configured (`queue` is false). `logs`,
`conversations`, `deadLetters`, `ledger` and `stored` are collections as sets,
`metrics` counts increments, topics are sequences with a position and a
committed offset for their one consumer. `PruneTrafficLogs` is two steps, a find
and a delete of at most `PruneBatch` logs, 1000 in the code. `fate[i]` records
how the analyzer ended with record i of the topic, and `unsure` the ledger keys
whose metric update was applied but reported an error; no guard reads them.

Abstractions. One partition and one consumer per topic. A conversation is its
hash; validation, identity binding and the noise filter are its `Kind`.
`ingestion_logs` are written and never read, and left out. `SaveLog` is the
upsert by conversation hash: only the command-line tools store logs without one,
with a plain insert. A batch to
`POST /ingest` is a number of deliveries. Repeated inventory, parameter and
sample writes of one conversation are not told apart (`stored` is a set), so the
model says nothing about `request_count` or the number of samples: those are in
`TrafficInventory`. The ledger
keeps its entries: its TTL starts at analysis and is as long as that of the log,
and redelivery after it is out of scope.

### Identity

`req[r]` is a request with the local variables of its handler; its `pc` names the
next MongoDB call. The unique indexes on `users.email` and on provider and
provider user id decide races as in the code. Account `n` and user `n` are
created together. A session has a status, the number of its current token pair
(an access and a refresh token are generated together) and an age: `fresh`,
`stale` (access expired), `expired` (both). `Expire` and `RemoveExpired` are time
and the TTL index. `lostUser` and `lostLink` remember for which users the store
misreported a call; they appear in properties only, as their stated exceptions.
`findSessionIdentity` reads session, user and account in one step: of these only
the session changes under a request, the other two disappear only when the
creation of the account is undone. The OAuth provider is external: `Profiles` has every combination of address and
verification `fetchOAuthProfile` can return. Requests refused before they touch
the store, cookies, audit records and password hashing are left out.

### AgentAccess

One account. Sources, enrollments and agents are sequences in insertion order.
`DeleteDataSourceForAccount` is three updates and registration is three calls, so
they interleave; `unfinished`, `slipped` and `spent` record which deletes failed
and which enrollments a delete could not reach, for the exceptions of the
properties. `token` is the account's ingest token and `shown` the ones answered
since the last rotation. The goroutine after a signup is a `GetIngestToken` like
any other, the one after `POST /ingest` is `MarkIngestTrafficSeen`. Settings are
two fields that the update handler merges with what it read.

### EndpointAnalysis and TrafficInventory

A log is a record: tenant, method, base URL, path segments with the patterns they
match, fields by location with the sensitive tags a pattern finds in them, status,
capture time and body class. Which regular expression a text matches is thus
given; what the analyzer does with the matches (order of the segment patterns,
naming and numbering of parameters, static paths, redaction of the headers
`isSensitiveHeader` knows and of texts, severity of tags, risk from data,
authentication and rules) is computed. A name is sensitive if it is one of a list or
contains one of three words, and a captured field says which of these its name
contains. A document keeps the last `PushLimit` values of
each header. `TrafficInventory` has one action per MongoDB call of `ProcessLog` with
the outcomes ok, failed and applied-but-reported-failed, the removal of the ledger
entry after a failed metric update included; the parameter updates
and the metric loop, which no other call reads in between, are one step each that
may stop after any of their calls. Sample ids grow with the inserts. `latest` of a
document stands for every field the last writer overwrites.

Loops over data are written in closed form, which reads like a definition and can be
reasoned about. A numbered parameter name is its base and its number, the count of
earlier parameters of that base (the generated names end in a fixed word, so that
a base and a number are never confused). The updates of one parameter document add up to
how many of the observations written are of this parameter; the weights of sensitive
tags add up to the number of their units.

### ScanPlan and Catalog

`Registry` has the built-in templates with their required fields and roles and one
community template. A token is its kind and where it came from (the request or
captured traffic), and a header value knows which secret, if any, it shows; this
is what `JobsUseOfferedTokens` follows from capture to plan. The headers of a job
are the first value of every stored header (`flattenHeaders`); `BuildHeaderBlock`
later drops `Authorization`, `Host`, `Content-Length` and `Connection` from what
Nuclei gets, which the model leaves out. `Catalog` has `handleTriggerSuite` in
three steps: the endpoint, the latest sample, and the planning of all selected
tests. Of the creations that report an error (`lost`) some were applied
(`misreported`); a type that fails goes to the skipped ones, and a request of
which no creation succeeded is answered 500 without any list. What becomes of a
job is the subject of `ScanExecution`.

## 3. Runs

| Run | Instance | Distinct states | Shows |
|---|---|---|---|
| `scan_faults` | 1 job with credential, 2 workers, every combination of Redis and broker, valid and invalid target, 2 results, 2 faults | 640 thousand | types, `ScanInv`, exclusive claim, credential kept while queued, complete results, at most one late result, settled is final, refinement of `ScanLifecycle` |
| `scan_admission` | 2 jobs, 2 workers (symmetric), 1 slot, rate 1 per window, Redis and broker, no faults | 1.1 million | lock excludes, live scans within the limit, no credential left of a settled job but of one cancelled before it was executed, capacity never fails a job |
| `scan_liveness` | 2 jobs, 2 workers, 1 slot, no faults, fair | 198 thousand | every queued job settles |
| `scan_lease` | as above, scans longer than leases | violation | the limit on live scans is exceeded |
| `scan_progress` | 1 job, 2 workers | violation | the final progress record contradicts the job |
| `scan_stuck` | 1 job, 1 fault, fair | violation | a job stays running for ever |
| `pipeline` | 2 deliveries of 4 conversations (two proper, one refused, one dropped), room for one log, with and without broker, 2 faults, fair | 585 thousand | see below |
| `pipeline_retry` | same, 1 fault | violation | a retried conversation is answered 202 and never published |
| `pipeline_commit` | same, 1 fault | violation | a record is committed that was neither analyzed nor dead-lettered |
| `identity` | 2 requests at a time, 1 address, 1 OAuth identity, 1 session kept, 2 users, 2 sessions, 3 token pairs, 1 fault | 1.4 million | see below |
| `agents` | 5 requests, 2 at a time, 1 fault | 522 thousand | see below |
| `catalog` | 2 analyzers, 2 conversations of one endpoint, 3 deliveries, faults and expiries in all, 1 sample kept, 1 value kept of a header, the job of one test may fail, 3 kinds of suite request | 285 thousand | see below |

`pipeline` checks that what is stored but not published was refused or lost in a
crash and never reported as accepted; that of the committed records no more than
there were failed calls are neither in the inventory nor among the dead letters,
whatever commits passed over and crashes replayed; that redelivery does not count a conversation twice; that only
inventoried conversations are counted; that the dead-letter consumer commits only
what it stored; and that both consumers catch up.

`identity` checks that a user never outlives its account and an identity its user
except where the store misreported a call; that an identity belongs to the user
of its address and was verified unless that user was created for it; that a
duplicate identity "treated as linked" is the same user's; that sessions exceed
the limit by no more than the logins under way and faults explain; that an ended
session stays ended; and that a refused token stays refused.

`agents` checks that an agent that authenticates gets its configuration, apart
from the named races with a delete, which a repeated delete repairs; that an
enrollment yields at most one agent and is spent for nothing only by a fault;
that concurrent batches create at most one automatic source each; that the token
on the dashboard works until rotated; and that settings updates that do not
overlap are kept.

`catalog` checks that pruning never deletes one of the newest samples and leaves
too many only for a reason; that path parameters and metrics are not counted more
often than the endpoint was requested, and the endpoint's document covers what
its samples say; that the token of a job is one the request offered and what
redaction recognizes is replayed as a marker only; and that exactly the registered
tests which were asked for, apply and can be planned have a job, and the answer
says so except for creations that were applied but reported an error.

`scan_liveness` keeps the rate window off to stay small; with
`TargetJobsPerWindow = 1` the property holds as well (487 thousand states).

### Bounds

`MaxFaults` limits failed calls, crashes and expiries of a behaviour. Two give
every pair of a failure and a failure of its handling, or a crash of the process
that recovers; longer chains are covered by the theorems only. Two workers are enough for
every conflict over a document, since each conditional update involves the holder
and one rival; two results distinguish the first, a middle position and the end
of the loop. In `scan_admission` two jobs compete for one slot and one window,
the limit itself. In `pipeline` the second proper conversation was captured
before the first, so pruning can hit the log that was just inserted; two requests
for the same conversation are a retry, for different ones a queue of two records,
which is what a commit needs to pass over one. Runs with two jobs have no faults,
and the run with faults has one job: jobs share only slots, the rate window and
the issue of an endpoint. Theorems cover all sizes for what is proved.

In `identity` two requests are enough for each race the code has (both sides of a
check and an insert, a rotation and a revocation, a link and an undo); two users
let an address be taken again after an undo, three token pairs let a session be
rotated twice. In `agents` five requests are a source, an enrollment, a
registration, a delete and one more; a fault may hit any of them. In `catalog`
only the job of `BOLA` may fail to be created: the tests are planned independently,
and one failing type among those of a request, or as the only one, gives every form
of answer. Three events allow a redelivery or two different conversations with a failure, a
crash or an expiry; the second conversation has no capture time, so it counts as
observed before, with or after the first, and its body is too large for a sample.
The constraint `UntilAnswered` ends a behaviour at the answer of the suite: the
suite changes nothing of the analyzers' state and its answer never changes
afterwards, so every later state of the analyzers is reached without the suite
as well.

`CHECK_DEADLOCK FALSE` is set because every behaviour ends once its requests are
served.

### Fairness

Weak fairness of each request handler, each worker's loop and each consumer's
loop: they are goroutines or processes that nothing suspends, and the compose
file restarts them (`restart: unless-stopped`). Weak fairness of lock and slot
expiry, of the rate window and of `not_before_at`: time passes. Nothing is
assumed of users, of agents sending requests, or of faults.

## 4. Findings

- **A retry loses a conversation** (`pipeline_retry`). `SaveLog` is both the first
  write and the test for duplicates. If a later step fails, the client gets a 500
  "so it can retry rather than silently losing data" (`account_ingest_handler.go`),
  and its retry is answered `duplicate` without being published.
- **A failed dead letter is passed over** (`pipeline_commit`). The analyzer
  neither commits nor stops when the dead letter cannot be published, and the
  next record's commit covers it. The dead-letter consumer, which exits at an
  error, does not have this problem (`CommittedDeadLetterIsStored`).
- **Leases shorter than scans** (`scan_lease`). The admission lease is 30 minutes
  and never renewed, a scan may take 60.
- **Progress says completed, job says cancelled** (`scan_progress`).
  `CompleteScanJob` reports success when its filter matches nothing.
- **Jobs stuck in running** (`scan_stuck`). `deadline_at` is stored and never
  read; nothing returns the job of a dead worker to the queue.

Observations that no run of their own stands for:

- Two first reads of the ingest token race: the loser of the unique index gets a
  500, although `ingest_token_handlers.go:28-29` says the token is always
  returned; the next read succeeds.
- A registration that passes a delete leaves an active agent whose configuration
  is refused, and marks the deleted source connected again; repeating the delete
  removes it (`ActiveAgentIsServed`).
- A job cancelled before a scan of it began keeps its credential in `scan_secrets`
  for up to its TTL of 24 hours: `handleCancelScanJob` (`server.go:632-661`) and
  `CancelScanJob` (`repository.go:329-365`) do not delete it, and no worker ever
  claims the job again. A worker that had claimed it and is refused coordination
  does not delete it either. `SettledJobHasNoSecret` states this exception.
- Two security settings updates that overlap lose one of the two: each writes back
  both fields from its own read (`settings_handlers.go:66-106`).
  `SequentialUpdatesKept` is about updates that do not overlap.
- Redaction goes by header name and known patterns. A credential in a header of
  another name (`X-Session-Id`) is stored and replayed by every test of the endpoint
  (`flattenHeaders`, `builder.go:416-424`), like one in a path or a body that no
  pattern recognizes.
- A suite reports a test as skipped whose job is queued, if the insert was applied
  but reported an error; when that was the only one, the answer is a 500 without
  any list and the job runs all the same. Test types that are not registered are
  dropped from the request without being reported.
- A failed identity insert undoes the user although another callback may have
  found and linked it: that identity then leads nowhere (`IdentityHasUser`).
- A logout with a refresh token that a concurrent refresh replaces revokes
  nothing and reports success.
- `PruneExpiredSessions` has no caller; the TTL index does its work.
- `BOLA_CHAINED_ENUMERATION` is described as reading "with attacker credentials"
  (`templates.go:224`) and requires the attacker's role, but falls into the
  default case of `resolveAuthTokenFromContexts`, which prefers the victim's.
- The fallback to the stored `Authorization` values never yields a token: they are
  redacted when stored (`JobsUseOfferedTokens`).
- JWT tests without a token that decodes, and parameter pollution of a body
  without an identifier, count as applicable and then fail to plan, although
  `applicability.go:10-15` says that tests with unmet prerequisites are filtered
  out; they are reported as skipped (`SuiteIsAccounted`).
- A sample's body is an excerpt; when it was cut it replaces the endpoint's
  complete body in the plan and pollution can no longer be planned.
- `risk_level` and `auth_observed` are the last writer's while `sensitive_data`
  accumulates, so they may disagree after a harmless conversation.

## 5. Proofs

Each theorem holds for every value of the constants that its module's assumption
allows: any set of jobs, workers, requests and conversations, finite only where
stated, any limit and any number of faults and crashes. Every safety
invariant and action property the passing runs check has its theorem. No property is
inductive by itself; for each module there is an invariant that is, one lemma or case
per action shows that a step preserves it, and TLC was asked about it before.

### ScanExecutionProofs

From `ScanAssumption` alone (non-empty sets, `NoJob` neither a job nor a worker,
numeric constants in range, the two reserved holder names not workers); the sets
may be infinite.

| Theorem | States |
|---|---|
| `ScanInvHolds` | `Spec => []ScanInv` |
| `TypeCorrect` | `Spec => []TypeOK` |
| `ClaimIsExclusive` | `Spec => []ExclusiveClaim` |
| `CredentialIsKept` | `Spec => []QueuedJobKeepsSecret` |
| `ResultsAreComplete` | `Spec => []CompletedJobHasItsResults` |
| `SettledIsFinal` | `Spec => TerminalIsFinal` |

`ScanInv` adds what the argument needs:

- `WorkerInv`: the storing loop stays within its results and nothing is deferred
  before the lock is taken;
- `RequestInv`: a job does not exist before its request inserts it, and its
  credential exists by then;
- `OwnershipInv`: a job with an owner is running or cancelled, hence not
  claimable. This is why two claim paths without a common lock are safe;
- `SecretInv`: a worker that will delete a credential is past every requeue and
  has no rival, and a worker that may still requeue has the credential;
- `ResultInv`: nothing is stored for a job that is absent or queued or not yet
  scanned; a storing worker has stored exactly `index` results.

`OwnershipFrame` and `ResultFrame` dispose of the steps that leave a part's
variables alone. `SettledIsFinal` follows from a case analysis of the status
writes.

### ScanSafetyProofs

| Theorem | States |
|---|---|
| `SafetyInvHolds` | `Spec => []SafetyInv` |
| `LateResultsAreBounded` | `Spec => []AtMostOneLateResult` |
| `LockIsExclusive` | `Spec => []LockExcludes` |
| `SettledCredentialIsGone` | `Spec => []SettledJobHasNoSecret` |
| `CapacityIsNoFailure` | `Spec => CapacityNeverFailsJob` |
| `LiveScansAreLimited` | `Spec => []LiveScansWithinLimit`, if `~LongScans` |
| `ImplementsLifecycle` | `Spec => RefinesLifecycle` |

`SafetyInv` is inductive relative to `ScanInv`. Its conjuncts tie the set of Go's
deferred calls to the position in `processClaimedJob`: where the release of the
slot and the removal of the credential are registered (`DeferInv`), that a worker
about to store a result has seen no cancellation (`LateInv`), that who registered
the release of the lock has it or is past every requeue with no rival (`LockInv`),
that with Redis a job that may still fail was admitted or has an invalid target
(`AdmissionInv`), and that a worker is on its way to delete the credential of a
settled job, or the job was cancelled and its scan never began (`SettledInv`, which
needs from `KnownInv` that a job in an event or at a worker was inserted).

`LockIsExclusive` holds even when a scan outlasts its lease, which the lease alone
would not give: the job is then no longer claimable. The number of live scans has
no such second line. It is bounded only if no scan outlasts its lease, hence the
assumption `~LongScans`; the run `scan_lease` shows the violation without it. Given
it, an admitted worker holds a slot of its own (`SlotInv`), and counting slots
bounds the workers.

`ImplementsLifecycle` is the refinement: initial states map to initial states, and
each action to a step of `ScanLifecycle` or a stutter, from `ScanInv`.

### IdentityProofs

From `IdentityAssumption`, which makes the set of requests finite; the addresses,
OAuth identities, ids, tokens and faults are any number.

| Theorem | States |
|---|---|
| `IdentityInvHolds` | `Spec => []IdentityInv` |
| `IdentityTypes` | `Spec => []TypeOK` |
| `UsersHaveAccounts` | `Spec => []UserHasAccount` |
| `IdentitiesHaveUsers` | `Spec => []IdentityHasUser` |
| `LinksAreVerified` | `Spec => []VerifiedLink` |
| `DuplicatesLeadToOneUser` | `Spec => []DuplicateLinkIsSameUser` |
| `EndedSessionsStay` | `Spec => EndedSessionStaysEnded` |
| `RefusalsAreFinal` | `Spec => RefusedTokenStaysRefused` |
| `SessionsAreLimited` | `Spec => []SessionsWithinLimit` |

`IdentityInv` adds that generated numbers are new (`FreshInv`), what the locals of
a handler mean at each call (`RequestInv`: a callback that links found its user and
a verified address), that one request alone may undo an account and nothing refers
to a user before it is inserted (`ProvisionInv`), and the unique index on addresses
together with the address a callback carries (`AddressInv`), from which two
callbacks of one identity end with the same user.

`RefusalsAreFinal` rests on tokens being generated once: a rotation gives a session
a number no session had. For `SessionsAreLimited` the bound itself is not
inductive, because a revocation still under way was listed against an older set of
sessions. `TrimInv` quantifies over which of the pending revocations are carried
out next: whichever they are, they leave at most one session too many for each
other pending request. The step that lists the sessions re-establishes it.

### ConversationPipelineProofs

From `PipelineAssumption`.

| Theorem | States |
|---|---|
| `PipelineInvHolds` | `Spec => []PipelineInv` |
| `PipelineTypes` | `Spec => []TypeOK` |
| `UnpublishedIsRefused` | `Spec => []UnpublishedWasRefused` |
| `CommitsFollowProcessing` | `Spec => []CommittedWasProcessed` |
| `ReplaysCountOnce` | `Spec => []MetricsCountedOnce` |
| `InventoryComesFirst` | `Spec => []CountedIsInventoried` |
| `CommittedDeadLettersAreStored` | `Spec => []CommittedDeadLetterIsStored` |

`WorkInv` places each process and what it works on. `FateInv` says that every
record before the analyzer's position has ended in one way or another and that the
one at it is not committed while it is processed; commits of later records are
therefore safe. `LossInv` turns this into a count: a record that ended as analyzed is
in the inventory, one that ended as dead is among the dead letters, neither is ever
undone, and each of the others cost a failed call of its own. A record that is
processed again after a crash joins the others only at the price of another one. `DeadLetterInv` keeps the dead-letter consumer one record ahead of
its commits. `LedgerInv` is the argument for the metrics: who counts a key owns its
ledger entry alone, and a counted key stays in the ledger. `InventoryInv` orders
the writes of `ProcessLog`. `PublishInv` says that for every stored conversation
that is not in the topic a request either is about to publish it or was refused.

### AgentAccessProofs

From `AgentAccessAssumption`, which makes the set of requests finite.

| Theorem | States |
|---|---|
| `AgentAccessInvHolds` | `Spec => []AgentAccessInv` |
| `AgentAccessTypes` | `Spec => []TypeOK` |
| `OneAgentPerEnrollment` | `Spec => []EnrollmentYieldsOneAgent` |
| `ActiveAgentsAreServed` | `Spec => []ActiveAgentIsServed` |
| `ShownTokensWork` | `Spec => []ShownTokenWorks` |
| `SequentialUpdatesAreKept` | `Spec => []SequentialUpdatesKept` |
| `AutoSourcesAreBounded` | `Spec => []AutoSourcesBounded` |

`RequestInv` says what a handler holds between calls: a registration about to
insert its agent has claimed an enrollment nobody else has. `EnrollmentInv` relates
used enrollments and agents. `DeleteInv` is the argument for
`ActiveAgentIsServed`: after a delete has ended, the enrollments that lead to an
active agent of the source, or still may, are those that slipped through; it needs
the intermediate fact about a delete between its second and its third update.
`SettingsInv` says that without overlap the update under way has read what was last
asked for. `AutoSourcesAreBounded` counts: a batch prepares an insert only when no
source is listed, so that those preparing one are all there is to count, and an
insert is one of them less and one source more.

### EndpointAnalysisProofs

Theorems about operators, for every conversation, rule and set of tags.

| Theorem | States |
|---|---|
| `PathNamesAreDistinct` | no two parameters found in a path have one name |
| `RiskIsMonotone` | more kinds of sensitive data never give a lower risk level |
| `RiskLevelCovers` | the stored level is at least that of the data and of each matching rule, and never lower for a conversation with more of either |

`NthIsMember` is what everything about selected members of a sequence rests on: a
finite set of positions has an i-th member for each i up to its size, because counting
the smaller ones is an injection into as many numbers. With it two parameters of one
base are numbered differently, as the later one counts the earlier one.
`RiskIsMonotone` is not obvious from the code, which decides by the heaviest tag,
by certain combinations, by the sum and by the number of tags: each of the three
tests for a level can only turn true, and the levels are tested from the top.
`StoredHeader` and `StoredValues` are the lemmas about redaction used below.

### CatalogProofs

From `TrafficInventoryAssumption` (finitely many analyzers, at least one
conversation, capture times are numbers, limits are positive) and
`CatalogAssumption` (a request's tokens are its own, empty or a pasted marker;
captured fields are any names, values and tags; finitely many test types fail).
Conversations, rules and requests are any number.

| Theorem | States |
|---|---|
| `CatalogInvHolds` | `Spec => []CatalogInv` |
| `NewestSamplesAreKept` | `Spec => []SamplesAreTheNewest` |
| `ImplementsSampleStore` | `Spec => RefinesSampleStore` |
| `JobTokensAreOffered` | `Spec => []JobsUseOfferedTokens` |
| `SuitesAreAccounted` | `Spec => []SuiteIsAccounted` |

`KindOfStep` first reduces the actions to what they do to samples: insert one,
list the excess, delete what was listed, give up, or nothing. `CallInv` says what
a call holds at each label and `SampleInv` that ids are unique and grow.
`NewestInv` says that a sample that is gone before it expired, or that a call is
about to delete, has as many newer ones as are kept; inserts only add to them, so a
list stays right however old it is. The bound on the samples stored is not
inductive for the same reason as the one on sessions: `RoomInv` quantifies over
which of the listed deletes are carried out next.

`ImplementsSampleStore` follows from `NewestInv`: the list and the delete are together
one `Prune` of `SampleStore`, done at the time of the delete, since whatever was
outdated when it was listed still is. The refinement has no run of its own:
`SampleStore` inserts any sample, which TLC cannot enumerate.

`AuthInv` follows the headers: `StoredHeader` and `StoredValues` show that
redaction turns the values of a sensitive header into markers and the secrets it
recognizes elsewhere as well, and documents, samples and the target of a suite only
ever hold these. `ResolvedToken` then gives the token of
each kind of test, and `FailsForAReason` that planning an applicable test fails
exactly for the reasons `Unplannable` lists; `SuiteIsAccounted` then states the jobs
from the request and the target alone, not from what was selected.

### CatalogCountProofs

| Theorem | States |
|---|---|
| `CountInvHolds` | `Spec => []CountInv` |
| `CountersAgree` | `Spec => []CountsWithinRequests` |
| `CatalogTypesAreKept` | `Spec => []TypeOK` |

A call of `ProcessLog` raises `request_count` first and counts parameters and metrics
afterwards, while other calls do the same for the same endpoint. `CountsWithinRequests`
alone is not inductive, since a state may satisfy it with nothing left for the
calls under way. The invariant leaves them room: the count of a path parameter
plus the calls that are about to observe parameters of the endpoint (`ParameterInv`),
and the counters of a granularity over all buckets plus all calls past the document
(`MetricInv`), stay within `request_count`. A call then takes its own place when it counts.
This needs that one call counts once: no path parameter twice, from
`PathNamesAreDistinct` and because the observations of headers, queries and bodies
have other locations (`ObservationsAreDistinct`), and one bucket per granularity
(`CountedOnce`: sums over buckets are cardinalities of sets of increments, and a
call adds at most one increment). A crash or a failed call gives its room back unused.

`CoverInv` says that a document that was written covers the sensitive data of the
calls that wrote it and of their samples; `BoundInv` is the bound of the model and
the tests a suite names. `CountKindOfStep` reduces the actions of an analyzer to
six kinds (begin, write the document, observe, sample, count, end) before the parts are proved.

### Only model-checked

Liveness (`QueuedJobSettles`, `AnalyzerCatchesUp`, `DeadLettersCatchUp`): the prover
handles neither fairness nor ENABLED.

## 6. Plan

1. `ScanJob`, `ScanLifecycle`, `ScanExecution` with proofs of all its safety
   properties and of the refinement: done.
2. `ConversationPipeline`, `Identity` and `AgentAccess` with proofs of all their
   safety properties: done.
3. `EndpointAnalysis`, `TrafficInventory`, `ScanPlan`, `Catalog` with proofs of all
   their safety properties, and `SampleStore` with its refinement: done.
4. Left: the target policy as lemmas (no policy admits a metadata address, a denied
   URL or, unless it says so, a private one), and abstract specifications of the
   consumers of both topics.

## 7. Not modelled

- The Nuclei engine: third-party; a scan ends with findings, an error or a timeout.
- MongoDB, Redis and the broker, beyond what the code relies on.
- Regular expressions, ciphers, hashes, name resolution and the texts of
  payloads: given with the inputs of the models as what they match or yield.
- Contract validation field by field: a conversation is valid or not.
- The API middleware: authentication is the guard of the request actions; the
  limiter table is a map of third-party token buckets under one mutex; headers,
  CORS and logging have no state.
- Audit records, `ingestion_logs`, heartbeats and issue triage: single writes that
  nothing else depends on.
- Dashboards' queries, configuration, the archive writers, the legacy proxy and
  the command-line tools.
