--------------------------- MODULE ScanExecution ---------------------------
(***************************************************************************)
(* Active scanning: the API server creates, publishes and cancels scan     *)
(* jobs; scanner workers claim them from MongoDB (or from a queue event),  *)
(* pass Redis coordination, run the scan, store results and settle the     *)
(* job.  One step is one call to MongoDB, Redis, the broker or the scan    *)
(* engine, so the steps of different processes interleave between calls.   *)
(*                                                                         *)
(* An external call may fail (at most MaxFaults times); a write that fails *)
(* may still have been applied, because a caller that times out does not   *)
(* know.  A worker process may crash and restart, which also counts as a   *)
(* fault.                                                                  *)
(***************************************************************************)
EXTENDS Naturals, FiniteSets, ScanJob

CONSTANTS
    Jobs,                \* the job ids requests may create
    Workers,             \* scanner worker processes
    AuthJobs,            \* jobs whose configuration carries auth material
    Endpoint,            \* the inventory entry and test type of each job
    Targets,             \* tenants' hosts that a request may ask to scan
    InvalidTarget,       \* a target from which no rate key can be built
    GlobalConcurrency,   \* semaphore slots across all workers
    TargetJobsPerWindow, \* rate limit per target, 0 switches it off
    Deployments,         \* which of Redis and the broker may be configured
    LongScans,           \* TRUE when a scan may run longer than its leases
    MaxResults,          \* bound: results of one scan
    MaxFaults,           \* bound: failed calls and crashes of a behaviour
    NoJob                \* a worker between jobs

Endpoints == {Endpoint[j] : j \in Jobs}

ASSUME ScanAssumption ==
    /\ Jobs # {} /\ Workers # {}
    /\ NoJob \notin Jobs \union Workers
    /\ AuthJobs \subseteq Jobs
    /\ DOMAIN Endpoint = Jobs
    /\ Targets # {}
    /\ Deployments \subseteq SUBSET {"redis", "queue"}
    /\ GlobalConcurrency \in Nat \ {0}
    /\ TargetJobsPerWindow \in Nat
    /\ MaxResults \in Nat
    /\ MaxFaults \in Nat
    /\ LongScans \in BOOLEAN
    /\ "free" \notin Workers /\ "orphan" \notin Workers

VARIABLES
    services,   \* what is configured: a subset of {"redis", "queue"}
    \* the API server, one request per job
    api,        \* progress of the request that creates the job
    target,     \* the target the request asks to scan
    \* MongoDB
    status,     \* scan_jobs.status
    deferred,   \* jobs whose scan_jobs.not_before_at lies in the future
    created,    \* scan_jobs.created_at, 0 while absent
    clock,      \* the number of jobs inserted so far
    count,      \* scan_jobs.results_count
    secrets,    \* jobs that have a scan_secrets document
    expired,    \* jobs whose secret the TTL index removed
    saved,      \* number of scan_results documents of each job
    vulnerable, \* jobs with a vulnerable result saved
    issues,     \* endpoints that have an issues document
    progress,   \* status in the last progress event of each job
    \* the broker
    topic,      \* jobs with an uncommitted event in karaxys.scan.jobs
    \* Redis
    lock,       \* holder of each scan_job lock
    slot,       \* holder of each slot of the global semaphore
    hits,       \* rate limit counter of each target
    \* scanner workers
    pc,         \* where the worker's loop stands
    cur,        \* the job it handles
    event,      \* workers whose job came with an event still to be committed
    note,       \* the status it is about to report as progress
    defers,     \* deferred clean-up calls registered so far
    found,      \* len(results) of the scan it ran
    index,      \* results stored so far
    probe,      \* semaphore slot it tries next
    \* bookkeeping
    late,       \* results stored for a job that was already cancelled
    faults      \* failed calls and crashes so far

apiVars  == <<services, api, target>>
docVars  == <<status, deferred, created, clock, count>>
dataVars == <<secrets, expired, saved, vulnerable, issues, progress, late>>
redisVars == <<lock, slot, hits>>
workVars == <<pc, cur, event, note, defers, found, index, probe>>
vars == <<services, api, target, status, deferred, created, clock, count, secrets, expired,
          saved, vulnerable, issues, progress, topic, lock, slot, hits, pc,
          cur, event, note, defers, found, index, probe, late, faults>>

Slots == 1..GlobalConcurrency
Holders == Workers \union {"free", "orphan"}
Labels == {"idle", "claim", "lock", "check", "slot", "rate", "undoSlot",
           "requeue", "hydrate", "reject", "clean", "execute", "timeout",
           "fail", "recheck", "each", "store", "issue", "complete",
           "progress", "unwind"}
ApiStates == {"none", "secret", "create", "publish", "undo", "accepted",
              "rejected"}

Init ==
    /\ services \in Deployments
    /\ api = [j \in Jobs |-> "none"]
    /\ target = [j \in Jobs |-> InvalidTarget]
    /\ status = [j \in Jobs |-> "absent"]
    /\ deferred = {}
    /\ created = [j \in Jobs |-> 0]
    /\ clock = 0
    /\ count = [j \in Jobs |-> 0]
    /\ secrets = {}
    /\ expired = {}
    /\ saved = [j \in Jobs |-> 0]
    /\ vulnerable = {}
    /\ issues = {}
    /\ progress = [j \in Jobs |-> "absent"]
    /\ topic = {}
    /\ lock = [j \in Jobs |-> "free"]
    /\ slot = [s \in Slots |-> "free"]
    /\ hits = [t \in Targets |-> 0]
    /\ pc = [w \in Workers |-> "idle"]
    /\ cur = [w \in Workers |-> NoJob]
    /\ event = {}
    /\ note = [w \in Workers |-> "absent"]
    /\ defers = [w \in Workers |-> {}]
    /\ found = [w \in Workers |-> 0]
    /\ index = [w \in Workers |-> 0]
    /\ probe = [w \in Workers |-> 1]
    /\ late = [j \in Jobs |-> 0]
    /\ faults = 0

\* The two ways an external call can end.
Ok  == UNCHANGED faults
Err == faults < MaxFaults /\ faults' = faults + 1
-----------------------------------------------------------------------------
(* The API server *)

\* A request for job j that passed validation and whose configuration was
\* built; its store calls follow one by one.
BeginRequest(j) ==
    /\ api[j] = "none"
    /\ api' = [api EXCEPT ![j] = IF j \in AuthJobs THEN "secret" ELSE "create"]
    /\ \E t \in Targets : target' = [target EXCEPT ![j] = t]
    /\ UNCHANGED <<services, docVars, dataVars, topic, redisVars, workVars, faults>>

\* One scan, one job of a suite, or a new job like an existing one.  The jobs
\* of a suite are begun one after the other; here they may also overlap.
handleTriggerScan(j) == BeginRequest(j)
enqueueSuiteJob(j) == BeginRequest(j)
handleRerunScanJob(j) ==
    /\ \E original \in Jobs :
        status[original] # "absent" /\ Endpoint[original] = Endpoint[j]
    /\ BeginRequest(j)

externalizeScanAuthSecret(j) ==
    /\ api[j] = "secret"
    /\ \/ Ok /\ secrets' = secrets \union {j} /\ api' = [api EXCEPT ![j] = "create"]
       \/ /\ Err /\ api' = [api EXCEPT ![j] = "rejected"]
          /\ secrets' \in {secrets, secrets \union {j}}
    /\ UNCHANGED <<services, target, docVars, expired, saved, vulnerable, issues, progress, late,
                   topic, redisVars, workVars>>

InsertJob(j) ==
    /\ status' = [status EXCEPT ![j] = "queued"]
    /\ clock' = clock + 1
    /\ created' = [created EXCEPT ![j] = clock + 1]

CreateScanJob(j) ==
    /\ api[j] = "create"
    /\ \/ Ok /\ InsertJob(j) /\ api' = [api EXCEPT ![j] = "publish"]
       \/ /\ Err /\ api' = [api EXCEPT ![j] = "undo"]
          /\ InsertJob(j) \/ UNCHANGED <<status, clock, created>>
    /\ UNCHANGED <<services, target, deferred, count, dataVars, topic, redisVars, workVars>>

\* deleteScanSecret after a failed insert; its own failure is only logged.
deleteScanSecret(j) ==
    /\ api[j] = "undo"
    /\ api' = [api EXCEPT ![j] = "rejected"]
    /\ \/ Ok /\ secrets' = secrets \ {j}
       \/ Err /\ secrets' \in {secrets, secrets \ {j}}
    /\ UNCHANGED <<services, target, docVars, expired, saved, vulnerable, issues, progress, late,
                   topic, redisVars, workVars>>

\* A failed publish is only logged: polling will find the job.
publishScanJobQueued(j) ==
    /\ api[j] = "publish"
    /\ api' = [api EXCEPT ![j] = "accepted"]
    /\ \/ Ok /\ topic' = IF "queue" \in services THEN topic \union {j} ELSE topic
       \/ "queue" \in services /\ Err /\ topic' \in {topic, topic \union {j}}
    /\ UNCHANGED <<services, target, docVars, dataVars, redisVars, workVars>>

\* The request's process dies between two calls.
ApiCrash(j) ==
    /\ api[j] \in {"secret", "create", "undo", "publish"}
    /\ Err
    /\ api' = [api EXCEPT ![j] = IF @ = "publish" THEN "accepted" ELSE "rejected"]
    /\ UNCHANGED <<services, target, docVars, dataVars, topic, redisVars, workVars>>

handleCancelScanJob(j) ==
    /\ status[j] \in {"queued", "running"}
    /\ status' = CancelScanJob(status, j)
    /\ UNCHANGED <<apiVars, deferred, created, clock, count, dataVars, topic,
                   redisVars, workVars, faults>>
-----------------------------------------------------------------------------
(* Time: retry delays, rate windows, leases and secrets run out. *)

DelayElapses(j) ==
    /\ j \in deferred
    /\ deferred' = deferred \ {j}
    /\ UNCHANGED <<apiVars, status, created, clock, count, dataVars, topic,
                   redisVars, workVars, faults>>

RateWindowEnds(t) ==
    /\ hits[t] > 0
    /\ hits' = [hits EXCEPT ![t] = 0]
    /\ UNCHANGED <<apiVars, docVars, dataVars, topic, lock, slot, workVars, faults>>

\* A key whose owner is gone always expires; a key whose owner is still
\* scanning expires only if the scan outlasts the lease.
Expirable(h) ==
    \/ h = "orphan"
    \/ h \in Workers /\ LongScans /\ pc[h] = "execute"

LockExpires(j) ==
    /\ Expirable(lock[j])
    /\ lock' = [lock EXCEPT ![j] = "free"]
    /\ UNCHANGED <<apiVars, docVars, dataVars, topic, slot, hits, workVars, faults>>

SlotExpires(s) ==
    /\ Expirable(slot[s])
    /\ slot' = [slot EXCEPT ![s] = "free"]
    /\ UNCHANGED <<apiVars, docVars, dataVars, topic, lock, hits, workVars, faults>>

\* The TTL index on scan_secrets.expires_at, 24 hours after creation.
SecretExpires(j) ==
    /\ j \in secrets
    /\ Err
    /\ secrets' = secrets \ {j}
    /\ expired' = expired \union {j}
    /\ UNCHANGED <<apiVars, docVars, saved, vulnerable, issues, progress, late,
                   topic, redisVars, workVars>>
-----------------------------------------------------------------------------
(* Scanner worker: taking a job *)

Goto(w, l) == pc' = [pc EXCEPT ![w] = l]

\* setScanProgress(status s) comes next.
Report(w, s) == Goto(w, "progress") /\ note' = [note EXCEPT ![w] = s]

\* consumer.Consume hands an uncommitted event to one member of the group.
Consume(w) ==
    /\ pc[w] = "idle"
    /\ \E j \in topic :
        /\ \A v \in Workers : ~(v \in event /\ cur[v] = j)
        /\ cur' = [cur EXCEPT ![w] = j]
    /\ event' = event \union {w}
    /\ Goto(w, "claim")
    /\ UNCHANGED <<apiVars, docVars, dataVars, topic, redisVars, note, defers,
                   found, index, probe, faults>>

\* claimScanJob returned the job: processClaimedJob starts.
StartJob(w, j) ==
    /\ status' = ClaimScanJob(status, j)
    /\ cur' = [cur EXCEPT ![w] = j]
    /\ Goto(w, IF "redis" \in services THEN "lock" ELSE "check")

\* claimScanJob returned an error: the job may nevertheless be running,
\* since its second update or the reply of the first can be what failed.
LoseClaim(w, j) ==
    /\ Err
    /\ status' \in {status, ClaimScanJob(status, j)}
    /\ Goto(w, "idle")
    /\ cur' = [cur EXCEPT ![w] = NoJob]
    /\ event' = event \ {w}

\* processQueuedScanJob.  A job that is not claimable only has its event
\* committed; after an error the event stays uncommitted.
ClaimScanJobByID(w) ==
    /\ pc[w] = "claim"
    /\ LET j == cur[w] IN
        \/ Claimable(status, deferred, j) /\ Ok /\ StartJob(w, j) /\ UNCHANGED event
        \/ /\ ~Claimable(status, deferred, j) /\ Ok
           /\ Goto(w, "unwind") /\ UNCHANGED <<status, cur, event>>
        \/ Claimable(status, deferred, j) /\ LoseClaim(w, j)
    /\ UNCHANGED <<apiVars, deferred, created, clock, count, dataVars, topic,
                   redisVars, note, defers, found, index, probe>>

\* processOne: the oldest claimable job.
ClaimNextScanJob(w) ==
    /\ pc[w] = "idle"
    /\ \E j \in Jobs :
        /\ Claimable(status, deferred, j)
        /\ \A k \in Jobs : Claimable(status, deferred, k) => created[j] <= created[k]
        /\ \/ Ok /\ StartJob(w, j) /\ UNCHANGED event
           \/ LoseClaim(w, j)
    /\ UNCHANGED <<apiVars, deferred, created, clock, count, dataVars, topic,
                   redisVars, note, defers, found, index, probe>>
-----------------------------------------------------------------------------
(* Scanner worker: coordination and admission *)

\* Mutant: SET without NX, which takes a lock that is held.
TryLockWithoutNX(w) ==
    /\ pc[w] = "lock" /\ Ok
    /\ lock' = [lock EXCEPT ![cur[w]] = w]
    /\ defers' = [defers EXCEPT ![w] = @ \union {"lock"}]
    /\ Goto(w, "check")
    /\ UNCHANGED <<apiVars, docVars, dataVars, topic, slot, hits, cur, event,
                   note, found, index, probe>>

\* Mutant: a job whose lock is held is dropped instead of requeued.
TryLockWithoutRequeue(w) ==
    /\ pc[w] = "lock" /\ Ok
    /\ IF lock[cur[w]] = "free"
         THEN /\ lock' = [lock EXCEPT ![cur[w]] = w]
              /\ defers' = [defers EXCEPT ![w] = @ \union {"lock"}]
              /\ Goto(w, "check")
         ELSE Goto(w, "unwind") /\ UNCHANGED <<lock, defers>>
    /\ UNCHANGED <<apiVars, docVars, dataVars, topic, slot, hits, cur, event,
                   note, found, index, probe>>

TryLock(w) ==
    /\ pc[w] = "lock"
    /\ LET j == cur[w] IN
        \/ /\ Ok /\ lock[j] = "free"
           /\ lock' = [lock EXCEPT ![j] = w]
           /\ defers' = [defers EXCEPT ![w] = @ \union {"lock"}]
           /\ Goto(w, "check")
        \/ /\ Ok /\ lock[j] # "free"
           /\ Goto(w, "requeue") /\ UNCHANGED <<lock, defers>>
        \/ /\ Err /\ Goto(w, "requeue") /\ UNCHANGED defers
           /\ \/ UNCHANGED lock
              \/ lock[j] = "free" /\ lock' = [lock EXCEPT ![j] = "orphan"]
    /\ UNCHANGED <<apiVars, docVars, dataVars, topic, slot, hits, cur, event,
                   note, found, index, probe>>

\* scanJobCancelled before admission; an error abandons the job as it is.
CheckCancelled(w) ==
    /\ pc[w] = "check"
    /\ \/ Ok /\ status[cur[w]] = "cancelled"
          /\ Goto(w, "clean") /\ note' = [note EXCEPT ![w] = "cancelled"]
          /\ UNCHANGED probe
       \/ /\ Ok /\ status[cur[w]] # "cancelled"
          /\ IF "redis" \in services
               THEN Goto(w, "slot") /\ probe' = [probe EXCEPT ![w] = 1] /\ UNCHANGED note
               ELSE Report(w, "running") /\ UNCHANGED probe
       \/ Err /\ Goto(w, "unwind") /\ UNCHANGED <<note, probe>>
    /\ UNCHANGED <<apiVars, docVars, dataVars, topic, redisVars, cur, event,
                   defers, found, index>>

\* defer admission.Release() and the "running" progress report.
Admitted(w) ==
    /\ defers' = [defers EXCEPT ![w] = @ \union {"slot"}]
    /\ Report(w, "running")

\* Mutant: SET without NX, which takes a slot that is held.
TryAcquireWithoutNX(w) ==
    /\ pc[w] = "slot" /\ Ok
    /\ slot' = [slot EXCEPT ![probe[w]] = w]
    /\ Admitted(w)
    /\ UNCHANGED <<apiVars, docVars, dataVars, topic, lock, hits, cur, event,
                   found, index, probe>>

\* Semaphore.TryAcquire tries the slots one after the other.
TryAcquire(w) ==
    /\ pc[w] = "slot"
    /\ LET s == probe[w] IN
        \/ /\ Ok /\ s \in Slots /\ slot[s] = "free"
           /\ slot' = [slot EXCEPT ![s] = w]
           /\ IF TargetJobsPerWindow > 0
                THEN Goto(w, "rate") /\ UNCHANGED <<note, defers>>
                ELSE Admitted(w)
           /\ UNCHANGED probe
        \/ /\ Ok /\ s \in Slots /\ slot[s] # "free"
           /\ probe' = [probe EXCEPT ![w] = s + 1]
           /\ UNCHANGED <<pc, note, defers, slot>>
        \/ /\ Ok /\ s \notin Slots
           /\ Goto(w, "requeue") /\ UNCHANGED <<note, defers, slot, probe>>
        \/ /\ Err /\ s \in Slots
           /\ Goto(w, "requeue") /\ UNCHANGED <<note, defers, probe>>
           /\ \/ UNCHANGED slot
              \/ slot[s] = "free" /\ slot' = [slot EXCEPT ![s] = "orphan"]
    /\ UNCHANGED <<apiVars, docVars, dataVars, topic, lock, hits, cur, event,
                   found, index>>

\* RateLimiter.Allow: every attempt counts, only the first starts a window.
\* A counter above the limit is not told apart from one just above it.
Hit(t) == hits' = [hits EXCEPT ![t] = IF @ > TargetJobsPerWindow THEN @ ELSE @ + 1]

Allow(w) ==
    /\ pc[w] = "rate"
    /\ LET t == target[cur[w]] IN
        \/ /\ t = InvalidTarget /\ Ok
           /\ Goto(w, "undoSlot") /\ note' = [note EXCEPT ![w] = "failed"]
           /\ UNCHANGED <<hits, defers>>
        \/ /\ t # InvalidTarget /\ Ok /\ Hit(t)
           /\ IF hits[t] < TargetJobsPerWindow
                THEN Admitted(w)
                ELSE /\ Goto(w, "undoSlot") /\ note' = [note EXCEPT ![w] = "queued"]
                     /\ UNCHANGED defers
        \/ /\ t # InvalidTarget /\ Err /\ (Hit(t) \/ UNCHANGED hits)
           /\ Goto(w, "undoSlot") /\ note' = [note EXCEPT ![w] = "queued"]
           /\ UNCHANGED defers
    /\ UNCHANGED <<apiVars, docVars, dataVars, topic, lock, slot, cur, event,
                   found, index, probe>>

\* redisLock.Release: the script deletes a key only if it still holds this
\* worker's value.  When the call fails the key waits for its expiry.
ReleaseSlot(w) ==
    LET freed(h) == [s \in Slots |-> IF slot[s] = w THEN h ELSE slot[s]] IN
    \/ Ok /\ slot' = freed("free")
    \/ Err /\ slot' \in {freed("free"), freed("orphan")}

ReleaseLock(w) ==
    LET freed(h) == [j \in Jobs |-> IF lock[j] = w THEN h ELSE lock[j]] IN
    \/ Ok /\ lock' = freed("free")
    \/ Err /\ lock' \in {freed("free"), freed("orphan")}

\* Mutant: a job over its target's rate is failed like an invalid one.
UndoSlotThenFail(w) ==
    /\ pc[w] = "undoSlot"
    /\ ReleaseSlot(w)
    /\ Goto(w, "reject")
    /\ UNCHANGED <<apiVars, docVars, dataVars, topic, lock, hits, cur, event,
                   note, defers, found, index, probe>>

\* admission.Release() inside acquireScanAdmission, before the job is
\* requeued or, for an invalid target, failed.
UndoSlot(w) ==
    /\ pc[w] = "undoSlot"
    /\ ReleaseSlot(w)
    /\ Goto(w, IF note[w] = "failed" THEN "reject" ELSE "requeue")
    /\ UNCHANGED <<apiVars, docVars, dataVars, topic, lock, hits, cur, event,
                   note, defers, found, index, probe>>

\* Mutant: the secret is cleaned up on the requeue path too.
RequeueAndClean(w) ==
    /\ pc[w] = "requeue"
    /\ Ok
    /\ status' = RequeueScanJob(status, cur[w])
    /\ deferred' = deferred \union {cur[w]}
    /\ Goto(w, "clean") /\ note' = [note EXCEPT ![w] = "queued"]
    /\ UNCHANGED <<apiVars, created, clock, count, dataVars, topic, redisVars,
                   cur, event, defers, found, index, probe>>

\* The error of RequeueScanJob is ignored.
Requeue(w) ==
    /\ pc[w] = "requeue"
    /\ LET j == cur[w]
           write == /\ status' = RequeueScanJob(status, j)
                    /\ deferred' = IF status[j] = "running" THEN deferred \union {j} ELSE deferred
       IN  \/ Ok /\ write
           \/ Err /\ (write \/ UNCHANGED <<status, deferred>>)
    /\ Report(w, "queued")
    /\ UNCHANGED <<apiVars, created, clock, count, dataVars, topic, redisVars,
                   cur, event, defers, found, index, probe>>
-----------------------------------------------------------------------------
(* Scanner worker: running the scan *)

\* Mutant: no deferred cleanupScanSecret.
HydrateWithoutCleanup(w) ==
    /\ pc[w] = "hydrate" /\ Ok
    /\ Goto(w, IF cur[w] \in AuthJobs \ secrets THEN "reject" ELSE "execute")
    /\ UNCHANGED <<apiVars, docVars, dataVars, topic, redisVars, cur, event,
                   note, defers, found, index, probe>>

\* hydrateScanAuthSecret, then "defer cleanupScanSecret".
Hydrate(w) ==
    /\ pc[w] = "hydrate"
    /\ LET j == cur[w] IN
        \/ /\ j \in AuthJobs => j \in secrets
           /\ Ok /\ Goto(w, "execute")
           /\ defers' = [defers EXCEPT ![w] = @ \union {"secret"}]
        \/ j \in AuthJobs /\ j \notin secrets /\ Ok /\ Goto(w, "reject") /\ UNCHANGED defers
        \/ j \in AuthJobs /\ Err /\ Goto(w, "reject") /\ UNCHANGED defers
    /\ UNCHANGED <<apiVars, docVars, dataVars, topic, redisVars, cur, event,
                   note, found, index, probe>>

\* An UpdateOne whose error the worker ignores.
StatusWrite(new) == (Ok /\ status' = new) \/ (Err /\ status' \in {status, new})

\* FailScanJob on a job that cannot start; its secret is deleted next.
Reject(w) ==
    /\ pc[w] = "reject"
    /\ StatusWrite(FailScanJob(status, cur[w]))
    /\ Goto(w, "clean") /\ note' = [note EXCEPT ![w] = "failed"]
    /\ UNCHANGED <<apiVars, deferred, created, clock, count, dataVars, topic,
                   redisVars, cur, event, defers, found, index, probe>>

\* cleanupScanSecret: an error is only logged.
DropSecret(j) ==
    \/ Ok /\ secrets' = secrets \ {j}
    \/ Err /\ secrets' \in {secrets, secrets \ {j}}

CleanEarly(w) ==
    /\ pc[w] = "clean"
    /\ DropSecret(cur[w])
    /\ Goto(w, "progress")
    /\ UNCHANGED <<apiVars, docVars, expired, saved, vulnerable, issues,
                   progress, late, topic, redisVars, cur, event, note, defers,
                   found, index, probe>>

\* engine.ExecuteScanContext: results, an error, or the job's timeout.
ExecuteScan(w) ==
    /\ pc[w] = "execute"
    /\ \/ /\ \E n \in 0..MaxResults : found' = [found EXCEPT ![w] = n]
          /\ Goto(w, "recheck")
       \/ Goto(w, "timeout") /\ UNCHANGED found
       \/ Goto(w, "fail") /\ UNCHANGED found
    /\ index' = [index EXCEPT ![w] = 0]
    /\ UNCHANGED <<apiVars, docVars, dataVars, topic, redisVars, cur, event,
                   note, defers, probe, faults>>

Timeout(w) ==
    /\ pc[w] = "timeout"
    /\ StatusWrite(TimeoutScanJob(status, cur[w]))
    /\ Report(w, "timed_out")
    /\ UNCHANGED <<apiVars, deferred, created, clock, count, dataVars, topic,
                   redisVars, cur, event, defers, found, index, probe>>

Fail(w) ==
    /\ pc[w] = "fail"
    /\ StatusWrite(FailScanJob(status, cur[w]))
    /\ Report(w, "failed")
    /\ UNCHANGED <<apiVars, deferred, created, clock, count, dataVars, topic,
                   redisVars, cur, event, defers, found, index, probe>>
-----------------------------------------------------------------------------
(* Scanner worker: storing what the scan found *)

\* scanJobCancelled once after the scan ...
Recheck(w) ==
    /\ pc[w] = "recheck"
    /\ \/ /\ Ok
          /\ IF status[cur[w]] = "cancelled"
               THEN Report(w, "cancelled")
               ELSE Goto(w, "each") /\ UNCHANGED note
       \/ Err /\ Goto(w, "unwind") /\ UNCHANGED note
    /\ UNCHANGED <<apiVars, docVars, dataVars, topic, redisVars, cur, event,
                   defers, found, index, probe>>

\* Mutant: the loop runs once too often.
EachResultOffByOne(w) ==
    /\ pc[w] = "each" /\ Ok
    /\ Goto(w, IF index[w] <= found[w] THEN "store" ELSE "complete")
    /\ UNCHANGED <<apiVars, docVars, dataVars, topic, redisVars, cur, event,
                   note, defers, found, index, probe>>

\* Mutant: cancellation is not looked for between results.
EachResultUnchecked(w) ==
    /\ pc[w] = "each" /\ Ok
    /\ Goto(w, IF index[w] < found[w] THEN "store" ELSE "complete")
    /\ UNCHANGED <<apiVars, docVars, dataVars, topic, redisVars, cur, event,
                   note, defers, found, index, probe>>

\* ... and again before each result.
EachResult(w) ==
    /\ pc[w] = "each"
    /\ \/ index[w] = found[w] /\ Ok /\ Goto(w, "complete") /\ UNCHANGED note
       \/ /\ index[w] < found[w] /\ Ok
          /\ IF status[cur[w]] = "cancelled"
               THEN Report(w, "cancelled")
               ELSE Goto(w, "store") /\ UNCHANGED note
       \/ index[w] < found[w] /\ Err /\ Goto(w, "unwind") /\ UNCHANGED note
    /\ UNCHANGED <<apiVars, docVars, dataVars, topic, redisVars, cur, event,
                   defers, found, index, probe>>

\* InsertOne of one result, vulnerable or not.
AddResult(j, vuln) ==
    /\ saved' = [saved EXCEPT ![j] = @ + 1]
    /\ vulnerable' = IF vuln THEN vulnerable \union {j} ELSE vulnerable
    /\ late' = [late EXCEPT ![j] = IF status[j] = "cancelled" THEN @ + 1 ELSE @]

\* Mutant: the error of the insert is ignored.
SaveIgnoringError(w) ==
    /\ pc[w] = "store"
    /\ \/ Ok /\ AddResult(cur[w], FALSE)
       \/ Err /\ UNCHANGED <<saved, vulnerable, late>>
    /\ Goto(w, "each")
    /\ index' = [index EXCEPT ![w] = @ + 1]
    /\ UNCHANGED <<apiVars, docVars, secrets, expired, issues, progress, topic,
                   redisVars, cur, event, note, defers, found, probe>>

\* Mutant: a job whose results cannot be stored is retried.
SaveThenRetry(w) ==
    /\ pc[w] = "store"
    /\ \/ /\ Ok /\ AddResult(cur[w], FALSE) /\ Goto(w, "each")
          /\ index' = [index EXCEPT ![w] = @ + 1]
       \/ /\ Err /\ UNCHANGED <<saved, vulnerable, late, index>>
          /\ Goto(w, "requeue")
    /\ UNCHANGED <<apiVars, docVars, secrets, expired, issues, progress, topic,
                   redisVars, cur, event, note, defers, found, probe>>

SaveScanResult(w) ==
    /\ pc[w] = "store"
    /\ \E vuln \in BOOLEAN :
        \/ /\ Ok /\ AddResult(cur[w], vuln)
           /\ Goto(w, IF vuln THEN "issue" ELSE "each")
           /\ index' = [index EXCEPT ![w] = @ + 1]
        \/ /\ Err /\ (AddResult(cur[w], vuln) \/ UNCHANGED <<saved, vulnerable, late>>)
           /\ Goto(w, "fail") /\ UNCHANGED index
    /\ UNCHANGED <<apiVars, docVars, secrets, expired, issues, progress, topic,
                   redisVars, cur, event, note, defers, found, probe>>

\* One issue per fingerprint of tenant, endpoint and test type.
UpsertIssueFromScanResult(w) ==
    /\ pc[w] = "issue"
    /\ LET upserted == issues \union {Endpoint[cur[w]]} IN
        \/ Ok /\ issues' = upserted /\ Goto(w, "each")
        \/ Err /\ issues' \in {issues, upserted} /\ Goto(w, "fail")
    /\ UNCHANGED <<apiVars, docVars, secrets, expired, saved, vulnerable,
                   progress, late, topic, redisVars, cur, event, note, defers,
                   found, index, probe>>

\* CompleteScanJob does not say whether its filter matched, so a job that
\* was cancelled meanwhile is reported as completed too.
Complete(w) ==
    /\ pc[w] = "complete"
    /\ LET j == cur[w]
           write == /\ status' = CompleteScanJob(status, j)
                    /\ count' = [count EXCEPT ![j] =
                                    IF status[j] = "running" THEN found[w] ELSE @]
       IN  \/ Ok /\ write /\ Report(w, "completed")
           \/ /\ Err /\ (write \/ UNCHANGED <<status, count>>)
              /\ Report(w, "failed")
    /\ UNCHANGED <<apiVars, deferred, created, clock, dataVars, topic,
                   redisVars, cur, event, defers, found, index, probe>>

\* setScanProgress: errors are only logged.
SetScanProgress(w) ==
    /\ pc[w] = "progress"
    /\ LET reported == [progress EXCEPT ![cur[w]] = note[w]] IN
        \/ Ok /\ progress' = reported
        \/ Err /\ progress' \in {progress, reported}
    /\ Goto(w, IF note[w] = "running" THEN "hydrate" ELSE "unwind")
    /\ UNCHANGED <<apiVars, docVars, secrets, expired, saved, vulnerable,
                   issues, late, topic, redisVars, cur, event, note, defers,
                   found, index, probe>>
-----------------------------------------------------------------------------
(* Scanner worker: leaving the job.  Deferred calls run last in, first out: *)
(* the secret, the slot, the lock.                                          *)

DeferredCleanup(w) ==
    /\ pc[w] = "unwind" /\ "secret" \in defers[w]
    /\ DropSecret(cur[w])
    /\ defers' = [defers EXCEPT ![w] = @ \ {"secret"}]
    /\ UNCHANGED <<apiVars, docVars, expired, saved, vulnerable, issues,
                   progress, late, topic, redisVars, pc, cur, event, note,
                   found, index, probe>>

DeferredSlot(w) ==
    /\ pc[w] = "unwind" /\ "secret" \notin defers[w] /\ "slot" \in defers[w]
    /\ ReleaseSlot(w)
    /\ defers' = [defers EXCEPT ![w] = @ \ {"slot"}]
    /\ UNCHANGED <<apiVars, docVars, dataVars, topic, lock, hits, pc, cur,
                   event, note, found, index, probe>>

DeferredLock(w) ==
    /\ pc[w] = "unwind" /\ defers[w] = {"lock"}
    /\ ReleaseLock(w)
    /\ defers' = [defers EXCEPT ![w] = {}]
    /\ UNCHANGED <<apiVars, docVars, dataVars, topic, slot, hits, pc, cur,
                   event, note, found, index, probe>>

Leave(w) ==
    /\ Goto(w, "idle")
    /\ cur' = [cur EXCEPT ![w] = NoJob]
    /\ event' = event \ {w}
    /\ found' = [found EXCEPT ![w] = 0]
    /\ index' = [index EXCEPT ![w] = 0]
    /\ probe' = [probe EXCEPT ![w] = 1]
    /\ note' = [note EXCEPT ![w] = "absent"]

\* consumer.Commit for a job that came from the queue, then the next turn of
\* the loop; an event whose commit failed may be delivered again.
Commit(w) ==
    /\ pc[w] = "unwind" /\ defers[w] = {}
    /\ \/ Ok /\ topic' = IF w \in event THEN topic \ {cur[w]} ELSE topic
       \/ w \in event /\ Err /\ topic' \in {topic, topic \ {cur[w]}}
    /\ Leave(w)
    /\ UNCHANGED <<apiVars, docVars, dataVars, redisVars, defers>>

\* The process dies and is restarted: its memory is gone, the keys it holds
\* in Redis stay until they expire, its event is redelivered.
Crash(w) ==
    /\ pc[w] # "idle"
    /\ Err
    /\ lock' = [j \in Jobs |-> IF lock[j] = w THEN "orphan" ELSE lock[j]]
    /\ slot' = [s \in Slots |-> IF slot[s] = w THEN "orphan" ELSE slot[s]]
    /\ defers' = [defers EXCEPT ![w] = {}]
    /\ Leave(w)
    /\ UNCHANGED <<apiVars, docVars, dataVars, topic, hits>>
-----------------------------------------------------------------------------
Api(j) ==
    \/ externalizeScanAuthSecret(j) \/ CreateScanJob(j)
    \/ deleteScanSecret(j) \/ publishScanJobQueued(j)

Worker(w) ==
    \/ Consume(w) \/ ClaimScanJobByID(w) \/ ClaimNextScanJob(w)
    \/ TryLock(w) \/ CheckCancelled(w) \/ TryAcquire(w) \/ Allow(w)
    \/ UndoSlot(w) \/ Requeue(w) \/ Hydrate(w) \/ Reject(w)
    \/ CleanEarly(w) \/ ExecuteScan(w) \/ Timeout(w) \/ Fail(w)
    \/ Recheck(w) \/ EachResult(w) \/ SaveScanResult(w)
    \/ UpsertIssueFromScanResult(w) \/ Complete(w) \/ SetScanProgress(w)
    \/ DeferredCleanup(w) \/ DeferredSlot(w) \/ DeferredLock(w) \/ Commit(w)

Next ==
    \/ \E j \in Jobs : \/ handleTriggerScan(j) \/ enqueueSuiteJob(j) \/ handleRerunScanJob(j)
                       \/ Api(j) \/ ApiCrash(j)
                       \/ handleCancelScanJob(j) \/ DelayElapses(j)
                       \/ LockExpires(j) \/ SecretExpires(j)
    \/ \E t \in Targets : RateWindowEnds(t)
    \/ \E s \in Slots : SlotExpires(s)
    \/ \E w \in Workers : Worker(w) \/ Crash(w)

Spec == Init /\ [][Next]_vars

\* Requests run to their end, workers keep looping, and time passes.
Fairness ==
    /\ \A j \in Jobs : WF_vars(Api(j)) /\ WF_vars(DelayElapses(j)) /\ WF_vars(LockExpires(j))
    /\ \A t \in Targets : WF_vars(RateWindowEnds(t))
    /\ \A s \in Slots : WF_vars(SlotExpires(s))
    /\ \A w \in Workers : WF_vars(Worker(w))

FairSpec == Spec /\ Fairness
-----------------------------------------------------------------------------
(* Properties *)

\* The types of all variables.
TypeOK ==
    /\ services \in Deployments
    /\ api \in [Jobs -> ApiStates]
    /\ target \in [Jobs -> Targets \union {InvalidTarget}]
    /\ status \in [Jobs -> DocStatus]
    /\ deferred \subseteq Jobs
    /\ created \in [Jobs -> Nat] /\ clock \in Nat
    /\ count \in [Jobs -> 0..MaxResults]
    /\ secrets \subseteq Jobs /\ expired \subseteq Jobs
    /\ saved \in [Jobs -> Nat] /\ late \in [Jobs -> Nat]
    /\ vulnerable \subseteq Jobs /\ issues \subseteq Endpoints
    /\ progress \in [Jobs -> DocStatus]
    /\ topic \subseteq Jobs
    /\ lock \in [Jobs -> Holders]
    /\ slot \in [Slots -> Holders]
    /\ hits \in [Targets -> 0..(TargetJobsPerWindow + 1)]
    /\ pc \in [Workers -> Labels]
    /\ cur \in [Workers -> Jobs \union {NoJob}]
    /\ event \subseteq Workers
    /\ note \in [Workers -> DocStatus]
    /\ defers \in [Workers -> SUBSET {"lock", "slot", "secret"}]
    /\ found \in [Workers -> 0..MaxResults]
    /\ index \in [Workers -> 0..MaxResults]
    /\ probe \in [Workers -> 1..(GlobalConcurrency + 1)]
    /\ faults \in 0..MaxFaults

\* Worker w has claimed job j and has not yet written how the job goes on.
OwningLabels == {"lock", "check", "slot", "rate", "undoSlot", "requeue",
                 "hydrate", "reject", "execute", "timeout", "fail", "recheck",
                 "each", "store", "issue", "complete"}
Owns(w, j) ==
    /\ cur[w] = j
    /\ pc[w] \in OwningLabels \/ (pc[w] = "progress" /\ note[w] = "running")

\* A job is worked on by at most one worker at a time, whichever of the two
\* claim paths it came through, with Redis or without, and across requeues,
\* failed calls, crashes and redelivered events (claimScanJob).
ExclusiveClaim ==
    \A v, w \in Workers : \A j \in Jobs : Owns(v, j) /\ Owns(w, j) => v = w

\* A job the API accepted and that waits in the queue, for the first time or
\* after a requeue, still has its encrypted credential unless that expired
\* (cleanupScanSecret runs on every path of processClaimedJob but these).
QueuedJobKeepsSecret ==
    \A j \in AuthJobs :
        status[j] = "queued" /\ api[j] \in {"publish", "accepted"}
            => j \in secrets \union expired

\* A completed job has exactly the results its results_count states, and an
\* issue if one of them was vulnerable (the loop of processClaimedJob up to
\* CompleteScanJob), although other workers may have attempted the job before.
CompletedJobHasItsResults ==
    \A j \in Jobs : status[j] = "completed" =>
        /\ saved[j] = count[j]
        /\ j \in vulnerable => Endpoint[j] \in issues

\* When a job is settled and no worker handles it, its credential is gone, as
\* long as no call has failed (cleanupScanSecret, deferred or called early).
\* The exception: handleCancelScanJob and CancelScanJob delete no credential,
\* so one stays, until its TTL, for a job cancelled before a scan of it began,
\* in the queue or while a worker was being refused coordination for it.
SettledJobHasNoSecret ==
    faults = 0 =>
        \A j \in secrets :
            /\ isTerminalScanStatus(status[j])
            /\ \A w \in Workers : cur[w] # j
            => status[j] = "cancelled" /\ progress[j] \in {"absent", "queued"}

\* Two workers never both believe they hold the lock of one job (TryLock and
\* the value check of redisLock.Release).
LockExcludes ==
    \A v, w \in Workers :
        "lock" \in defers[v] \intersect defers[w] /\ cur[v] = cur[w] => v = w

\* The workers between admission and its release: live scanner jobs.
Live == {w \in Workers : "slot" \in defers[w]}

\* "KARAXYS_SCANNER_GLOBAL_CONCURRENCY limits live scanner jobs across worker
\* replicas" (TryAcquire).
LiveScansWithinLimit == Cardinality(Live) <= GlobalConcurrency

\* After a job is cancelled at most one more of its results is stored: the one
\* between its scanJobCancelled check and its SaveScanResult.
AtMostOneLateResult == \A j \in Jobs : late[j] <= 1

\* No update ever changes a settled job: the filters of CompleteScanJob,
\* FailScanJob, RequeueScanJob, TimeoutScanJob and CancelScanJob keep a worker
\* that is late from overwriting a cancellation.
TerminalIsFinal ==
    [][\A j \in Jobs : isTerminalScanStatus(status[j]) => status'[j] = status[j]]_vars

\* "If capacity is unavailable, the worker requeues the job [...] instead of
\* failing it": with Redis, only a job that was admitted or that has no valid
\* target ever fails (acquireScanAdmission and its caller).
CapacityNeverFailsJob ==
    [][\A j \in Jobs :
        "redis" \in services /\ status[j] # "failed" /\ status'[j] = "failed" =>
            \/ target[j] = InvalidTarget
            \/ \E w \in Live : cur[w] = j]_vars

\* When no worker handles a job, a final status in its progress record is the
\* job's status (setScanProgress after the status update).
SettledProgressAgrees ==
    \A j \in Jobs :
        /\ isTerminalScanStatus(progress[j])
        /\ \A w \in Workers : cur[w] # j
        => progress[j] = status[j]

\* "The scanner worker claims queued jobs [...] and marks the job completed or
\* failed": every queued job settles.
QueuedJobSettles ==
    \A j \in Jobs : status[j] = "queued" ~> isTerminalScanStatus(status[j])

-----------------------------------------------------------------------------
(* The inductive invariant behind ExclusiveClaim, QueuedJobKeepsSecret and  *)
(* CompletedJobHasItsResults.                                               *)

\* Where a worker may still put its job back into the queue, and where it
\* stores what the scan found.
PreLabels == {"lock", "check", "slot", "rate", "undoSlot", "requeue"}
StoreLabels == {"recheck", "each", "store", "issue", "complete"}

\* A worker that is not idle has a job; before it takes the lock it has
\* registered no deferred call; the storing loop never runs past its results;
\* a job given up before its scan is not reported as running.
WorkerInv ==
    \A w \in Workers :
        /\ pc[w] # "idle" => cur[w] \in Jobs
        /\ pc[w] \in {"idle", "claim", "lock"} => defers[w] = {}
        /\ index[w] <= found[w]
        /\ pc[w] = "store" => index[w] < found[w]
        /\ pc[w] = "complete" => index[w] = found[w]
        /\ pc[w] = "clean" => note[w] # "running"

\* A request inserts its job once, with the credential already stored.
RequestInv ==
    \A j \in Jobs :
        /\ api[j] \in {"none", "secret", "create"} => status[j] = "absent"
        /\ api[j] = "create" /\ j \in AuthJobs => j \in secrets \union expired

\* A job with an owner is not in the queue, so nobody can claim it.
OwnershipInv ==
    /\ \A w \in Workers, j \in Jobs : Owns(w, j) => status[j] \in {"running", "cancelled"}
    /\ ExclusiveClaim

\* A worker that is going to delete a credential has its job past every
\* requeue, and no other worker has the job.
SecretInv ==
    /\ \A w \in Workers :
        pc[w] = "clean" \/ "secret" \in defers[w] =>
            /\ status[cur[w]] \notin {"absent", "queued"}
            /\ pc[w] \notin PreLabels
            /\ \A v \in Workers : Owns(v, cur[w]) => v = w
    /\ \A w \in Workers :
        /\ pc[w] \in PreLabels /\ status[cur[w]] = "running"
        /\ cur[w] \in AuthJobs /\ api[cur[w]] \in {"publish", "accepted"}
        => cur[w] \in secrets \union expired
    /\ QueuedJobKeepsSecret

\* Worker w has a job and no results for it yet.
Unscanned(w) ==
    \/ pc[w] \in PreLabels \union {"hydrate", "execute"}
    \/ pc[w] = "progress" /\ note[w] = "running"

\* All results of a job come from the one scan that is storing them.
ResultInv ==
    /\ \A j \in Jobs :
        status[j] \in {"absent", "queued"} => saved[j] = 0 /\ j \notin vulnerable
    /\ \A w \in Workers :
        /\ Unscanned(w) => saved[cur[w]] = 0 /\ cur[w] \notin vulnerable
        /\ pc[w] \in StoreLabels => saved[cur[w]] = index[w]
        /\ pc[w] \in StoreLabels \ {"issue"} /\ cur[w] \in vulnerable => Endpoint[cur[w]] \in issues
    /\ CompletedJobHasItsResults

\* The conjunction that every step of Next preserves.
ScanInv == TypeOK /\ WorkerInv /\ RequestInv /\ OwnershipInv /\ SecretInv /\ ResultInv

\* The worker that owns a job is its runner: see ScanLifecycle.
Runner(j) ==
    IF \E w \in Workers : Owns(w, j) THEN CHOOSE w \in Workers : Owns(w, j) ELSE NoJob

Lifecycle == INSTANCE ScanLifecycle
    WITH runner <- [j \in Jobs |-> Runner(j)], stored <- saved, NoRunner <- NoJob

\* Every behaviour of the API server, the workers and their stores, with all
\* failures of the model, is one the abstract job lifecycle allows.
RefinesLifecycle == Lifecycle!Spec
=============================================================================
