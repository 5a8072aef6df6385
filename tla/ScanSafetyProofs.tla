-------------------------- MODULE ScanSafetyProofs --------------------------
(***************************************************************************)
(* The remaining safety properties of ScanExecution, for every value of    *)
(* its constants: late results, the job lock, admission, the credential of *)
(* a settled job, the limit on live scans, and the job lifecycle that the  *)
(* detailed model implements.                                              *)
(*                                                                         *)
(* They rest on ScanInv (ScanExecutionProofs) and on SafetyInv, whose      *)
(* conjuncts say which deferred calls a worker has registered at which     *)
(* point of processClaimedJob, and what the registration guarantees.       *)
(***************************************************************************)
EXTENDS ScanExecutionProofs, FiniteSetTheorems

\* Where a worker has a claimed job whose credential it is bound to delete.
ScannedLabels == {"execute", "timeout", "fail"} \union StoreLabels

\* Where a worker has registered which deferred calls: none of slot before
\* admission, secret from hydrateScanAuthSecret until the deferred calls run.
DeferInv ==
    \A w \in Workers :
        /\ pc[w] \in PreLabels => "slot" \notin defers[w]
        /\ pc[w] \in ScannedLabels => "secret" \in defers[w]

\* A result is late only if the job was cancelled, and no worker is about to
\* store another one: the check before each result sees the cancellation.
LateInv ==
    /\ \A j \in Jobs : late[j] > 0 => status[j] = "cancelled"
    /\ \A w \in Workers : pc[w] = "store" => late[cur[w]] = 0
    /\ AtMostOneLateResult

\* Worker v's job is past every requeue and no other worker can get it.
Past(v) ==
    /\ status[cur[v]] \notin {"absent", "queued"}
    /\ pc[v] \notin PreLabels
    /\ \A w \in Workers : Owns(w, cur[v]) => w = v

\* A worker that registered the release of its lock holds the lock, unless the
\* lease ran out during the scan, when nobody else can come to ask for it.
LockInv ==
    /\ \A v \in Workers : "lock" \in defers[v] => lock[cur[v]] = v \/ Past(v)
    /\ LockExcludes

\* With Redis, a job that may still fail was admitted, or its target is invalid.
AdmissionInv ==
    "redis" \in services =>
        \A w \in Workers :
            /\ \/ pc[w] \in {"hydrate"} \union ScannedLabels
               \/ pc[w] = "progress" /\ note[w] = "running"
               => "slot" \in defers[w]
            /\ \/ pc[w] = "undoSlot" /\ note[w] = "failed"
               \/ pc[w] = "reject"
               => "slot" \in defers[w] \/ target[cur[w]] = InvalidTarget

\* Jobs in an event, at a worker or with a progress record have been inserted.
KnownInv ==
    /\ \A j \in Jobs : api[j] = "publish" => status[j] # "absent"
    /\ \A j \in topic : status[j] # "absent"
    /\ \A w \in Workers : cur[w] # NoJob => status[cur[w]] # "absent"
    /\ \A j \in Jobs : status[j] = "absent" => progress[j] = "absent"

\* While no call has failed: from the moment a worker reports the job running
\* there is a worker that will delete the credential if there still is one,
\* nobody reports a job settled otherwise, and a job whose scan has not begun
\* can only have been cancelled.
SettledInv ==
    faults = 0 =>
        /\ \A j \in secrets :
            \/ /\ progress[j] \in {"absent", "queued"}
               /\ status[j] \notin {"completed", "failed", "timed_out"}
            \/ \E w \in Workers :
                /\ cur[w] = j
                /\ pc[w] \in {"clean", "hydrate"} \/ "secret" \in defers[w]
        /\ \A w \in Workers :
            /\ pc[w] = "progress" /\ note[w] \notin {"queued", "running"}
            /\ cur[w] \in secrets
            => "secret" \in defers[w]

\* The conjunction that every step preserves, given ScanInv.
SafetyInv == DeferInv /\ LateInv /\ LockInv /\ AdmissionInv /\ KnownInv /\ SettledInv

\* Leases do not run out during a scan: an admitted worker holds a slot.
SlotInv ==
    \A w \in Workers :
        pc[w] \in {"rate", "undoSlot"} \/ "slot" \in defers[w] =>
            \E s \in Slots : slot[s] = w
-----------------------------------------------------------------------------
\* Every step keeps the places where deferred calls are registered: defer
\* lock.Release(), defer admission.Release() and defer cleanupScanSecret in
\* processClaimedJob.
LEMMA DeferStep ==
  ASSUME ScanInv, DeferInv, [Next]_vars
  PROVE  DeferInv'
<1> USE ScanAssumption DEF ScanInv, TypeOK, WorkerInv, DeferInv, ScannedLabels,
   StoreLabels, PreLabels, Goto
<1>1. ASSUME NEW w \in Workers, Consume(w) PROVE DeferInv'
  BY <1>1 DEF Consume
<1>2. ASSUME NEW w \in Workers, ClaimScanJobByID(w) PROVE DeferInv'
  BY <1>2 DEF ClaimScanJobByID, StartJob, LoseClaim, ClaimScanJob, Claimable
<1>3. ASSUME NEW w \in Workers, ClaimNextScanJob(w) PROVE DeferInv'
  BY <1>3 DEF ClaimNextScanJob, StartJob, LoseClaim, ClaimScanJob, Claimable
<1>4. ASSUME NEW w \in Workers, TryLock(w) PROVE DeferInv'
  BY <1>4 DEF TryLock
<1>5. ASSUME NEW w \in Workers, CheckCancelled(w) PROVE DeferInv'
  BY <1>5 DEF CheckCancelled, Report
<1>6. ASSUME NEW w \in Workers, TryAcquire(w) PROVE DeferInv'
  BY <1>6 DEF TryAcquire, Admitted, Report
<1>7. ASSUME NEW w \in Workers, Allow(w) PROVE DeferInv'
  BY <1>7 DEF Allow, Admitted, Report, Hit
<1>8. ASSUME NEW w \in Workers, UndoSlot(w) PROVE DeferInv'
  BY <1>8 DEF UndoSlot, ReleaseSlot
<1>9. ASSUME NEW w \in Workers, Requeue(w) PROVE DeferInv'
  BY <1>9 DEF Requeue, Report, RequeueScanJob, UpdateWhere
<1>10. ASSUME NEW w \in Workers, Hydrate(w) PROVE DeferInv'
  BY <1>10 DEF Hydrate
<1>11. ASSUME NEW w \in Workers, Reject(w) PROVE DeferInv'
  BY <1>11 DEF Reject, StatusWrite, FailScanJob, UpdateWhere
<1>12. ASSUME NEW w \in Workers, CleanEarly(w) PROVE DeferInv'
  BY <1>12 DEF CleanEarly, DropSecret
<1>13. ASSUME NEW w \in Workers, ExecuteScan(w) PROVE DeferInv'
  BY <1>13 DEF ExecuteScan
<1>14. ASSUME NEW w \in Workers, Timeout(w) PROVE DeferInv'
  BY <1>14 DEF Timeout, StatusWrite, TimeoutScanJob, UpdateWhere, Report
<1>15. ASSUME NEW w \in Workers, Fail(w) PROVE DeferInv'
  BY <1>15 DEF Fail, StatusWrite, FailScanJob, UpdateWhere, Report
<1>16. ASSUME NEW w \in Workers, Recheck(w) PROVE DeferInv'
  BY <1>16 DEF Recheck, Report
<1>17. ASSUME NEW w \in Workers, EachResult(w) PROVE DeferInv'
  BY <1>17 DEF EachResult, Report
<1>18. ASSUME NEW w \in Workers, SaveScanResult(w) PROVE DeferInv'
  BY <1>18 DEF SaveScanResult, AddResult
<1>19. ASSUME NEW w \in Workers, UpsertIssueFromScanResult(w) PROVE DeferInv'
  BY <1>19 DEF UpsertIssueFromScanResult
<1>20. ASSUME NEW w \in Workers, Complete(w) PROVE DeferInv'
  BY <1>20 DEF Complete, CompleteScanJob, UpdateWhere, Report
<1>21. ASSUME NEW w \in Workers, SetScanProgress(w) PROVE DeferInv'
  BY <1>21 DEF SetScanProgress
<1>22. ASSUME NEW w \in Workers, DeferredCleanup(w) PROVE DeferInv'
  BY <1>22 DEF DeferredCleanup, DropSecret
<1>23. ASSUME NEW w \in Workers, DeferredSlot(w) PROVE DeferInv'
  BY <1>23 DEF DeferredSlot, ReleaseSlot
<1>24. ASSUME NEW w \in Workers, DeferredLock(w) PROVE DeferInv'
  BY <1>24 DEF DeferredLock, ReleaseLock
<1>25. ASSUME NEW w \in Workers, Commit(w) PROVE DeferInv'
  BY <1>25 DEF Commit, Leave
<1>26. ASSUME NEW w \in Workers, Crash(w) PROVE DeferInv'
  BY <1>26 DEF Crash, Leave
<1>27. ASSUME NEW j \in Jobs,
       \/ BeginRequest(j) \/ externalizeScanAuthSecret(j) \/ CreateScanJob(j)
       \/ deleteScanSecret(j) \/ publishScanJobQueued(j) \/ ApiCrash(j)
       \/ handleCancelScanJob(j) \/ DelayElapses(j)
     PROVE  pc' = pc /\ defers' = defers
  BY <1>27 DEF docVars, dataVars, redisVars, workVars, apiVars, BeginRequest,
     externalizeScanAuthSecret, CreateScanJob, deleteScanSecret,
     publishScanJobQueued, ApiCrash, handleCancelScanJob, DelayElapses
<1>28. ASSUME NEW j \in Jobs,
       \/ LockExpires(j) \/ SecretExpires(j)
     PROVE  pc' = pc /\ defers' = defers
  BY <1>28 DEF docVars, dataVars, redisVars, workVars, apiVars, LockExpires,
     SecretExpires
<1>29. ASSUME NEW t \in Targets,
       \/ RateWindowEnds(t)
     PROVE  pc' = pc /\ defers' = defers
  BY <1>29 DEF docVars, dataVars, redisVars, workVars, apiVars, RateWindowEnds
<1>30. ASSUME NEW s \in Slots,
       \/ SlotExpires(s)
     PROVE  pc' = pc /\ defers' = defers
  BY <1>30 DEF docVars, dataVars, redisVars, workVars, apiVars, SlotExpires
<1>31. CASE UNCHANGED vars
  BY <1>31 DEF vars
<1> QED
  BY <1>1, <1>2, <1>3, <1>4, <1>5, <1>6, <1>7, <1>8, <1>9, <1>10, <1>11, <1>12,
     <1>13, <1>14, <1>15, <1>16, <1>17, <1>18, <1>19, <1>20, <1>21, <1>22, <1>23,
     <1>24, <1>25, <1>26, <1>27, <1>28, <1>29, <1>30, <1>31 DEF Next, Api, Worker,
     handleTriggerScan, enqueueSuiteJob, handleRerunScanJob

\* A result is stored late at most once: SaveScanResult follows a
\* scanJobCancelled check that saw the job running, only the job's owner
\* stores, and a cancelled job stays cancelled.
LEMMA LateStep ==
  ASSUME ScanInv, LateInv, [Next]_vars
  PROVE  LateInv'
<1> USE ScanAssumption DEF ScanInv, TypeOK, WorkerInv, LateInv, AtMostOneLateResult,
   Goto
<1>0. ASSUME late' = late,
             \A v \in Workers : pc'[v] = "store" => pc[v] = "store" /\ cur'[v] = cur[v]
      PROVE  LateInv'
  <2>1. \A j \in Jobs : status[j] = "cancelled" => status'[j] = "cancelled"
    BY TerminalStep DEF isTerminalScanStatus, Terminal
  <2> QED
    BY <1>0, <2>1
<1>1. ASSUME NEW w \in Workers, EachResult(w) PROVE LateInv'
  <2>1. /\ cur' = cur /\ status' = status /\ late' = late
        /\ \A v \in Workers : v # w => pc'[v] = pc[v]
        /\ pc'[w] = "store" => status[cur[w]] # "cancelled"
        /\ cur[w] \in Jobs
    BY <1>1 DEF EachResult, Report, docVars, dataVars
  <2> QED
    BY <2>1
<1>2. ASSUME NEW w \in Workers, SaveScanResult(w) PROVE LateInv'
  <2>1. cur[w] \in Jobs /\ late[cur[w]] = 0 /\ pc[w] = "store" /\ cur' = cur /\ status' = status
    BY <1>2 DEF SaveScanResult, docVars
  <2>2. pc'[w] # "store" /\ \A v \in Workers : v # w => pc'[v] = pc[v]
    BY <1>2 DEF SaveScanResult
  <2>3. \/ late' = late
        \/ late' = [late EXCEPT ![cur[w]] = IF status[cur[w]] = "cancelled" THEN @ + 1 ELSE @]
    BY <1>2 DEF SaveScanResult, AddResult
  <2>4. \A v \in Workers : pc[v] = "store" /\ cur[v] = cur[w] => v = w
    BY <2>1 DEF OwnershipInv, ExclusiveClaim, Owns, OwningLabels
  <2>5. \A j \in Jobs : late'[j] = late[j] \/ (j = cur[w] /\ late'[j] = 1 /\ status[j] = "cancelled")
    BY <2>1, <2>3
  <2>6. \A v \in Workers : pc'[v] = "store" => late'[cur'[v]] = 0
    BY <2>1, <2>2, <2>4, <2>5
  <2> QED
    BY <2>1, <2>5, <2>6
<1>3. ASSUME NEW j \in Jobs,
       \/ BeginRequest(j) \/ externalizeScanAuthSecret(j) \/ CreateScanJob(j)
       \/ deleteScanSecret(j) \/ publishScanJobQueued(j) \/ ApiCrash(j)
       \/ handleCancelScanJob(j) \/ DelayElapses(j)
     PROVE  late' = late /\ \A v \in Workers : pc'[v] = "store" => pc[v] = "store" /\ cur'[v] = cur[v]
  BY <1>3 DEF docVars, dataVars, workVars, apiVars, BeginRequest,
     externalizeScanAuthSecret, CreateScanJob, deleteScanSecret,
     publishScanJobQueued, ApiCrash, handleCancelScanJob, DelayElapses
<1>4. ASSUME NEW j \in Jobs,
       \/ LockExpires(j) \/ SecretExpires(j)
     PROVE  late' = late /\ \A v \in Workers : pc'[v] = "store" => pc[v] = "store" /\ cur'[v] = cur[v]
  BY <1>4 DEF docVars, dataVars, workVars, apiVars, LockExpires, SecretExpires
<1>5. ASSUME NEW t \in Targets,
       \/ RateWindowEnds(t)
     PROVE  late' = late /\ \A v \in Workers : pc'[v] = "store" => pc[v] = "store" /\ cur'[v] = cur[v]
  BY <1>5 DEF docVars, dataVars, workVars, apiVars, RateWindowEnds
<1>6. ASSUME NEW s \in Slots,
       \/ SlotExpires(s)
     PROVE  late' = late /\ \A v \in Workers : pc'[v] = "store" => pc[v] = "store" /\ cur'[v] = cur[v]
  BY <1>6 DEF docVars, dataVars, workVars, apiVars, SlotExpires
<1>7. ASSUME NEW w \in Workers,
       \/ Consume(w) \/ ClaimScanJobByID(w) \/ ClaimNextScanJob(w) \/ TryLock(w)
       \/ CheckCancelled(w) \/ TryAcquire(w) \/ Allow(w) \/ UndoSlot(w)
     PROVE  late' = late /\ \A v \in Workers : pc'[v] = "store" => pc[v] = "store" /\ cur'[v] = cur[v]
  BY <1>7 DEF docVars, dataVars, workVars, apiVars, Consume, ClaimScanJobByID,
     StartJob, LoseClaim, ClaimNextScanJob, TryLock, CheckCancelled, Report,
     TryAcquire, Admitted, Allow, UndoSlot
<1>8. ASSUME NEW w \in Workers,
       \/ Requeue(w) \/ Hydrate(w) \/ Reject(w) \/ CleanEarly(w) \/ ExecuteScan(w)
       \/ Timeout(w) \/ Fail(w) \/ Recheck(w)
     PROVE  late' = late /\ \A v \in Workers : pc'[v] = "store" => pc[v] = "store" /\ cur'[v] = cur[v]
  BY <1>8 DEF docVars, dataVars, workVars, apiVars, Requeue, Report, Hydrate,
     Reject, CleanEarly, ExecuteScan, Timeout, Fail, Recheck
<1>9. ASSUME NEW w \in Workers,
       \/ UpsertIssueFromScanResult(w) \/ Complete(w) \/ SetScanProgress(w)
       \/ DeferredCleanup(w) \/ DeferredSlot(w) \/ DeferredLock(w) \/ Commit(w)
       \/ Crash(w)
     PROVE  late' = late /\ \A v \in Workers : pc'[v] = "store" => pc[v] = "store" /\ cur'[v] = cur[v]
  BY <1>9 DEF docVars, dataVars, workVars, apiVars, UpsertIssueFromScanResult,
     Complete, Report, SetScanProgress, DeferredCleanup, DeferredSlot, DeferredLock,
     Commit, Leave, Crash
<1>10. CASE UNCHANGED vars
  BY <1>10 DEF vars
<1> QED
  BY <1>0, <1>1, <1>2, <1>3, <1>4, <1>5, <1>6, <1>7, <1>8, <1>9, <1>10 DEF Next,
     Api, Worker, handleTriggerScan, enqueueSuiteJob, handleRerunScanJob

\* Once a worker's job is past every requeue it stays so while the worker has
\* it: the other updates of scan_jobs never write queued, and a claim needs a
\* queued document.
LEMMA PastStep ==
  ASSUME ScanInv, [Next]_vars, NEW v \in Workers, Past(v), cur[v] \in Jobs,
         cur'[v] = cur[v], defers[v] # {}, defers'[v] # {}
  PROVE  Past(v)'
<1> USE ScanAssumption DEF ScanInv, TypeOK, WorkerInv, Past, PreLabels, Owns,
   OwningLabels, Goto, docVars, dataVars, redisVars, workVars, apiVars
<1>0. ASSUME status' = status, pc' = pc, cur' = cur, note' = note PROVE Past(v)'
  BY <1>0
<1>1. ASSUME NEW j \in Jobs, CreateScanJob(j) PROVE Past(v)'
  BY <1>1 DEF CreateScanJob, InsertJob, RequestInv
<1>2. ASSUME NEW j \in Jobs, handleCancelScanJob(j) PROVE Past(v)'
  BY <1>2 DEF handleCancelScanJob, CancelScanJob, UpdateWhere
<1>3. ASSUME NEW w \in Workers, Consume(w) PROVE Past(v)'
  BY <1>3 DEF Consume
<1>4. ASSUME NEW w \in Workers, ClaimScanJobByID(w) PROVE Past(v)'
  BY <1>4 DEF ClaimScanJobByID, StartJob, LoseClaim, ClaimScanJob, Claimable
<1>5. ASSUME NEW w \in Workers, ClaimNextScanJob(w) PROVE Past(v)'
  BY <1>5 DEF ClaimNextScanJob, StartJob, LoseClaim, ClaimScanJob, Claimable
<1>6. ASSUME NEW w \in Workers, TryLock(w) PROVE Past(v)'
  BY <1>6 DEF TryLock
<1>7. ASSUME NEW w \in Workers, CheckCancelled(w) PROVE Past(v)'
  BY <1>7 DEF CheckCancelled, Report
<1>8. ASSUME NEW w \in Workers, TryAcquire(w) PROVE Past(v)'
  BY <1>8 DEF TryAcquire, Admitted, Report
<1>9. ASSUME NEW w \in Workers, Allow(w) PROVE Past(v)'
  BY <1>9 DEF Allow, Admitted, Report, Hit
<1>10. ASSUME NEW w \in Workers, UndoSlot(w) PROVE Past(v)'
  BY <1>10 DEF UndoSlot, ReleaseSlot
<1>11. ASSUME NEW w \in Workers, Requeue(w) PROVE Past(v)'
  BY <1>11 DEF Requeue, Report, RequeueScanJob, UpdateWhere
<1>12. ASSUME NEW w \in Workers, Hydrate(w) PROVE Past(v)'
  BY <1>12 DEF Hydrate
<1>13. ASSUME NEW w \in Workers, Reject(w) PROVE Past(v)'
  BY <1>13 DEF Reject, StatusWrite, FailScanJob, UpdateWhere
<1>14. ASSUME NEW w \in Workers, CleanEarly(w) PROVE Past(v)'
  BY <1>14 DEF CleanEarly, DropSecret
<1>15. ASSUME NEW w \in Workers, ExecuteScan(w) PROVE Past(v)'
  BY <1>15 DEF ExecuteScan
<1>16. ASSUME NEW w \in Workers, Timeout(w) PROVE Past(v)'
  BY <1>16 DEF Timeout, StatusWrite, TimeoutScanJob, UpdateWhere, Report
<1>17. ASSUME NEW w \in Workers, Fail(w) PROVE Past(v)'
  BY <1>17 DEF Fail, StatusWrite, FailScanJob, UpdateWhere, Report
<1>18. ASSUME NEW w \in Workers, Recheck(w) PROVE Past(v)'
  BY <1>18 DEF Recheck, Report
<1>19. ASSUME NEW w \in Workers, EachResult(w) PROVE Past(v)'
  BY <1>19 DEF EachResult, Report
<1>20. ASSUME NEW w \in Workers, SaveScanResult(w) PROVE Past(v)'
  BY <1>20 DEF SaveScanResult, AddResult
<1>21. ASSUME NEW w \in Workers, UpsertIssueFromScanResult(w) PROVE Past(v)'
  BY <1>21 DEF UpsertIssueFromScanResult
<1>22. ASSUME NEW w \in Workers, Complete(w) PROVE Past(v)'
  BY <1>22 DEF Complete, CompleteScanJob, UpdateWhere, Report
<1>23. ASSUME NEW w \in Workers, SetScanProgress(w) PROVE Past(v)'
  BY <1>23 DEF SetScanProgress
<1>24. ASSUME NEW w \in Workers, DeferredCleanup(w) PROVE Past(v)'
  BY <1>24 DEF DeferredCleanup, DropSecret
<1>25. ASSUME NEW w \in Workers, DeferredSlot(w) PROVE Past(v)'
  BY <1>25 DEF DeferredSlot, ReleaseSlot
<1>26. ASSUME NEW w \in Workers, DeferredLock(w) PROVE Past(v)'
  BY <1>26 DEF DeferredLock, ReleaseLock
<1>27. ASSUME NEW w \in Workers, Commit(w) PROVE Past(v)'
  BY <1>27 DEF Commit, Leave
<1>28. ASSUME NEW w \in Workers, Crash(w) PROVE Past(v)'
  BY <1>28 DEF Crash, Leave
<1>29. ASSUME NEW j \in Jobs,
       \/ BeginRequest(j) \/ externalizeScanAuthSecret(j) \/ deleteScanSecret(j)
       \/ publishScanJobQueued(j) \/ ApiCrash(j) \/ DelayElapses(j)
       \/ LockExpires(j) \/ SecretExpires(j)
     PROVE  status' = status /\ pc' = pc /\ cur' = cur /\ note' = note
  BY <1>29 DEF BeginRequest, externalizeScanAuthSecret, deleteScanSecret,
     publishScanJobQueued, ApiCrash, DelayElapses, LockExpires, SecretExpires
<1>30. ASSUME NEW t \in Targets,
       \/ RateWindowEnds(t)
     PROVE  status' = status /\ pc' = pc /\ cur' = cur /\ note' = note
  BY <1>30 DEF RateWindowEnds
<1>31. ASSUME NEW s \in Slots,
       \/ SlotExpires(s)
     PROVE  status' = status /\ pc' = pc /\ cur' = cur /\ note' = note
  BY <1>31 DEF SlotExpires
<1>32. CASE UNCHANGED vars
  BY <1>32 DEF vars
<1> QED
  BY <1>0, <1>1, <1>2, <1>3, <1>4, <1>5, <1>6, <1>7, <1>8, <1>9, <1>10, <1>11,
     <1>12, <1>13, <1>14, <1>15, <1>16, <1>17, <1>18, <1>19, <1>20, <1>21, <1>22,
     <1>23, <1>24, <1>25, <1>26, <1>27, <1>28, <1>29, <1>30, <1>31, <1>32 DEF Next,
     Api, Worker, handleTriggerScan, enqueueSuiteJob, handleRerunScanJob

\* A registered lock stays held, or its job stays past every requeue: the lock
\* is taken with NX, only its holder's value deletes it, and its lease runs
\* out only during a scan.
LEMMA LockStep ==
  ASSUME ScanInv, DeferInv, LockInv, [Next]_vars
  PROVE  LockInv'
<1> USE ScanAssumption DEF ScanInv, TypeOK, WorkerInv
<1> DEFINE Keeps ==
        \A v \in Workers : "lock" \in defers'[v] =>
            /\ "lock" \in defers[v] /\ cur'[v] = cur[v]
            /\ lock[cur[v]] = v => lock'[cur[v]] = v \/ Past(v)
<1> HIDE DEF Keeps
<1>0. ASSUME Keeps PROVE LockInv'
  <2>1. \A v \in Workers : "lock" \in defers'[v] => lock'[cur'[v]] = v \/ Past(v)'
    <3> SUFFICES ASSUME NEW v \in Workers, "lock" \in defers'[v]
                 PROVE  lock'[cur[v]] = v \/ Past(v)'
      BY <1>0 DEF Keeps
    <3>1. cur[v] \in Jobs /\ "lock" \in defers[v] /\ cur'[v] = cur[v]
      BY <1>0 DEF Keeps
    <3> QED
      BY <1>0, <3>1, PastStep DEF LockInv, Keeps
  <2> QED
    BY <1>0, <2>1 DEF LockInv, LockExcludes, Keeps
<1>1. ASSUME NEW j \in Jobs, LockExpires(j) PROVE LockInv'
  <2>1. /\ cur' = cur /\ defers' = defers /\ Expirable(lock[j])
        /\ lock' = [lock EXCEPT ![j] = "free"]
    BY <1>1 DEF LockExpires, workVars
  <2>2. \A v \in Workers : "lock" \in defers[v] /\ cur[v] = j /\ lock[j] = v => Past(v)
    BY <2>1 DEF Expirable, DeferInv, ScannedLabels, SecretInv, Past
  <2> QED
    BY <2>1, <2>2, <1>0 DEF Keeps
<1>2. ASSUME NEW w \in Workers, TryLock(w) PROVE LockInv'
  <2>1. /\ cur' = cur /\ status' = status /\ note' = note /\ pc[w] = "lock" /\ cur[w] \in Jobs
        /\ \A v \in Workers : v # w => pc'[v] = pc[v] /\ defers'[v] = defers[v]
    BY <1>2 DEF TryLock, Goto, docVars
  <2>2. \A v \in Workers : "lock" \in defers[v] => cur[v] \in Jobs /\ v # w
    BY <2>1
  <2>3. \A v \in Workers : "lock" \in defers[v] /\ cur[v] = cur[w] => lock[cur[w]] = v
    BY <2>1, <2>2 DEF LockInv, Past, Owns, OwningLabels
  <2>4. \A v \in Workers : v # w /\ "lock" \in defers[v] => lock'[cur[v]] = v \/ Past(v)'
    <3> SUFFICES ASSUME NEW v \in Workers, v # w, "lock" \in defers[v]
                 PROVE  lock'[cur[v]] = v \/ Past(v)'
      OBVIOUS
    <3>1. CASE Past(v)
      BY <3>1, <2>1, <2>2, PastStep
    <3>2. CASE lock[cur[v]] = v
      BY <1>2, <3>2, <2>1, <2>2 DEF TryLock
    <3> QED
      BY <3>1, <3>2 DEF LockInv
  <2>5. CASE lock[cur[w]] = "free" /\ lock' = [lock EXCEPT ![cur[w]] = w]
    <3>1. \A v \in Workers : ~("lock" \in defers[v] /\ cur[v] = cur[w])
      BY <2>5, <2>3
    <3> QED
      BY <2>1, <2>4, <2>5, <3>1 DEF LockInv, LockExcludes
  <2>6. CASE defers' = defers
    BY <2>1, <2>2, <2>4, <2>6 DEF LockInv, LockExcludes
  <2> QED
    BY <1>2, <2>5, <2>6 DEF TryLock
<1>3. ASSUME NEW j \in Jobs,
       \/ BeginRequest(j) \/ externalizeScanAuthSecret(j) \/ CreateScanJob(j)
       \/ deleteScanSecret(j) \/ publishScanJobQueued(j) \/ ApiCrash(j)
       \/ handleCancelScanJob(j) \/ DelayElapses(j)
     PROVE  Keeps
  BY <1>3 DEF docVars, dataVars, workVars, apiVars, redisVars, Keeps, BeginRequest,
     externalizeScanAuthSecret, CreateScanJob, deleteScanSecret,
     publishScanJobQueued, ApiCrash, handleCancelScanJob, DelayElapses
<1>4. ASSUME NEW j \in Jobs,
       \/ SecretExpires(j)
     PROVE  Keeps
  BY <1>4 DEF docVars, dataVars, workVars, apiVars, redisVars, Keeps, SecretExpires
<1>5. ASSUME NEW t \in Targets,
       \/ RateWindowEnds(t)
     PROVE  Keeps
  BY <1>5 DEF docVars, dataVars, workVars, apiVars, redisVars, Keeps, RateWindowEnds
<1>6. ASSUME NEW s \in Slots,
       \/ SlotExpires(s)
     PROVE  Keeps
  BY <1>6 DEF docVars, dataVars, workVars, apiVars, redisVars, Keeps, SlotExpires
<1>7. ASSUME NEW w \in Workers,
       \/ Consume(w) \/ ClaimScanJobByID(w) \/ ClaimNextScanJob(w)
       \/ CheckCancelled(w) \/ TryAcquire(w) \/ Allow(w) \/ UndoSlot(w)
       \/ Requeue(w)
     PROVE  Keeps
  BY <1>7 DEF docVars, dataVars, workVars, apiVars, redisVars, Keeps, Consume,
     ClaimScanJobByID, StartJob, LoseClaim, ClaimNextScanJob, CheckCancelled,
     TryAcquire, Admitted, Allow, UndoSlot, Requeue
<1>8. ASSUME NEW w \in Workers,
       \/ Hydrate(w) \/ Reject(w) \/ CleanEarly(w) \/ ExecuteScan(w) \/ Timeout(w)
       \/ Fail(w) \/ Recheck(w) \/ EachResult(w)
     PROVE  Keeps
  BY <1>8 DEF docVars, dataVars, workVars, apiVars, redisVars, Keeps, Hydrate,
     Reject, CleanEarly, ExecuteScan, Timeout, Fail, Recheck, EachResult
<1>9. ASSUME NEW w \in Workers,
       \/ SaveScanResult(w) \/ UpsertIssueFromScanResult(w) \/ Complete(w)
       \/ SetScanProgress(w) \/ DeferredCleanup(w) \/ DeferredSlot(w)
       \/ DeferredLock(w) \/ Commit(w)
     PROVE  Keeps
  BY <1>9 DEF docVars, dataVars, workVars, apiVars, redisVars, Keeps,
     SaveScanResult, UpsertIssueFromScanResult, Complete, SetScanProgress,
     DeferredCleanup, DeferredSlot, DeferredLock, ReleaseLock, Commit, Leave
<1>10. ASSUME NEW w \in Workers,
       \/ Crash(w)
     PROVE  Keeps
  BY <1>10 DEF docVars, dataVars, workVars, apiVars, redisVars, Keeps, Crash, Leave
<1>11. CASE UNCHANGED vars
  BY <1>11, <1>0 DEF vars, Keeps
<1> QED
  BY <1>0, <1>1, <1>2, <1>3, <1>4, <1>5, <1>6, <1>7, <1>8, <1>9, <1>10, <1>11 DEF
     Next, Api, Worker, handleTriggerScan, enqueueSuiteJob, handleRerunScanJob

\* With Redis, a job reaches the steps that may fail it only through
\* acquireScanAdmission, or with a target from which no rate key can be built;
\* the target of a claimed job is fixed.
LEMMA AdmissionStep ==
  ASSUME ScanInv, DeferInv, AdmissionInv, [Next]_vars
  PROVE  AdmissionInv'
<1> USE ScanAssumption DEF ScanInv, TypeOK, WorkerInv, AdmissionInv, ScannedLabels,
   StoreLabels, PreLabels, Goto, docVars, dataVars, redisVars, workVars, apiVars
<1>0. ASSUME services' = services, target' = target, pc' = pc, cur' = cur, note' = note, defers' = defers
      PROVE  AdmissionInv'
  BY <1>0
<1>1. ASSUME NEW j \in Jobs, BeginRequest(j) PROVE AdmissionInv'
  BY <1>1 DEF BeginRequest, RequestInv, OwnershipInv, Owns, OwningLabels
<1>2. ASSUME NEW w \in Workers, Consume(w) PROVE AdmissionInv'
  BY <1>2 DEF Consume
<1>3. ASSUME NEW w \in Workers, ClaimScanJobByID(w) PROVE AdmissionInv'
  BY <1>3 DEF ClaimScanJobByID, StartJob, LoseClaim, ClaimScanJob, Claimable
<1>4. ASSUME NEW w \in Workers, ClaimNextScanJob(w) PROVE AdmissionInv'
  BY <1>4 DEF ClaimNextScanJob, StartJob, LoseClaim, ClaimScanJob, Claimable
<1>5. ASSUME NEW w \in Workers, TryLock(w) PROVE AdmissionInv'
  BY <1>5 DEF TryLock
<1>6. ASSUME NEW w \in Workers, CheckCancelled(w) PROVE AdmissionInv'
  BY <1>6 DEF CheckCancelled, Report
<1>7. ASSUME NEW w \in Workers, TryAcquire(w) PROVE AdmissionInv'
  BY <1>7 DEF TryAcquire, Admitted, Report
<1>8. ASSUME NEW w \in Workers, Allow(w) PROVE AdmissionInv'
  BY <1>8 DEF Allow, Admitted, Report, Hit
<1>9. ASSUME NEW w \in Workers, UndoSlot(w) PROVE AdmissionInv'
  BY <1>9 DEF UndoSlot, ReleaseSlot
<1>10. ASSUME NEW w \in Workers, Requeue(w) PROVE AdmissionInv'
  BY <1>10 DEF Requeue, Report, RequeueScanJob, UpdateWhere
<1>11. ASSUME NEW w \in Workers, Hydrate(w) PROVE AdmissionInv'
  BY <1>11 DEF Hydrate
<1>12. ASSUME NEW w \in Workers, Reject(w) PROVE AdmissionInv'
  BY <1>12 DEF Reject, StatusWrite, FailScanJob, UpdateWhere
<1>13. ASSUME NEW w \in Workers, CleanEarly(w) PROVE AdmissionInv'
  BY <1>13 DEF CleanEarly, DropSecret
<1>14. ASSUME NEW w \in Workers, ExecuteScan(w) PROVE AdmissionInv'
  BY <1>14 DEF ExecuteScan
<1>15. ASSUME NEW w \in Workers, Timeout(w) PROVE AdmissionInv'
  BY <1>15 DEF Timeout, StatusWrite, TimeoutScanJob, UpdateWhere, Report
<1>16. ASSUME NEW w \in Workers, Fail(w) PROVE AdmissionInv'
  BY <1>16 DEF Fail, StatusWrite, FailScanJob, UpdateWhere, Report
<1>17. ASSUME NEW w \in Workers, Recheck(w) PROVE AdmissionInv'
  BY <1>17 DEF Recheck, Report
<1>18. ASSUME NEW w \in Workers, EachResult(w) PROVE AdmissionInv'
  BY <1>18 DEF EachResult, Report
<1>19. ASSUME NEW w \in Workers, SaveScanResult(w) PROVE AdmissionInv'
  BY <1>19 DEF SaveScanResult, AddResult
<1>20. ASSUME NEW w \in Workers, UpsertIssueFromScanResult(w) PROVE AdmissionInv'
  BY <1>20 DEF UpsertIssueFromScanResult
<1>21. ASSUME NEW w \in Workers, Complete(w) PROVE AdmissionInv'
  BY <1>21 DEF Complete, CompleteScanJob, UpdateWhere, Report
<1>22. ASSUME NEW w \in Workers, SetScanProgress(w) PROVE AdmissionInv'
  BY <1>22 DEF SetScanProgress
<1>23. ASSUME NEW w \in Workers, DeferredCleanup(w) PROVE AdmissionInv'
  BY <1>23 DEF DeferredCleanup, DropSecret
<1>24. ASSUME NEW w \in Workers, DeferredSlot(w) PROVE AdmissionInv'
  BY <1>24 DEF DeferredSlot, ReleaseSlot
<1>25. ASSUME NEW w \in Workers, DeferredLock(w) PROVE AdmissionInv'
  BY <1>25 DEF DeferredLock, ReleaseLock
<1>26. ASSUME NEW w \in Workers, Commit(w) PROVE AdmissionInv'
  BY <1>26 DEF Commit, Leave
<1>27. ASSUME NEW w \in Workers, Crash(w) PROVE AdmissionInv'
  BY <1>27 DEF Crash, Leave
<1>28. ASSUME NEW j \in Jobs,
       \/ externalizeScanAuthSecret(j) \/ CreateScanJob(j) \/ deleteScanSecret(j)
       \/ publishScanJobQueued(j) \/ ApiCrash(j) \/ handleCancelScanJob(j)
       \/ DelayElapses(j) \/ LockExpires(j)
     PROVE  services' = services /\ target' = target /\ pc' = pc /\ cur' = cur /\ note' = note /\ defers' = defers
  BY <1>28 DEF externalizeScanAuthSecret, CreateScanJob, deleteScanSecret,
     publishScanJobQueued, ApiCrash, handleCancelScanJob, DelayElapses, LockExpires
<1>29. ASSUME NEW j \in Jobs,
       \/ SecretExpires(j)
     PROVE  services' = services /\ target' = target /\ pc' = pc /\ cur' = cur /\ note' = note /\ defers' = defers
  BY <1>29 DEF SecretExpires
<1>30. ASSUME NEW t \in Targets,
       \/ RateWindowEnds(t)
     PROVE  services' = services /\ target' = target /\ pc' = pc /\ cur' = cur /\ note' = note /\ defers' = defers
  BY <1>30 DEF RateWindowEnds
<1>31. ASSUME NEW s \in Slots,
       \/ SlotExpires(s)
     PROVE  services' = services /\ target' = target /\ pc' = pc /\ cur' = cur /\ note' = note /\ defers' = defers
  BY <1>31 DEF SlotExpires
<1>32. CASE UNCHANGED vars
  BY <1>32 DEF vars
<1> QED
  BY <1>0, <1>1, <1>2, <1>3, <1>4, <1>5, <1>6, <1>7, <1>8, <1>9, <1>10, <1>11,
     <1>12, <1>13, <1>14, <1>15, <1>16, <1>17, <1>18, <1>19, <1>20, <1>21, <1>22,
     <1>23, <1>24, <1>25, <1>26, <1>27, <1>28, <1>29, <1>30, <1>31, <1>32 DEF Next,
     Api, Worker, handleTriggerScan, enqueueSuiteJob, handleRerunScanJob

\* A job gets an event, a worker or a progress record only after its insert.
LEMMA KnownStep ==
  ASSUME ScanInv, KnownInv, [Next]_vars
  PROVE  KnownInv'
<1> USE ScanAssumption DEF ScanInv, TypeOK, WorkerInv, RequestInv, KnownInv, Goto,
   docVars, dataVars, redisVars, workVars, apiVars
<1>1. ASSUME NEW j \in Jobs, CreateScanJob(j) PROVE KnownInv'
  BY <1>1 DEF CreateScanJob, InsertJob
<1>2. ASSUME NEW j \in Jobs, publishScanJobQueued(j) PROVE KnownInv'
  BY <1>2 DEF publishScanJobQueued
<1>3. ASSUME NEW j \in Jobs,
       \/ BeginRequest(j) \/ externalizeScanAuthSecret(j) \/ deleteScanSecret(j)
       \/ ApiCrash(j) \/ DelayElapses(j) \/ LockExpires(j) \/ SecretExpires(j)
     PROVE  KnownInv'
  BY <1>3 DEF BeginRequest, externalizeScanAuthSecret, deleteScanSecret, ApiCrash,
     DelayElapses, LockExpires, SecretExpires
<1>4. ASSUME NEW j \in Jobs, handleCancelScanJob(j) PROVE KnownInv'
  BY <1>4 DEF handleCancelScanJob, CancelScanJob, UpdateWhere
<1>5. ASSUME NEW t \in Targets, RateWindowEnds(t) PROVE KnownInv'
  BY <1>5 DEF RateWindowEnds
<1>6. ASSUME NEW s \in Slots, SlotExpires(s) PROVE KnownInv'
  BY <1>6 DEF SlotExpires
<1>7. ASSUME NEW w \in Workers, Consume(w) PROVE KnownInv'
  BY <1>7 DEF Consume
<1>8. ASSUME NEW w \in Workers, ClaimScanJobByID(w) PROVE KnownInv'
  BY <1>8 DEF ClaimScanJobByID, StartJob, LoseClaim, ClaimScanJob, Claimable
<1>9. ASSUME NEW w \in Workers, ClaimNextScanJob(w) PROVE KnownInv'
  BY <1>9 DEF ClaimNextScanJob, StartJob, LoseClaim, ClaimScanJob, Claimable
<1>10. ASSUME NEW w \in Workers,
       \/ TryLock(w) \/ CheckCancelled(w) \/ TryAcquire(w) \/ Allow(w)
       \/ UndoSlot(w) \/ Hydrate(w) \/ CleanEarly(w) \/ ExecuteScan(w)
     PROVE  /\ api' = api /\ topic' = topic /\ status' = status /\ cur' = cur
            /\ progress' = progress
  BY <1>10 DEF TryLock, CheckCancelled, TryAcquire, Allow, UndoSlot, Hydrate,
     CleanEarly, ExecuteScan
<1>11. ASSUME NEW w \in Workers,
       \/ Recheck(w) \/ EachResult(w) \/ SaveScanResult(w)
       \/ UpsertIssueFromScanResult(w) \/ DeferredCleanup(w) \/ DeferredSlot(w)
       \/ DeferredLock(w)
     PROVE  /\ api' = api /\ topic' = topic /\ status' = status /\ cur' = cur
            /\ progress' = progress
  BY <1>11 DEF Recheck, EachResult, SaveScanResult, UpsertIssueFromScanResult,
     DeferredCleanup, DeferredSlot, DeferredLock
<1>12. ASSUME NEW w \in Workers, Requeue(w) PROVE KnownInv'
  BY <1>12 DEF Requeue, RequeueScanJob, UpdateWhere
<1>13. ASSUME NEW w \in Workers, Reject(w) PROVE KnownInv'
  BY <1>13 DEF Reject, StatusWrite, FailScanJob, UpdateWhere
<1>14. ASSUME NEW w \in Workers, Timeout(w) PROVE KnownInv'
  BY <1>14 DEF Timeout, StatusWrite, TimeoutScanJob, UpdateWhere
<1>15. ASSUME NEW w \in Workers, Fail(w) PROVE KnownInv'
  BY <1>15 DEF Fail, StatusWrite, FailScanJob, UpdateWhere
<1>16. ASSUME NEW w \in Workers, Complete(w) PROVE KnownInv'
  BY <1>16 DEF Complete, CompleteScanJob, UpdateWhere
<1>17. ASSUME NEW w \in Workers, SetScanProgress(w) PROVE KnownInv'
  BY <1>17 DEF SetScanProgress
<1>18. ASSUME NEW w \in Workers, Commit(w) PROVE KnownInv'
  BY <1>18 DEF Commit, Leave
<1>19. ASSUME NEW w \in Workers, Crash(w) PROVE KnownInv'
  BY <1>19 DEF Crash, Leave
<1>20. CASE UNCHANGED vars
  BY <1>20 DEF vars
<1> QED
  BY <1>1, <1>2, <1>3, <1>4, <1>5, <1>6, <1>7, <1>8, <1>9, <1>10, <1>11, <1>12,
     <1>13, <1>14, <1>15, <1>16, <1>17, <1>18, <1>19, <1>20 DEF Next, Api, Worker,
     handleTriggerScan, enqueueSuiteJob, handleRerunScanJob

\* While no call fails, a job whose scan began has a worker that still has to
\* delete its credential, and that worker deletes it before it leaves the job.
LEMMA SettledStep ==
  ASSUME ScanInv, DeferInv, KnownInv, SettledInv, [Next]_vars
  PROVE  SettledInv'
<1> USE ScanAssumption DEF ScanInv, TypeOK, WorkerInv, DeferInv, KnownInv, SettledInv,
   ScannedLabels, StoreLabels, Goto, Ok, Err, docVars, dataVars, redisVars,
   workVars, apiVars
<1>0. ASSUME status' = status, secrets' = secrets, pc' = pc, cur' = cur, note' = note,
             defers' = defers, progress' = progress, faults' = 0 => faults = 0
      PROVE  SettledInv'
  BY <1>0
<1>1. ASSUME NEW j \in Jobs, externalizeScanAuthSecret(j) PROVE SettledInv'
  BY <1>1 DEF externalizeScanAuthSecret, RequestInv
<1>2. ASSUME NEW j \in Jobs, CreateScanJob(j) PROVE SettledInv'
  BY <1>2 DEF CreateScanJob, InsertJob, RequestInv
<1>3. ASSUME NEW j \in Jobs, deleteScanSecret(j) PROVE SettledInv'
  BY <1>3 DEF deleteScanSecret
<1>4. ASSUME NEW j \in Jobs, handleCancelScanJob(j) PROVE SettledInv'
  BY <1>4 DEF handleCancelScanJob, CancelScanJob, UpdateWhere, RequestInv
<1>5. ASSUME NEW j \in Jobs, SecretExpires(j) PROVE SettledInv'
  BY <1>5 DEF SecretExpires
<1>6. ASSUME NEW w \in Workers, Consume(w) PROVE SettledInv'
  BY <1>6 DEF Consume
<1>7. ASSUME NEW w \in Workers, ClaimScanJobByID(w) PROVE SettledInv'
  BY <1>7 DEF ClaimScanJobByID, StartJob, LoseClaim, ClaimScanJob, Claimable
<1>8. ASSUME NEW w \in Workers, ClaimNextScanJob(w) PROVE SettledInv'
  BY <1>8 DEF ClaimNextScanJob, StartJob, LoseClaim, ClaimScanJob, Claimable
<1>9. ASSUME NEW w \in Workers, TryLock(w) PROVE SettledInv'
  BY <1>9 DEF TryLock
<1>10. ASSUME NEW w \in Workers, CheckCancelled(w) PROVE SettledInv'
  BY <1>10 DEF CheckCancelled, Report
<1>11. ASSUME NEW w \in Workers, TryAcquire(w) PROVE SettledInv'
  BY <1>11 DEF TryAcquire, Admitted, Report
<1>12. ASSUME NEW w \in Workers, Allow(w) PROVE SettledInv'
  BY <1>12 DEF Allow, Admitted, Report, Hit
<1>13. ASSUME NEW w \in Workers, UndoSlot(w) PROVE SettledInv'
  BY <1>13 DEF UndoSlot, ReleaseSlot
<1>14. ASSUME NEW w \in Workers, Requeue(w) PROVE SettledInv'
  BY <1>14 DEF Requeue, Report, RequeueScanJob, UpdateWhere
<1>15. ASSUME NEW w \in Workers, Hydrate(w) PROVE SettledInv'
  BY <1>15 DEF Hydrate
<1>16. ASSUME NEW w \in Workers, Reject(w) PROVE SettledInv'
  BY <1>16 DEF Reject, StatusWrite, FailScanJob, UpdateWhere
<1>17. ASSUME NEW w \in Workers, CleanEarly(w) PROVE SettledInv'
  BY <1>17 DEF CleanEarly, DropSecret
<1>18. ASSUME NEW w \in Workers, ExecuteScan(w) PROVE SettledInv'
  BY <1>18 DEF ExecuteScan
<1>19. ASSUME NEW w \in Workers, Timeout(w) PROVE SettledInv'
  BY <1>19 DEF Timeout, StatusWrite, TimeoutScanJob, UpdateWhere, Report
<1>20. ASSUME NEW w \in Workers, Fail(w) PROVE SettledInv'
  BY <1>20 DEF Fail, StatusWrite, FailScanJob, UpdateWhere, Report
<1>21. ASSUME NEW w \in Workers, Recheck(w) PROVE SettledInv'
  BY <1>21 DEF Recheck, Report
<1>22. ASSUME NEW w \in Workers, EachResult(w) PROVE SettledInv'
  BY <1>22 DEF EachResult, Report
<1>23. ASSUME NEW w \in Workers, SaveScanResult(w) PROVE SettledInv'
  BY <1>23 DEF SaveScanResult, AddResult
<1>24. ASSUME NEW w \in Workers, UpsertIssueFromScanResult(w) PROVE SettledInv'
  BY <1>24 DEF UpsertIssueFromScanResult
<1>25. ASSUME NEW w \in Workers, Complete(w) PROVE SettledInv'
  BY <1>25 DEF Complete, CompleteScanJob, UpdateWhere, Report
<1>26. ASSUME NEW w \in Workers, SetScanProgress(w) PROVE SettledInv'
  BY <1>26 DEF SetScanProgress
<1>27. ASSUME NEW w \in Workers, DeferredCleanup(w) PROVE SettledInv'
  BY <1>27 DEF DeferredCleanup, DropSecret
<1>28. ASSUME NEW w \in Workers, DeferredSlot(w) PROVE SettledInv'
  BY <1>28 DEF DeferredSlot, ReleaseSlot
<1>29. ASSUME NEW w \in Workers, DeferredLock(w) PROVE SettledInv'
  BY <1>29 DEF DeferredLock, ReleaseLock
<1>30. ASSUME NEW w \in Workers, Commit(w) PROVE SettledInv'
  BY <1>30 DEF Commit, Leave
<1>31. ASSUME NEW w \in Workers, Crash(w) PROVE SettledInv'
  BY <1>31 DEF Crash, Leave
<1>32. ASSUME NEW j \in Jobs,
       \/ BeginRequest(j) \/ publishScanJobQueued(j) \/ ApiCrash(j)
       \/ DelayElapses(j) \/ LockExpires(j)
     PROVE  status' = status /\ secrets' = secrets /\ pc' = pc /\ cur' = cur /\ note' = note /\
            defers' = defers /\ progress' = progress /\ (faults' = 0 => faults = 0)
  BY <1>32 DEF BeginRequest, publishScanJobQueued, ApiCrash, DelayElapses,
     LockExpires
<1>33. ASSUME NEW t \in Targets,
       \/ RateWindowEnds(t)
     PROVE  status' = status /\ secrets' = secrets /\ pc' = pc /\ cur' = cur /\ note' = note /\
            defers' = defers /\ progress' = progress /\ (faults' = 0 => faults = 0)
  BY <1>33 DEF RateWindowEnds
<1>34. ASSUME NEW s \in Slots,
       \/ SlotExpires(s)
     PROVE  status' = status /\ secrets' = secrets /\ pc' = pc /\ cur' = cur /\ note' = note /\
            defers' = defers /\ progress' = progress /\ (faults' = 0 => faults = 0)
  BY <1>34 DEF SlotExpires
<1>35. CASE UNCHANGED vars
  BY <1>35 DEF vars
<1> QED
  BY <1>0, <1>1, <1>2, <1>3, <1>4, <1>5, <1>6, <1>7, <1>8, <1>9, <1>10, <1>11,
     <1>12, <1>13, <1>14, <1>15, <1>16, <1>17, <1>18, <1>19, <1>20, <1>21, <1>22,
     <1>23, <1>24, <1>25, <1>26, <1>27, <1>28, <1>29, <1>30, <1>31, <1>32, <1>33,
     <1>34, <1>35 DEF Next, Api, Worker, handleTriggerScan, enqueueSuiteJob,
     handleRerunScanJob

\* If no scan outlasts its lease, an admitted worker keeps its semaphore slot
\* until it releases it: TryAcquire takes a slot with NX and only its holder's
\* value deletes it.
LEMMA SlotStep ==
  ASSUME ~LongScans, ScanInv, DeferInv, SlotInv, [Next]_vars
  PROVE  SlotInv'
<1> USE ScanAssumption DEF ScanInv, TypeOK, WorkerInv, SlotInv, DeferInv, PreLabels,
   Goto, docVars, dataVars, redisVars, workVars, apiVars
<1>1. ASSUME NEW s \in Slots, SlotExpires(s) PROVE SlotInv'
  BY <1>1 DEF SlotExpires, Expirable
<1>2. ASSUME NEW w \in Workers, TryLock(w) PROVE SlotInv'
  BY <1>2 DEF TryLock
<1>3. ASSUME NEW w \in Workers, CheckCancelled(w) PROVE SlotInv'
  BY <1>3 DEF CheckCancelled, Report
<1>4. ASSUME NEW w \in Workers, TryAcquire(w) PROVE SlotInv'
  <2>1. /\ pc[w] = "slot" /\ "slot" \notin defers[w]
        /\ \A v \in Workers : v # w => pc'[v] = pc[v] /\ defers'[v] = defers[v]
    BY <1>4 DEF TryAcquire, Admitted, Report
  <2>2. CASE probe[w] \in Slots /\ slot[probe[w]] = "free" /\ slot' = [slot EXCEPT ![probe[w]] = w]
    BY <2>1, <2>2
  <2>3. CASE /\ probe[w] \in Slots /\ slot[probe[w]] = "free"
             /\ slot' = [slot EXCEPT ![probe[w]] = "orphan"]
             /\ pc' = [pc EXCEPT ![w] = "requeue"] /\ defers' = defers
    BY <2>1, <2>3
  <2>4. CASE slot' = slot /\ pc'[w] \in {"slot", "requeue"} /\ defers' = defers
    BY <2>1, <2>4
  <2> QED
    BY <1>4, <2>2, <2>3, <2>4 DEF TryAcquire
<1>5. ASSUME NEW w \in Workers, Allow(w) PROVE SlotInv'
  BY <1>5 DEF Allow, Admitted, Report, Hit
<1>6. ASSUME NEW w \in Workers, UndoSlot(w) PROVE SlotInv'
  BY <1>6 DEF UndoSlot, ReleaseSlot
<1>7. ASSUME NEW w \in Workers, Requeue(w) PROVE SlotInv'
  BY <1>7 DEF Requeue, Report, RequeueScanJob, UpdateWhere
<1>8. ASSUME NEW w \in Workers, Hydrate(w) PROVE SlotInv'
  BY <1>8 DEF Hydrate
<1>9. ASSUME NEW w \in Workers, DeferredSlot(w) PROVE SlotInv'
  BY <1>9 DEF DeferredSlot, ReleaseSlot
<1>10. ASSUME NEW w \in Workers, Commit(w) PROVE SlotInv'
  BY <1>10 DEF Commit, Leave
<1>11. ASSUME NEW w \in Workers, Crash(w) PROVE SlotInv'
  BY <1>11 DEF Crash, Leave
<1>12. ASSUME NEW j \in Jobs,
       \/ BeginRequest(j) \/ externalizeScanAuthSecret(j) \/ CreateScanJob(j)
       \/ deleteScanSecret(j) \/ publishScanJobQueued(j) \/ ApiCrash(j)
       \/ handleCancelScanJob(j) \/ DelayElapses(j)
     PROVE  slot' = slot /\
            \A v \in Workers : /\ "slot" \in defers'[v] => "slot" \in defers[v]
                               /\ pc'[v] \in {"rate", "undoSlot"} => pc[v] \in {"rate", "undoSlot"}
  BY <1>12 DEF docVars, dataVars, workVars, apiVars, redisVars, BeginRequest,
     externalizeScanAuthSecret, CreateScanJob, deleteScanSecret,
     publishScanJobQueued, ApiCrash, handleCancelScanJob, DelayElapses
<1>13. ASSUME NEW j \in Jobs,
       \/ LockExpires(j) \/ SecretExpires(j)
     PROVE  slot' = slot /\
            \A v \in Workers : /\ "slot" \in defers'[v] => "slot" \in defers[v]
                               /\ pc'[v] \in {"rate", "undoSlot"} => pc[v] \in {"rate", "undoSlot"}
  BY <1>13 DEF docVars, dataVars, workVars, apiVars, redisVars, LockExpires,
     SecretExpires
<1>14. ASSUME NEW t \in Targets,
       \/ RateWindowEnds(t)
     PROVE  slot' = slot /\
            \A v \in Workers : /\ "slot" \in defers'[v] => "slot" \in defers[v]
                               /\ pc'[v] \in {"rate", "undoSlot"} => pc[v] \in {"rate", "undoSlot"}
  BY <1>14 DEF docVars, dataVars, workVars, apiVars, redisVars, RateWindowEnds
<1>15. ASSUME NEW w \in Workers,
       \/ Consume(w) \/ ClaimScanJobByID(w) \/ ClaimNextScanJob(w) \/ Reject(w)
       \/ CleanEarly(w) \/ ExecuteScan(w) \/ Timeout(w) \/ Fail(w)
     PROVE  slot' = slot /\
            \A v \in Workers : /\ "slot" \in defers'[v] => "slot" \in defers[v]
                               /\ pc'[v] \in {"rate", "undoSlot"} => pc[v] \in {"rate", "undoSlot"}
  BY <1>15 DEF docVars, dataVars, workVars, apiVars, redisVars, Consume,
     ClaimScanJobByID, StartJob, LoseClaim, ClaimNextScanJob, Reject, CleanEarly,
     ExecuteScan, Timeout, Report, Fail
<1>16. ASSUME NEW w \in Workers,
       \/ Recheck(w) \/ EachResult(w) \/ SaveScanResult(w)
       \/ UpsertIssueFromScanResult(w) \/ Complete(w) \/ SetScanProgress(w)
       \/ DeferredCleanup(w) \/ DeferredLock(w)
     PROVE  slot' = slot /\
            \A v \in Workers : /\ "slot" \in defers'[v] => "slot" \in defers[v]
                               /\ pc'[v] \in {"rate", "undoSlot"} => pc[v] \in {"rate", "undoSlot"}
  BY <1>16 DEF docVars, dataVars, workVars, apiVars, redisVars, Recheck, Report,
     EachResult, SaveScanResult, UpsertIssueFromScanResult, Complete,
     SetScanProgress, DeferredCleanup, DeferredLock
<1>17. CASE UNCHANGED vars
  BY <1>17 DEF vars
<1> QED
  BY <1>1, <1>2, <1>3, <1>4, <1>5, <1>6, <1>7, <1>8, <1>9, <1>10, <1>11, <1>12,
     <1>13, <1>14, <1>15, <1>16, <1>17 DEF Next, Api, Worker, handleTriggerScan,
     enqueueSuiteJob, handleRerunScanJob

\* The steps that write scan_jobs.status are the insert, the cancellation, the
\* two claims and the worker's requeue, fail, timeout and completion.
LEMMA StatusFrame ==
  ASSUME [Next]_vars
  PROVE  \/ status' = status
         \/ \E j \in Jobs : CreateScanJob(j) \/ handleCancelScanJob(j)
         \/ \E w \in Workers : \/ ClaimScanJobByID(w) \/ ClaimNextScanJob(w) \/ Requeue(w)
                             \/ Reject(w) \/ Timeout(w) \/ Fail(w) \/ Complete(w)
<1>1. ASSUME NEW j \in Jobs,
       \/ BeginRequest(j) \/ externalizeScanAuthSecret(j) \/ deleteScanSecret(j)
       \/ publishScanJobQueued(j) \/ ApiCrash(j) \/ DelayElapses(j)
       \/ LockExpires(j) \/ SecretExpires(j)
     PROVE  status' = status
  BY <1>1 DEF docVars, BeginRequest, externalizeScanAuthSecret, deleteScanSecret,
     publishScanJobQueued, ApiCrash, DelayElapses, LockExpires, SecretExpires
<1>2. ASSUME NEW t \in Targets,
       \/ RateWindowEnds(t)
     PROVE  status' = status
  BY <1>2 DEF docVars, RateWindowEnds
<1>3. ASSUME NEW s \in Slots,
       \/ SlotExpires(s)
     PROVE  status' = status
  BY <1>3 DEF docVars, SlotExpires
<1>4. ASSUME NEW w \in Workers,
       \/ Consume(w) \/ TryLock(w) \/ CheckCancelled(w) \/ TryAcquire(w)
       \/ Allow(w) \/ UndoSlot(w) \/ Hydrate(w) \/ CleanEarly(w)
     PROVE  status' = status
  BY <1>4 DEF docVars, Consume, TryLock, CheckCancelled, TryAcquire, Allow,
     UndoSlot, Hydrate, CleanEarly
<1>5. ASSUME NEW w \in Workers,
       \/ ExecuteScan(w) \/ Recheck(w) \/ EachResult(w) \/ SaveScanResult(w)
       \/ UpsertIssueFromScanResult(w) \/ SetScanProgress(w) \/ DeferredCleanup(w)
       \/ DeferredSlot(w)
     PROVE  status' = status
  BY <1>5 DEF docVars, ExecuteScan, Recheck, EachResult, SaveScanResult,
     UpsertIssueFromScanResult, SetScanProgress, DeferredCleanup, DeferredSlot
<1>6. ASSUME NEW w \in Workers,
       \/ DeferredLock(w) \/ Commit(w) \/ Crash(w)
     PROVE  status' = status
  BY <1>6 DEF docVars, DeferredLock, Commit, Crash
<1>7. CASE UNCHANGED vars
  BY <1>7 DEF vars
<1> QED
  BY <1>1, <1>2, <1>3, <1>4, <1>5, <1>6, <1>7 DEF Next, Api, Worker,
     handleTriggerScan, enqueueSuiteJob, handleRerunScanJob

\* The invariants hold initially: no deferred call is registered and nothing is
\* stored.
LEMMA SafetyInit == Init => SafetyInv /\ SlotInv
  BY ScanAssumption DEF Init, SafetyInv, DeferInv, LateInv, AtMostOneLateResult, LockInv,
     LockExcludes, AdmissionInv, KnownInv, SettledInv, SlotInv, ScannedLabels, StoreLabels,
     PreLabels

\* In every reachable state, with any number of failed calls, crashes and
\* leases that run out, the second inductive invariant holds.
THEOREM SafetyInvHolds == Spec => []SafetyInv
<1>1. SafetyInv /\ ScanInv /\ [Next]_vars => SafetyInv'
  BY DeferStep, LateStep, LockStep, AdmissionStep, KnownStep, SettledStep DEF SafetyInv
<1> QED
  BY <1>1, SafetyInit, ScanInvHolds, PTL DEF Spec

\* After a cancellation at most one more result is stored, however the check
\* and the insert of processClaimedJob interleave with handleCancelScanJob.
THEOREM LateResultsAreBounded == Spec => []AtMostOneLateResult
<1>1. SafetyInv => AtMostOneLateResult
  BY DEF SafetyInv, LateInv
<1> QED
  BY <1>1, SafetyInvHolds, PTL

\* Two workers never both have the lock of one job, even when a scan outlasts
\* its lease and the key is gone (TryLock, redisLock.Release, claimScanJob).
THEOREM LockIsExclusive == Spec => []LockExcludes
<1>1. SafetyInv => LockExcludes
  BY DEF SafetyInv, LockInv
<1> QED
  BY <1>1, SafetyInvHolds, PTL

\* While no call has failed, a settled job, a cancelled one included, that no
\* worker handles any more has no credential (the deferred cleanupScanSecret),
\* except a job cancelled before any scan of it began: handleCancelScanJob
\* leaves the credential of such a job to its TTL.
THEOREM SettledCredentialIsGone == Spec => []SettledJobHasNoSecret
<1>1. ScanInv /\ SafetyInv => SettledJobHasNoSecret
  BY DEF ScanInv, TypeOK, SafetyInv, SettledInv, SettledJobHasNoSecret,
     isTerminalScanStatus, Terminal
<1> QED
  BY <1>1, ScanInvHolds, SafetyInvHolds, PTL

\* A worker that fails a job was admitted with it, or the target is invalid.
LEMMA FailureStep ==
  ASSUME ScanInv, SafetyInv, [Next]_vars, NEW k \in Jobs, "redis" \in services,
         status[k] # "failed", status'[k] = "failed"
  PROVE  target[k] = InvalidTarget \/ \E w \in Live : cur[w] = k
<1> USE DEF ScanInv, TypeOK, WorkerInv
<1>1. ASSUME NEW w \in Workers, Reject(w) PROVE target[k] = InvalidTarget \/ \E v \in Live : cur[v] = k
  BY <1>1 DEF Reject, StatusWrite, FailScanJob, UpdateWhere, SafetyInv, AdmissionInv, Live
<1>2. ASSUME NEW w \in Workers, Fail(w) PROVE \E v \in Live : cur[v] = k
  BY <1>2 DEF Fail, StatusWrite, FailScanJob, UpdateWhere, SafetyInv, AdmissionInv,
     ScannedLabels, Live
<1>3. ASSUME NEW j \in Jobs, handleCancelScanJob(j) \/ CreateScanJob(j) PROVE FALSE
  BY <1>3 DEF handleCancelScanJob, CancelScanJob, UpdateWhere, CreateScanJob, InsertJob
<1>4. ASSUME NEW w \in Workers, ClaimScanJobByID(w) \/ ClaimNextScanJob(w) PROVE FALSE
  BY <1>4 DEF ClaimScanJobByID, ClaimNextScanJob, StartJob, LoseClaim, ClaimScanJob
<1>5. ASSUME NEW w \in Workers, Requeue(w) \/ Timeout(w) \/ Complete(w) PROVE FALSE
  BY <1>5 DEF Requeue, RequeueScanJob, Timeout, StatusWrite, TimeoutScanJob, Complete,
     CompleteScanJob, UpdateWhere
<1>6. CASE status' = status
  BY <1>6
<1> QED
  BY <1>1, <1>2, <1>3, <1>4, <1>5, <1>6, StatusFrame DEF Live

\* With Redis, a job fails only after it was admitted or because its target is
\* invalid: a full semaphore, a rate limit or an unreachable Redis never fails
\* it (acquireScanAdmission and its caller).
THEOREM CapacityIsNoFailure == Spec => CapacityNeverFailsJob
<1>1. ScanInv /\ SafetyInv /\ [Next]_vars =>
        [\A j \in Jobs :
            "redis" \in services /\ status[j] # "failed" /\ status'[j] = "failed" =>
                \/ target[j] = InvalidTarget
                \/ \E w \in Live : cur[w] = j]_vars
  BY FailureStep
<1> QED
  BY <1>1, ScanInvHolds, SafetyInvHolds, PTL DEF Spec, CapacityNeverFailsJob

\* If every admitted worker holds a slot, the workers map one to one to slots,
\* so there are at most GlobalConcurrency of them.
LEMMA SlotsBoundLive == ScanInv /\ SlotInv => LiveScansWithinLimit
<1> SUFFICES ASSUME ScanInv, SlotInv PROVE Cardinality(Live) <= GlobalConcurrency
  BY DEF LiveScansWithinLimit
<1> DEFINE SlotOf == [w \in Live |-> CHOOSE s \in Slots : slot[s] = w]
<1>1. \A w \in Live : SlotOf[w] \in Slots /\ slot[SlotOf[w]] = w
  BY DEF SlotInv, Live
<1>2. SlotOf \in Injection(Live, Slots)
  BY <1>1 DEF Injection, IsInjective
<1>3. IsFiniteSet(Slots) /\ Cardinality(Slots) = GlobalConcurrency
  BY ScanAssumption, FS_Interval DEF Slots
<1> QED
  BY <1>2, <1>3, FS_Injection

\* "KARAXYS_SCANNER_GLOBAL_CONCURRENCY limits live scanner jobs across worker
\* replicas", with any number of workers, faults and crashes, provided that no
\* scan outlasts its lease; run scan_lease shows that the proviso is needed.
THEOREM LiveScansAreLimited ==
  ASSUME ~LongScans
  PROVE  Spec => []LiveScansWithinLimit
<1>1. SafetyInv /\ ScanInv /\ SlotInv /\ [Next]_vars => SlotInv'
  BY ~LongScans, SlotStep DEF SafetyInv
<1> QED
  BY <1>1, SafetyInit, ScanInvHolds, SafetyInvHolds, SlotsBoundLive, PTL DEF Spec

-----------------------------------------------------------------------------
(* The detailed model implements the job lifecycle. *)

\* The runner of a job is its owner: ExclusiveClaim makes the choice unique.
LEMMA RunnerIsOwner ==
  ASSUME ScanInv
  PROVE  \A j \in Jobs :
            /\ \A w \in Workers : Owns(w, j) => Runner(j) = w
            /\ (\A w \in Workers : ~Owns(w, j)) => Runner(j) = NoJob
<1> SUFFICES ASSUME NEW j \in Jobs
             PROVE  /\ \A w \in Workers : Owns(w, j) => Runner(j) = w
                    /\ (\A w \in Workers : ~Owns(w, j)) => Runner(j) = NoJob
  OBVIOUS
<1>1. \A v, w \in Workers : Owns(v, j) /\ Owns(w, j) => v = w
  BY DEF ScanInv, OwnershipInv, ExclusiveClaim
<1> QED
  BY <1>1, Zenon DEF Runner

\* The same in the next state.
LEMMA RunnerIsOwnerNext ==
  ASSUME ScanInv'
  PROVE  \A j \in Jobs :
            /\ \A w \in Workers : Owns(w, j)' => Runner(j)' = w
            /\ (\A w \in Workers : ~Owns(w, j)') => Runner(j)' = NoJob
<1> SUFFICES ASSUME NEW j \in Jobs
             PROVE  /\ \A w \in Workers : Owns(w, j)' => Runner(j)' = w
                    /\ (\A w \in Workers : ~Owns(w, j)') => Runner(j)' = NoJob
  OBVIOUS
<1>1. \A v, w \in Workers : Owns(v, j)' /\ Owns(w, j)' => v = w
  BY DEF ScanInv, OwnershipInv, ExclusiveClaim
<1> QED
  BY <1>1, Zenon DEF Runner

\* A step that moves no owner leaves the abstract runner alone.
LEMMA SameOwners ==
  ASSUME ScanInv, ScanInv', NEW j \in Jobs,
         \A w \in Workers : Owns(w, j)' <=> Owns(w, j)
  PROVE  Runner(j)' = Runner(j)
<1>1. CASE \E w \in Workers : Owns(w, j)
  BY <1>1, RunnerIsOwner, RunnerIsOwnerNext
<1>2. CASE \A w \in Workers : ~Owns(w, j)
  BY <1>2, RunnerIsOwner, RunnerIsOwnerNext
<1> QED
  BY <1>1, <1>2

\* A step of a worker that keeps its job, or of no worker, that writes neither
\* a status nor a result is a stuttering step of the lifecycle.
LEMMA StutterStep ==
  ASSUME ScanInv, ScanInv', status' = status, saved' = saved,
         \A w \in Workers, j \in Jobs : Owns(w, j)' <=> Owns(w, j)
  PROVE  UNCHANGED Lifecycle!vars
<1>1. \A j \in Jobs : Runner(j)' = Runner(j)
  BY SameOwners
<1> QED
  BY <1>1 DEF Lifecycle!vars

\* The insert of a job and its cancellation leave the owners alone.
LEMMA DocumentStep ==
  ASSUME ScanInv, ScanInv', NEW j \in Jobs, saved' = saved,
         \/ status[j] = "absent" /\ status' = [status EXCEPT ![j] = "queued"]
         \/ status[j] \in {"queued", "running"} /\ status' = [status EXCEPT ![j] = "cancelled"],
         \A w \in Workers, k \in Jobs : Owns(w, k)' <=> Owns(w, k)
  PROVE  Lifecycle!Next
<1>1. \A k \in Jobs : Runner(k)' = Runner(k)
  BY SameOwners
<1> QED
  BY <1>1 DEF Lifecycle!Next, Lifecycle!Create, Lifecycle!Cancel

\* A claim turns a queued job, which has no owner, into one that runs under the
\* worker that claimed it, or under nobody if the worker never learns of it.
LEMMA ClaimStep ==
  ASSUME ScanInv, ScanInv', NEW w \in Workers, NEW j \in Jobs, saved' = saved,
         status[j] = "queued", status' = [status EXCEPT ![j] = "running"],
         \A v \in Workers, k \in Jobs : k # j => (Owns(v, k)' <=> Owns(v, k)),
         \A v \in Workers : Owns(v, j)' => v = w
  PROVE  Lifecycle!Next
<1>1. \A k \in Jobs : k # j => Runner(k)' = Runner(k)
  BY SameOwners
<1>2. Runner(j) = NoJob
  <2>1. \A v \in Workers : ~Owns(v, j)
    BY DEF ScanInv, OwnershipInv
  <2> QED
    BY <2>1, RunnerIsOwner
<1>3. Runner(j)' \in Workers \union {NoJob}
  <2>1. CASE Owns(w, j)'
    BY <2>1, RunnerIsOwnerNext
  <2>2. CASE ~Owns(w, j)'
    <3>1. \A v \in Workers : ~Owns(v, j)'
      BY <2>2
    <3> QED
      BY <3>1, RunnerIsOwnerNext
  <2> QED
    BY <2>1, <2>2
<1>4. [k \in Jobs |-> Runner(k)]' = [[k \in Jobs |-> Runner(k)] EXCEPT ![j] = Runner(j)']
  BY <1>1
<1>5. Lifecycle!Claim(j)
  BY <1>2, <1>3, <1>4 DEF Lifecycle!Claim
<1> QED
  BY <1>5 DEF Lifecycle!Next

\* The owner stores one result and remains the owner.
LEMMA StoreStep ==
  ASSUME ScanInv, ScanInv', NEW w \in Workers, NEW j \in Jobs, Owns(w, j),
         status' = status, saved' = [saved EXCEPT ![j] = @ + 1],
         \A v \in Workers, k \in Jobs : Owns(v, k)' <=> Owns(v, k)
  PROVE  Lifecycle!Next
<1>1. \A k \in Jobs : Runner(k)' = Runner(k)
  BY SameOwners
<1>2. Runner(j) = w /\ w # NoJob
  BY RunnerIsOwner, ScanAssumption
<1>3. Lifecycle!Store(j)
  BY <1>1, <1>2 DEF Lifecycle!Store
<1> QED
  BY <1>3 DEF Lifecycle!Next

\* The owner gives the job up: it writes an outcome, or leaves the document as
\* it is because somebody cancelled the job or a call failed.
LEMMA LeaveStep ==
  ASSUME ScanInv, ScanInv', NEW w \in Workers, NEW j \in Jobs, Owns(w, j), saved' = saved,
         \/ status' = status
         \/ /\ status[j] = "running"
            /\ \E s \in {"completed", "failed", "timed_out"} : status' = [status EXCEPT ![j] = s]
         \/ status[j] = "running" /\ saved[j] = 0 /\ status' = [status EXCEPT ![j] = "queued"],
         \A v \in Workers, k \in Jobs : v # w => (Owns(v, k)' <=> Owns(v, k)),
         \A k \in Jobs : ~Owns(w, k)'
  PROVE  Lifecycle!Next
<1>1. \A v \in Workers : Owns(v, j) => v = w
  BY DEF ScanInv, OwnershipInv, ExclusiveClaim
<1>2. Runner(j) = w /\ w # NoJob
  BY RunnerIsOwner, ScanAssumption
<1>3. Runner(j)' = NoJob
  <2>1. \A v \in Workers : ~Owns(v, j)'
    BY <1>1
  <2> QED
    BY <2>1, RunnerIsOwnerNext
<1>4. \A k \in Jobs : k # j => Runner(k)' = Runner(k)
  <2>1. \A k \in Jobs : Owns(w, k) => k = j
    BY DEF Owns
  <2> QED
    BY <2>1, SameOwners
<1>5. [k \in Jobs |-> Runner(k)]' = [[k \in Jobs |-> Runner(k)] EXCEPT ![j] = NoJob]
  BY <1>3, <1>4
<1>6. Lifecycle!Leave(j)
  BY <1>2, <1>5 DEF Lifecycle!Leave, Lifecycle!Outcomes
<1> QED
  BY <1>6 DEF Lifecycle!Next


\* Every step of the API server, of a worker or of time is a step of the
\* lifecycle or leaves status, runner and stored results alone.
LEMMA LifecycleStep ==
  ASSUME ScanInv, ScanInv', [Next]_vars
  PROVE  Lifecycle!Next \/ UNCHANGED Lifecycle!vars
<1> USE ScanAssumption DEF ScanInv, TypeOK, WorkerInv, Owns, OwningLabels, Goto,
   docVars, dataVars, redisVars, workVars, apiVars
<1> DEFINE Keeps ==
        /\ status' = status /\ saved' = saved
        /\ \A v \in Workers, k \in Jobs : Owns(v, k)' <=> Owns(v, k)
<1> HIDE DEF Keeps
<1>0. ASSUME Keeps PROVE Lifecycle!Next \/ UNCHANGED Lifecycle!vars
  BY <1>0, StutterStep DEF Keeps
<1>1. ASSUME NEW j \in Jobs, CreateScanJob(j) PROVE Lifecycle!Next \/ UNCHANGED Lifecycle!vars
  <2>1. /\ status[j] = "absent" /\ saved' = saved
        /\ pc' = pc /\ cur' = cur /\ note' = note
        /\ status' = status \/ status' = [status EXCEPT ![j] = "queued"]
    BY <1>1 DEF CreateScanJob, InsertJob, RequestInv
  <2> QED
    BY <2>1, <1>0, DocumentStep DEF Keeps
<1>2. ASSUME NEW j \in Jobs, handleCancelScanJob(j) PROVE Lifecycle!Next \/ UNCHANGED Lifecycle!vars
  <2>1. /\ status[j] \in {"queued", "running"} /\ status' = [status EXCEPT ![j] = "cancelled"]
        /\ saved' = saved /\ pc' = pc /\ cur' = cur /\ note' = note
    BY <1>2 DEF handleCancelScanJob, CancelScanJob, UpdateWhere
  <2> QED
    BY <2>1, DocumentStep
<1>3. ASSUME NEW w \in Workers, ClaimScanJobByID(w) PROVE Lifecycle!Next \/ UNCHANGED Lifecycle!vars
  <2> PICK j \in Jobs : cur[w] = j
    BY <1>3 DEF ClaimScanJobByID
  <2>1. /\ pc[w] = "claim" /\ cur[w] = j /\ saved' = saved
        /\ \A k \in Jobs : ~Owns(w, k)
        /\ \A v \in Workers, k \in Jobs : v # w => (Owns(v, k)' <=> Owns(v, k))
    BY <1>3 DEF ClaimScanJobByID, StartJob, LoseClaim
  <2>2. CASE status' = status /\ \A k \in Jobs : ~Owns(w, k)'
    BY <2>1, <2>2, <1>0 DEF Keeps
  <2>3. CASE /\ status[j] = "queued" /\ status' = [status EXCEPT ![j] = "running"]
             /\ \A k \in Jobs : k # j => ~Owns(w, k)'
    <3>1. \A v \in Workers : ~Owns(v, j)
      BY <2>1, <2>3 DEF OwnershipInv
    <3>2. \A v \in Workers, k \in Jobs : k # j => (Owns(v, k)' <=> Owns(v, k))
      BY <2>1, <2>3
    <3>3. \A v \in Workers : Owns(v, j)' => v = w
      BY <2>1, <3>1
    <3> HIDE DEF Owns, ScanInv, TypeOK, WorkerInv
    <3> QED
      BY <2>1, <2>3, <3>2, <3>3, ClaimStep
  <2>4. status' = status => \A k \in Jobs : ~Owns(w, k)'
    BY <1>3 DEF ClaimScanJobByID, StartJob, LoseClaim, ClaimScanJob, Claimable
  <2>5. status' # status =>
            /\ status[j] = "queued" /\ status' = [status EXCEPT ![j] = "running"]
            /\ \A k \in Jobs : k # j => ~Owns(w, k)'
    BY <1>3 DEF ClaimScanJobByID, StartJob, LoseClaim, ClaimScanJob, Claimable
  <2> QED
    BY <2>2, <2>3, <2>4, <2>5
<1>4. ASSUME NEW w \in Workers, ClaimNextScanJob(w) PROVE Lifecycle!Next \/ UNCHANGED Lifecycle!vars
  <2> PICK j \in Jobs : /\ Claimable(status, deferred, j)
                        /\ (Ok /\ StartJob(w, j) /\ UNCHANGED event) \/ LoseClaim(w, j)
    BY <1>4 DEF ClaimNextScanJob
  <2>1. /\ pc[w] = "idle" /\ saved' = saved
        /\ \A k \in Jobs : ~Owns(w, k)
        /\ \A v \in Workers, k \in Jobs : v # w => (Owns(v, k)' <=> Owns(v, k))
    BY <1>4 DEF ClaimNextScanJob, StartJob, LoseClaim
  <2>2. CASE status' = status /\ \A k \in Jobs : ~Owns(w, k)'
    BY <2>1, <2>2, <1>0 DEF Keeps
  <2>3. CASE /\ status[j] = "queued" /\ status' = [status EXCEPT ![j] = "running"]
             /\ \A k \in Jobs : k # j => ~Owns(w, k)'
    <3>1. \A v \in Workers : ~Owns(v, j)
      BY <2>3 DEF OwnershipInv
    <3>2. \A v \in Workers, k \in Jobs : k # j => (Owns(v, k)' <=> Owns(v, k))
      BY <2>1, <2>3
    <3>3. \A v \in Workers : Owns(v, j)' => v = w
      BY <2>1, <3>1
    <3> HIDE DEF Owns, ScanInv, TypeOK, WorkerInv
    <3> QED
      BY <2>1, <2>3, <3>2, <3>3, ClaimStep
  <2>4. status' = status => \A k \in Jobs : ~Owns(w, k)'
    BY DEF StartJob, LoseClaim, ClaimScanJob, Claimable
  <2>5. status' # status =>
            /\ status[j] = "queued" /\ status' = [status EXCEPT ![j] = "running"]
            /\ \A k \in Jobs : k # j => ~Owns(w, k)'
    BY DEF StartJob, LoseClaim, ClaimScanJob, Claimable
  <2> QED
    BY <2>2, <2>3, <2>4, <2>5
<1>5. ASSUME NEW w \in Workers, CheckCancelled(w) PROVE Lifecycle!Next \/ UNCHANGED Lifecycle!vars
  <2>1. /\ Owns(w, cur[w]) /\ cur[w] \in Jobs
        /\ cur' = cur /\ saved' = saved /\ status' = status
        /\ \A v \in Workers, k \in Jobs : v # w => (Owns(v, k)' <=> Owns(v, k))
    BY <1>5 DEF CheckCancelled, Report
  <2>2. CASE \A k \in Jobs : ~Owns(w, k)'
    BY <2>1, <2>2, LeaveStep
  <2>3. CASE \E k \in Jobs : Owns(w, k)'
    <3>1. \A k \in Jobs : Owns(w, k)' <=> Owns(w, k)
      BY <2>1, <2>3
    <3> QED
      BY <2>1, <3>1, <1>0 DEF Keeps
  <2> QED
    BY <2>2, <2>3
<1>6. ASSUME NEW w \in Workers, Requeue(w) PROVE Lifecycle!Next \/ UNCHANGED Lifecycle!vars
  <2>1. Owns(w, cur[w]) /\ cur[w] \in Jobs /\ cur' = cur /\ saved' = saved
    BY <1>6 DEF Requeue
  <2>2. /\ \A v \in Workers, k \in Jobs : v # w => (Owns(v, k)' <=> Owns(v, k))
        /\ \A k \in Jobs : ~Owns(w, k)'
    BY <1>6 DEF Requeue, Report
  <2>3. \/ status' = status
        \/ /\ status[cur[w]] = "running"
           /\ status' = [status EXCEPT ![cur[w]] = "queued"]
    BY <1>6, <2>1 DEF Requeue, RequeueScanJob, UpdateWhere, OwnershipInv
  <2>4. saved[cur[w]] = 0
    BY <1>6 DEF Requeue, ResultInv, Unscanned, PreLabels
  <2> QED
    BY <2>1, <2>2, <2>3, <2>4, LeaveStep
<1>7. ASSUME NEW w \in Workers, Reject(w) PROVE Lifecycle!Next \/ UNCHANGED Lifecycle!vars
  <2>1. Owns(w, cur[w]) /\ cur[w] \in Jobs /\ cur' = cur /\ saved' = saved
    BY <1>7 DEF Reject
  <2>2. /\ \A v \in Workers, k \in Jobs : v # w => (Owns(v, k)' <=> Owns(v, k))
        /\ \A k \in Jobs : ~Owns(w, k)'
    BY <1>7 DEF Reject, Report
  <2>3. \/ status' = status
        \/ /\ status[cur[w]] = "running"
           /\ status' = [status EXCEPT ![cur[w]] = "failed"]
    BY <1>7, <2>1 DEF Reject, StatusWrite, FailScanJob, UpdateWhere, OwnershipInv
  <2> QED
    BY <2>1, <2>2, <2>3, LeaveStep
<1>8. ASSUME NEW w \in Workers, Timeout(w) PROVE Lifecycle!Next \/ UNCHANGED Lifecycle!vars
  <2>1. Owns(w, cur[w]) /\ cur[w] \in Jobs /\ cur' = cur /\ saved' = saved
    BY <1>8 DEF Timeout
  <2>2. /\ \A v \in Workers, k \in Jobs : v # w => (Owns(v, k)' <=> Owns(v, k))
        /\ \A k \in Jobs : ~Owns(w, k)'
    BY <1>8 DEF Timeout, Report
  <2>3. \/ status' = status
        \/ /\ status[cur[w]] = "running"
           /\ status' = [status EXCEPT ![cur[w]] = "timed_out"]
    BY <1>8, <2>1 DEF Timeout, StatusWrite, TimeoutScanJob, UpdateWhere, OwnershipInv
  <2> QED
    BY <2>1, <2>2, <2>3, LeaveStep
<1>9. ASSUME NEW w \in Workers, Fail(w) PROVE Lifecycle!Next \/ UNCHANGED Lifecycle!vars
  <2>1. Owns(w, cur[w]) /\ cur[w] \in Jobs /\ cur' = cur /\ saved' = saved
    BY <1>9 DEF Fail
  <2>2. /\ \A v \in Workers, k \in Jobs : v # w => (Owns(v, k)' <=> Owns(v, k))
        /\ \A k \in Jobs : ~Owns(w, k)'
    BY <1>9 DEF Fail, Report
  <2>3. \/ status' = status
        \/ /\ status[cur[w]] = "running"
           /\ status' = [status EXCEPT ![cur[w]] = "failed"]
    BY <1>9, <2>1 DEF Fail, StatusWrite, FailScanJob, UpdateWhere, OwnershipInv
  <2> QED
    BY <2>1, <2>2, <2>3, LeaveStep
<1>10. ASSUME NEW w \in Workers, Recheck(w) PROVE Lifecycle!Next \/ UNCHANGED Lifecycle!vars
  <2>1. /\ Owns(w, cur[w]) /\ cur[w] \in Jobs
        /\ cur' = cur /\ saved' = saved /\ status' = status
        /\ \A v \in Workers, k \in Jobs : v # w => (Owns(v, k)' <=> Owns(v, k))
    BY <1>10 DEF Recheck, Report
  <2>2. CASE \A k \in Jobs : ~Owns(w, k)'
    BY <2>1, <2>2, LeaveStep
  <2>3. CASE \E k \in Jobs : Owns(w, k)'
    <3>1. \A k \in Jobs : Owns(w, k)' <=> Owns(w, k)
      BY <2>1, <2>3
    <3> QED
      BY <2>1, <3>1, <1>0 DEF Keeps
  <2> QED
    BY <2>2, <2>3
<1>11. ASSUME NEW w \in Workers, EachResult(w) PROVE Lifecycle!Next \/ UNCHANGED Lifecycle!vars
  <2>1. /\ Owns(w, cur[w]) /\ cur[w] \in Jobs
        /\ cur' = cur /\ saved' = saved /\ status' = status
        /\ \A v \in Workers, k \in Jobs : v # w => (Owns(v, k)' <=> Owns(v, k))
    BY <1>11 DEF EachResult, Report
  <2>2. CASE \A k \in Jobs : ~Owns(w, k)'
    BY <2>1, <2>2, LeaveStep
  <2>3. CASE \E k \in Jobs : Owns(w, k)'
    <3>1. \A k \in Jobs : Owns(w, k)' <=> Owns(w, k)
      BY <2>1, <2>3
    <3> QED
      BY <2>1, <3>1, <1>0 DEF Keeps
  <2> QED
    BY <2>2, <2>3
<1>12. ASSUME NEW w \in Workers, SaveScanResult(w) PROVE Lifecycle!Next \/ UNCHANGED Lifecycle!vars
  <2>1. Owns(w, cur[w]) /\ cur[w] \in Jobs /\ status' = status /\ \A v \in Workers, k \in Jobs : Owns(v, k)' <=> Owns(v, k)
    BY <1>12 DEF SaveScanResult
  <2>2. saved' = saved \/ saved' = [saved EXCEPT ![cur[w]] = @ + 1]
    BY <1>12 DEF SaveScanResult, AddResult
  <2> QED
    BY <2>1, <2>2, <1>0, StoreStep DEF Keeps
<1>13. ASSUME NEW w \in Workers, Complete(w) PROVE Lifecycle!Next \/ UNCHANGED Lifecycle!vars
  <2>1. Owns(w, cur[w]) /\ cur[w] \in Jobs /\ cur' = cur /\ saved' = saved
    BY <1>13 DEF Complete
  <2>2. /\ \A v \in Workers, k \in Jobs : v # w => (Owns(v, k)' <=> Owns(v, k))
        /\ \A k \in Jobs : ~Owns(w, k)'
    BY <1>13 DEF Complete, Report
  <2>3. \/ status' = status
        \/ /\ status[cur[w]] = "running"
           /\ status' = [status EXCEPT ![cur[w]] = "completed"]
    BY <1>13, <2>1 DEF Complete, CompleteScanJob, UpdateWhere, OwnershipInv
  <2> QED
    BY <2>1, <2>2, <2>3, LeaveStep
<1>14. ASSUME NEW w \in Workers, Crash(w) PROVE Lifecycle!Next \/ UNCHANGED Lifecycle!vars
  <2>1. /\ saved' = saved /\ status' = status /\ cur[w] \in Jobs
        /\ \A v \in Workers, k \in Jobs : v # w => (Owns(v, k)' <=> Owns(v, k))
        /\ \A k \in Jobs : ~Owns(w, k)'
    BY <1>14 DEF Crash, Leave
  <2>2. CASE Owns(w, cur[w])
    BY <2>1, <2>2, LeaveStep
  <2>3. CASE ~Owns(w, cur[w])
    BY <2>1, <2>3, <1>0 DEF Keeps
  <2> QED
    BY <2>2, <2>3
<1>15. ASSUME NEW j \in Jobs,
       \/ BeginRequest(j) \/ externalizeScanAuthSecret(j) \/ deleteScanSecret(j)
       \/ publishScanJobQueued(j) \/ ApiCrash(j) \/ DelayElapses(j)
       \/ LockExpires(j) \/ SecretExpires(j)
     PROVE  Keeps
  BY <1>15 DEF Keeps, BeginRequest, externalizeScanAuthSecret, deleteScanSecret,
     publishScanJobQueued, ApiCrash, DelayElapses, LockExpires, SecretExpires
<1>16. ASSUME NEW t \in Targets,
       \/ RateWindowEnds(t)
     PROVE  Keeps
  BY <1>16 DEF Keeps, RateWindowEnds
<1>17. ASSUME NEW s \in Slots,
       \/ SlotExpires(s)
     PROVE  Keeps
  BY <1>17 DEF Keeps, SlotExpires
<1>18. ASSUME NEW w \in Workers,
       \/ Consume(w) \/ TryLock(w) \/ TryAcquire(w) \/ Allow(w) \/ UndoSlot(w)
       \/ Hydrate(w) \/ CleanEarly(w) \/ ExecuteScan(w)
     PROVE  Keeps
  BY <1>18 DEF Keeps, Consume, TryLock, TryAcquire, Admitted, Report, Allow,
     UndoSlot, Hydrate, CleanEarly, ExecuteScan
<1>19. ASSUME NEW w \in Workers,
       \/ UpsertIssueFromScanResult(w) \/ SetScanProgress(w) \/ DeferredCleanup(w)
       \/ DeferredSlot(w) \/ DeferredLock(w) \/ Commit(w)
     PROVE  Keeps
  BY <1>19 DEF Keeps, UpsertIssueFromScanResult, SetScanProgress, DeferredCleanup,
     DeferredSlot, DeferredLock, Commit, Leave
<1>20. CASE UNCHANGED vars
  BY <1>20, <1>0 DEF vars, Keeps
<1> QED
  BY <1>0, <1>1, <1>2, <1>3, <1>4, <1>5, <1>6, <1>7, <1>8, <1>9, <1>10, <1>11,
     <1>12, <1>13, <1>14, <1>15, <1>16, <1>17, <1>18, <1>19, <1>20 DEF Next, Api,
     Worker, handleTriggerScan, enqueueSuiteJob, handleRerunScanJob

\* Every behaviour of the detailed model is one that the job lifecycle allows:
\* one runner at a time, results of one execution only, settled jobs final,
\* with every interleaving, failed call and crash (processClaimedJob and the
\* repository's updates of scan_jobs).
THEOREM ImplementsLifecycle == Spec => RefinesLifecycle
<1>1. Init => Lifecycle!Init
  <2> SUFFICES ASSUME Init PROVE Lifecycle!Init
    OBVIOUS
  <2>1. \A j \in Jobs : \A w \in Workers : ~Owns(w, j)
    BY DEF Init, Owns, OwningLabels
  <2>2. \A j \in Jobs : Runner(j) = NoJob
    BY <2>1 DEF Runner
  <2> QED
    BY <2>2 DEF Init, Lifecycle!Init
<1>2. ScanInv /\ ScanInv' /\ [Next]_vars => [Lifecycle!Next]_(Lifecycle!vars)
  BY LifecycleStep
<1> QED
  BY <1>1, <1>2, ScanInvHolds, PTL DEF Spec, RefinesLifecycle, Lifecycle!Spec
=============================================================================
