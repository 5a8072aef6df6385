------------------------ MODULE ScanExecutionProofs ------------------------
(***************************************************************************)
(* Theorems about ScanExecution for every set of jobs and workers, every   *)
(* deployment, every limit and every number of faults.                     *)
(*                                                                         *)
(* ScanInv is inductive.  Each of its six conjuncts has a lemma that says  *)
(* every step preserves it, with one case per action; the conjuncts a case *)
(* needs are those the lemma's USE names.                                  *)
(***************************************************************************)
EXTENDS ScanExecution, TLAPS

\* Every step of Next keeps the variables in their types.
LEMMA TypeStep ==
  ASSUME ScanInv, [Next]_vars
  PROVE  TypeOK'
<1> USE ScanAssumption DEF ScanInv, TypeOK, WorkerInv, DocStatus, Status, Terminal,
        ApiStates, Labels, Ok, Err, Goto, docVars, dataVars, redisVars, workVars,
        apiVars
<1>1. ASSUME NEW j \in Jobs, BeginRequest(j) PROVE TypeOK'
  BY <1>1 DEF BeginRequest
<1>2. ASSUME NEW j \in Jobs, externalizeScanAuthSecret(j) PROVE TypeOK'
  BY <1>2 DEF externalizeScanAuthSecret
<1>3. ASSUME NEW j \in Jobs, CreateScanJob(j) PROVE TypeOK'
  BY <1>3 DEF CreateScanJob, InsertJob
<1>4. ASSUME NEW j \in Jobs, deleteScanSecret(j) PROVE TypeOK'
  BY <1>4 DEF deleteScanSecret
<1>5. ASSUME NEW j \in Jobs, publishScanJobQueued(j) PROVE TypeOK'
  BY <1>5 DEF publishScanJobQueued
<1>6. ASSUME NEW j \in Jobs, ApiCrash(j) PROVE TypeOK'
  BY <1>6 DEF ApiCrash
<1>7. ASSUME NEW j \in Jobs, handleCancelScanJob(j) PROVE TypeOK'
  BY <1>7 DEF handleCancelScanJob, CancelScanJob, UpdateWhere
<1>8. ASSUME NEW j \in Jobs, DelayElapses(j) PROVE TypeOK'
  BY <1>8 DEF DelayElapses
<1>9. ASSUME NEW j \in Jobs, LockExpires(j) PROVE TypeOK'
  BY <1>9 DEF LockExpires, Holders
<1>10. ASSUME NEW j \in Jobs, SecretExpires(j) PROVE TypeOK'
  BY <1>10 DEF SecretExpires
<1>11. ASSUME NEW t \in Targets, RateWindowEnds(t) PROVE TypeOK'
  BY <1>11 DEF RateWindowEnds
<1>12. ASSUME NEW s \in Slots, SlotExpires(s) PROVE TypeOK'
  BY <1>12 DEF SlotExpires, Holders
<1>13. ASSUME NEW w \in Workers, Consume(w) PROVE TypeOK'
  BY <1>13 DEF Consume
<1>14. ASSUME NEW w \in Workers, ClaimScanJobByID(w) PROVE TypeOK'
  BY <1>14 DEF ClaimScanJobByID, StartJob, LoseClaim, ClaimScanJob, Claimable
<1>15. ASSUME NEW w \in Workers, ClaimNextScanJob(w) PROVE TypeOK'
  <2>1. /\ \E j \in Jobs : (Ok /\ StartJob(w, j) /\ UNCHANGED event) \/ LoseClaim(w, j)
        /\ UNCHANGED <<apiVars, deferred, created, clock, count, dataVars, topic,
                       redisVars, note, defers, found, index, probe>>
    BY <1>15 DEF ClaimNextScanJob
  <2>2. CASE \E j \in Jobs : Ok /\ StartJob(w, j) /\ UNCHANGED event
    BY <2>1, <2>2 DEF StartJob, ClaimScanJob
  <2>3. CASE \E j \in Jobs : LoseClaim(w, j)
    BY <2>1, <2>3 DEF LoseClaim, ClaimScanJob
  <2> QED
    BY <2>1, <2>2, <2>3
<1>16. ASSUME NEW w \in Workers, TryLock(w) PROVE TypeOK'
  <2>1. lock' \in [Jobs -> Holders]
    BY <1>16 DEF TryLock, Holders
  <2>2. pc' \in [Workers -> Labels]
    BY <1>16 DEF TryLock
  <2>3. defers' \in [Workers -> SUBSET {"lock", "slot", "secret"}]
    BY <1>16 DEF TryLock
  <2>4. faults' \in 0..MaxFaults
    BY <1>16 DEF TryLock
  <2> QED
    BY <1>16, <2>1, <2>2, <2>3, <2>4 DEF TryLock
<1>17. ASSUME NEW w \in Workers, CheckCancelled(w) PROVE TypeOK'
  <2>1. pc' \in [Workers -> Labels] /\ note' \in [Workers -> DocStatus]
    BY <1>17 DEF CheckCancelled, Report
  <2>2. probe' \in [Workers -> 1..(GlobalConcurrency + 1)]
    BY <1>17 DEF CheckCancelled
  <2>3. faults' \in 0..MaxFaults
    BY <1>17 DEF CheckCancelled
  <2> QED
    BY <1>17, <2>1, <2>2, <2>3 DEF CheckCancelled
<1>18. ASSUME NEW w \in Workers, TryAcquire(w) PROVE TypeOK'
  <2>1. slot' \in [Slots -> Holders]
    BY <1>18 DEF TryAcquire, Holders
  <2>2. probe' \in [Workers -> 1..(GlobalConcurrency + 1)]
    <3>1. probe' = probe \/ (probe[w] \in Slots /\ probe' = [probe EXCEPT ![w] = probe[w] + 1])
      BY <1>18 DEF TryAcquire
    <3>2. probe[w] \in Slots => probe[w] + 1 \in 1..(GlobalConcurrency + 1)
      BY DEF Slots
    <3> QED
      BY <3>1, <3>2
  <2>3. pc' \in [Workers -> Labels] /\ note' \in [Workers -> DocStatus]
    BY <1>18 DEF TryAcquire, Admitted, Report
  <2>4. defers' \in [Workers -> SUBSET {"lock", "slot", "secret"}]
    BY <1>18 DEF TryAcquire, Admitted
  <2>5. faults' \in 0..MaxFaults
    BY <1>18 DEF TryAcquire
  <2> QED
    BY <1>18, <2>1, <2>2, <2>3, <2>4, <2>5 DEF TryAcquire
<1>19. ASSUME NEW w \in Workers, Allow(w) PROVE TypeOK'
  <2>1. hits' \in [Targets -> 0..(TargetJobsPerWindow + 1)]
    BY <1>19 DEF Allow, Hit
  <2>2. pc' \in [Workers -> Labels] /\ note' \in [Workers -> DocStatus]
    BY <1>19 DEF Allow, Admitted, Report
  <2>3. defers' \in [Workers -> SUBSET {"lock", "slot", "secret"}]
    BY <1>19 DEF Allow, Admitted
  <2>4. faults' \in 0..MaxFaults
    BY <1>19 DEF Allow
  <2> QED
    BY <1>19, <2>1, <2>2, <2>3, <2>4 DEF Allow
<1>20. ASSUME NEW w \in Workers, UndoSlot(w) PROVE TypeOK'
  <2>1. slot' \in [Slots -> Holders]
    BY <1>20 DEF UndoSlot, ReleaseSlot, Holders
  <2>2. faults' \in 0..MaxFaults
    BY <1>20 DEF UndoSlot, ReleaseSlot
  <2> QED
    BY <1>20, <2>1, <2>2 DEF UndoSlot
<1>21. ASSUME NEW w \in Workers, Requeue(w) PROVE TypeOK'
  <2>1. status' \in [Jobs -> DocStatus]
    BY <1>21 DEF Requeue, RequeueScanJob, UpdateWhere
  <2>2. deferred' \subseteq Jobs
    BY <1>21 DEF Requeue
  <2>3. pc' \in [Workers -> Labels] /\ note' \in [Workers -> DocStatus]
    BY <1>21 DEF Requeue, Report
  <2>4. faults' \in 0..MaxFaults
    BY <1>21 DEF Requeue
  <2> QED
    BY <1>21, <2>1, <2>2, <2>3, <2>4 DEF Requeue
<1>22. ASSUME NEW w \in Workers, Hydrate(w) PROVE TypeOK'
  BY <1>22 DEF Hydrate
<1>23. ASSUME NEW w \in Workers, Reject(w) PROVE TypeOK'
  <2>1. status' \in [Jobs -> DocStatus]
    BY <1>23 DEF Reject, StatusWrite, FailScanJob, UpdateWhere
  <2>2. pc' \in [Workers -> Labels] /\ note' \in [Workers -> DocStatus]
    BY <1>23 DEF Reject
  <2>3. faults' \in 0..MaxFaults
    BY <1>23 DEF Reject, StatusWrite
  <2> QED
    BY <1>23, <2>1, <2>2, <2>3 DEF Reject
<1>24. ASSUME NEW w \in Workers, CleanEarly(w) PROVE TypeOK'
  BY <1>24 DEF CleanEarly, DropSecret
<1>25. ASSUME NEW w \in Workers, ExecuteScan(w) PROVE TypeOK'
  BY <1>25 DEF ExecuteScan
<1>26. ASSUME NEW w \in Workers, Timeout(w) PROVE TypeOK'
  <2>1. status' \in [Jobs -> DocStatus]
    BY <1>26 DEF Timeout, StatusWrite, TimeoutScanJob, UpdateWhere
  <2>2. pc' \in [Workers -> Labels] /\ note' \in [Workers -> DocStatus]
    BY <1>26 DEF Timeout, Report
  <2>3. faults' \in 0..MaxFaults
    BY <1>26 DEF Timeout, StatusWrite
  <2> QED
    BY <1>26, <2>1, <2>2, <2>3 DEF Timeout
<1>27. ASSUME NEW w \in Workers, Fail(w) PROVE TypeOK'
  <2>1. status' \in [Jobs -> DocStatus]
    BY <1>27 DEF Fail, StatusWrite, FailScanJob, UpdateWhere
  <2>2. pc' \in [Workers -> Labels] /\ note' \in [Workers -> DocStatus]
    BY <1>27 DEF Fail, Report
  <2>3. faults' \in 0..MaxFaults
    BY <1>27 DEF Fail, StatusWrite
  <2> QED
    BY <1>27, <2>1, <2>2, <2>3 DEF Fail
<1>28. ASSUME NEW w \in Workers, Recheck(w) PROVE TypeOK'
  <2>1. pc' \in [Workers -> Labels] /\ note' \in [Workers -> DocStatus]
    BY <1>28 DEF Recheck, Report
  <2>2. faults' \in 0..MaxFaults
    BY <1>28 DEF Recheck
  <2> QED
    BY <1>28, <2>1, <2>2 DEF Recheck
<1>29. ASSUME NEW w \in Workers, EachResult(w) PROVE TypeOK'
  <2>1. pc' \in [Workers -> Labels] /\ note' \in [Workers -> DocStatus]
    BY <1>29 DEF EachResult, Report
  <2>2. faults' \in 0..MaxFaults
    BY <1>29 DEF EachResult
  <2> QED
    BY <1>29, <2>1, <2>2 DEF EachResult
<1>30. ASSUME NEW w \in Workers, SaveScanResult(w) PROVE TypeOK'
  <2>1. cur[w] \in Jobs /\ index[w] + 1 \in 0..MaxResults
    BY <1>30 DEF SaveScanResult
  <2>2. saved' \in [Jobs -> Nat] /\ late' \in [Jobs -> Nat] /\ vulnerable' \subseteq Jobs
    BY <1>30, <2>1 DEF SaveScanResult, AddResult
  <2>3. index' \in [Workers -> 0..MaxResults]
    BY <1>30, <2>1 DEF SaveScanResult
  <2>4. pc' \in [Workers -> Labels] /\ faults' \in 0..MaxFaults
    BY <1>30 DEF SaveScanResult
  <2> QED
    BY <1>30, <2>2, <2>3, <2>4 DEF SaveScanResult
<1>31. ASSUME NEW w \in Workers, UpsertIssueFromScanResult(w) PROVE TypeOK'
  BY <1>31 DEF UpsertIssueFromScanResult, Endpoints
<1>32. ASSUME NEW w \in Workers, Complete(w) PROVE TypeOK'
  <2>1. status' \in [Jobs -> DocStatus]
    BY <1>32 DEF Complete, CompleteScanJob, UpdateWhere
  <2>2. count' \in [Jobs -> 0..MaxResults]
    BY <1>32 DEF Complete
  <2>3. pc' \in [Workers -> Labels] /\ note' \in [Workers -> DocStatus]
    BY <1>32 DEF Complete, Report
  <2>4. faults' \in 0..MaxFaults
    BY <1>32 DEF Complete
  <2> QED
    BY <1>32, <2>1, <2>2, <2>3, <2>4 DEF Complete
<1>33. ASSUME NEW w \in Workers, SetScanProgress(w) PROVE TypeOK'
  BY <1>33 DEF SetScanProgress
<1>34. ASSUME NEW w \in Workers, DeferredCleanup(w) PROVE TypeOK'
  BY <1>34 DEF DeferredCleanup, DropSecret
<1>35. ASSUME NEW w \in Workers, DeferredSlot(w) PROVE TypeOK'
  <2>1. slot' \in [Slots -> Holders]
    BY <1>35 DEF DeferredSlot, ReleaseSlot, Holders
  <2>2. faults' \in 0..MaxFaults
    BY <1>35 DEF DeferredSlot, ReleaseSlot
  <2> QED
    BY <1>35, <2>1, <2>2 DEF DeferredSlot
<1>36. ASSUME NEW w \in Workers, DeferredLock(w) PROVE TypeOK'
  BY <1>36 DEF DeferredLock, ReleaseLock, Holders
<1>37. ASSUME NEW w \in Workers, Commit(w) PROVE TypeOK'
  BY <1>37 DEF Commit, Leave
<1>38. ASSUME NEW w \in Workers, Crash(w) PROVE TypeOK'
  <2>1. slot' \in [Slots -> Holders] /\ lock' \in [Jobs -> Holders]
    BY <1>38 DEF Crash, Holders
  <2> QED
    BY <1>38, <2>1 DEF Crash, Leave
<1>39. CASE UNCHANGED vars
  BY <1>39 DEF vars
<1> QED
  BY <1>1, <1>2, <1>3, <1>4, <1>5, <1>6, <1>7, <1>8, <1>9, <1>10, <1>11, <1>12,
     <1>13, <1>14, <1>15, <1>16, <1>17, <1>18, <1>19, <1>20, <1>21, <1>22, <1>23,
     <1>24, <1>25, <1>26, <1>27, <1>28, <1>29, <1>30, <1>31, <1>32, <1>33, <1>34,
     <1>35, <1>36, <1>37, <1>38, <1>39 DEF Next, Api, Worker,
        handleTriggerScan, enqueueSuiteJob, handleRerunScanJob

\* Every step keeps the facts about one worker's loop: it has a job while it is
\* not idle, and the result loop stops at the last result.
LEMMA WorkerStep ==
  ASSUME ScanInv, [Next]_vars
  PROVE  WorkerInv'
<1> USE ScanAssumption DEF ScanInv, TypeOK, WorkerInv, Ok, Err, Goto, docVars,
        dataVars, redisVars, workVars, apiVars
<1>1. ASSUME NEW j \in Jobs, BeginRequest(j) PROVE WorkerInv'
  BY <1>1 DEF BeginRequest
<1>2. ASSUME NEW j \in Jobs, externalizeScanAuthSecret(j) PROVE WorkerInv'
  BY <1>2 DEF externalizeScanAuthSecret
<1>3. ASSUME NEW j \in Jobs, CreateScanJob(j) PROVE WorkerInv'
  BY <1>3 DEF CreateScanJob, InsertJob
<1>4. ASSUME NEW j \in Jobs, deleteScanSecret(j) PROVE WorkerInv'
  BY <1>4 DEF deleteScanSecret
<1>5. ASSUME NEW j \in Jobs, publishScanJobQueued(j) PROVE WorkerInv'
  BY <1>5 DEF publishScanJobQueued
<1>6. ASSUME NEW j \in Jobs, ApiCrash(j) PROVE WorkerInv'
  BY <1>6 DEF ApiCrash
<1>7. ASSUME NEW j \in Jobs, handleCancelScanJob(j) PROVE WorkerInv'
  BY <1>7 DEF handleCancelScanJob, CancelScanJob, UpdateWhere
<1>8. ASSUME NEW j \in Jobs, DelayElapses(j) PROVE WorkerInv'
  BY <1>8 DEF DelayElapses
<1>9. ASSUME NEW j \in Jobs, LockExpires(j) PROVE WorkerInv'
  BY <1>9 DEF LockExpires
<1>10. ASSUME NEW j \in Jobs, SecretExpires(j) PROVE WorkerInv'
  BY <1>10 DEF SecretExpires
<1>11. ASSUME NEW t \in Targets, RateWindowEnds(t) PROVE WorkerInv'
  BY <1>11 DEF RateWindowEnds
<1>12. ASSUME NEW s \in Slots, SlotExpires(s) PROVE WorkerInv'
  BY <1>12 DEF SlotExpires
<1>13. ASSUME NEW w \in Workers, Consume(w) PROVE WorkerInv'
  BY <1>13 DEF Consume
<1>14. ASSUME NEW w \in Workers, ClaimScanJobByID(w) PROVE WorkerInv'
  BY <1>14 DEF ClaimScanJobByID, StartJob, LoseClaim, ClaimScanJob, Claimable
<1>15. ASSUME NEW w \in Workers, ClaimNextScanJob(w) PROVE WorkerInv'
  BY <1>15 DEF ClaimNextScanJob, StartJob, LoseClaim, ClaimScanJob, Claimable
<1>16. ASSUME NEW w \in Workers, TryLock(w) PROVE WorkerInv'
  BY <1>16 DEF TryLock
<1>17. ASSUME NEW w \in Workers, CheckCancelled(w) PROVE WorkerInv'
  BY <1>17 DEF CheckCancelled, Report
<1>18. ASSUME NEW w \in Workers, TryAcquire(w) PROVE WorkerInv'
  BY <1>18 DEF TryAcquire, Admitted, Report
<1>19. ASSUME NEW w \in Workers, Allow(w) PROVE WorkerInv'
  BY <1>19 DEF Allow, Admitted, Report, Hit
<1>20. ASSUME NEW w \in Workers, UndoSlot(w) PROVE WorkerInv'
  BY <1>20 DEF UndoSlot, ReleaseSlot
<1>21. ASSUME NEW w \in Workers, Requeue(w) PROVE WorkerInv'
  BY <1>21 DEF Requeue, Report, RequeueScanJob, UpdateWhere
<1>22. ASSUME NEW w \in Workers, Hydrate(w) PROVE WorkerInv'
  BY <1>22 DEF Hydrate
<1>23. ASSUME NEW w \in Workers, Reject(w) PROVE WorkerInv'
  BY <1>23 DEF Reject, StatusWrite, FailScanJob, UpdateWhere
<1>24. ASSUME NEW w \in Workers, CleanEarly(w) PROVE WorkerInv'
  BY <1>24 DEF CleanEarly, DropSecret
<1>25. ASSUME NEW w \in Workers, ExecuteScan(w) PROVE WorkerInv'
  BY <1>25 DEF ExecuteScan
<1>26. ASSUME NEW w \in Workers, Timeout(w) PROVE WorkerInv'
  BY <1>26 DEF Timeout, StatusWrite, TimeoutScanJob, UpdateWhere, Report
<1>27. ASSUME NEW w \in Workers, Fail(w) PROVE WorkerInv'
  BY <1>27 DEF Fail, StatusWrite, FailScanJob, UpdateWhere, Report
<1>28. ASSUME NEW w \in Workers, Recheck(w) PROVE WorkerInv'
  BY <1>28 DEF Recheck, Report
<1>29. ASSUME NEW w \in Workers, EachResult(w) PROVE WorkerInv'
  BY <1>29 DEF EachResult, Report
<1>30. ASSUME NEW w \in Workers, SaveScanResult(w) PROVE WorkerInv'
  BY <1>30 DEF SaveScanResult, AddResult
<1>31. ASSUME NEW w \in Workers, UpsertIssueFromScanResult(w) PROVE WorkerInv'
  BY <1>31 DEF UpsertIssueFromScanResult
<1>32. ASSUME NEW w \in Workers, Complete(w) PROVE WorkerInv'
  BY <1>32 DEF Complete, CompleteScanJob, UpdateWhere, Report
<1>33. ASSUME NEW w \in Workers, SetScanProgress(w) PROVE WorkerInv'
  BY <1>33 DEF SetScanProgress
<1>34. ASSUME NEW w \in Workers, DeferredCleanup(w) PROVE WorkerInv'
  BY <1>34 DEF DeferredCleanup, DropSecret
<1>35. ASSUME NEW w \in Workers, DeferredSlot(w) PROVE WorkerInv'
  BY <1>35 DEF DeferredSlot, ReleaseSlot
<1>36. ASSUME NEW w \in Workers, DeferredLock(w) PROVE WorkerInv'
  BY <1>36 DEF DeferredLock, ReleaseLock
<1>37. ASSUME NEW w \in Workers, Commit(w) PROVE WorkerInv'
  BY <1>37 DEF Commit, Leave
<1>38. ASSUME NEW w \in Workers, Crash(w) PROVE WorkerInv'
  BY <1>38 DEF Crash, Leave
<1>39. CASE UNCHANGED vars
  BY <1>39 DEF vars
<1> QED
  BY <1>1, <1>2, <1>3, <1>4, <1>5, <1>6, <1>7, <1>8, <1>9, <1>10, <1>11, <1>12,
     <1>13, <1>14, <1>15, <1>16, <1>17, <1>18, <1>19, <1>20, <1>21, <1>22, <1>23,
     <1>24, <1>25, <1>26, <1>27, <1>28, <1>29, <1>30, <1>31, <1>32, <1>33, <1>34,
     <1>35, <1>36, <1>37, <1>38, <1>39 DEF Next, Api, Worker,
        handleTriggerScan, enqueueSuiteJob, handleRerunScanJob

\* Every step keeps the facts about a request: it inserts its job once, after the
\* credential was stored.
LEMMA RequestStep ==
  ASSUME ScanInv, [Next]_vars
  PROVE  RequestInv'
<1> USE ScanAssumption DEF ScanInv, TypeOK, WorkerInv, RequestInv, SecretInv,
        OwnershipInv, PreLabels, Ok, Err, Goto, docVars, dataVars, redisVars,
        workVars, apiVars
<1>1. ASSUME NEW j \in Jobs, BeginRequest(j) PROVE RequestInv'
  BY <1>1 DEF BeginRequest
<1>2. ASSUME NEW j \in Jobs, externalizeScanAuthSecret(j) PROVE RequestInv'
  BY <1>2 DEF externalizeScanAuthSecret
<1>3. ASSUME NEW j \in Jobs, CreateScanJob(j) PROVE RequestInv'
  BY <1>3 DEF CreateScanJob, InsertJob
<1>4. ASSUME NEW j \in Jobs, deleteScanSecret(j) PROVE RequestInv'
  BY <1>4 DEF deleteScanSecret
<1>5. ASSUME NEW j \in Jobs, publishScanJobQueued(j) PROVE RequestInv'
  BY <1>5 DEF publishScanJobQueued
<1>6. ASSUME NEW j \in Jobs, ApiCrash(j) PROVE RequestInv'
  BY <1>6 DEF ApiCrash
<1>7. ASSUME NEW j \in Jobs, handleCancelScanJob(j) PROVE RequestInv'
  BY <1>7 DEF handleCancelScanJob, CancelScanJob, UpdateWhere
<1>8. ASSUME NEW j \in Jobs, DelayElapses(j) PROVE RequestInv'
  BY <1>8 DEF DelayElapses
<1>9. ASSUME NEW j \in Jobs, LockExpires(j) PROVE RequestInv'
  BY <1>9 DEF LockExpires
<1>10. ASSUME NEW j \in Jobs, SecretExpires(j) PROVE RequestInv'
  BY <1>10 DEF SecretExpires
<1>11. ASSUME NEW t \in Targets, RateWindowEnds(t) PROVE RequestInv'
  BY <1>11 DEF RateWindowEnds
<1>12. ASSUME NEW s \in Slots, SlotExpires(s) PROVE RequestInv'
  BY <1>12 DEF SlotExpires
<1>13. ASSUME NEW w \in Workers, Consume(w) PROVE RequestInv'
  BY <1>13 DEF Consume
<1>14. ASSUME NEW w \in Workers, ClaimScanJobByID(w) PROVE RequestInv'
  BY <1>14 DEF ClaimScanJobByID, StartJob, LoseClaim, ClaimScanJob, Claimable
<1>15. ASSUME NEW w \in Workers, ClaimNextScanJob(w) PROVE RequestInv'
  BY <1>15 DEF ClaimNextScanJob, StartJob, LoseClaim, ClaimScanJob, Claimable
<1>16. ASSUME NEW w \in Workers, TryLock(w) PROVE RequestInv'
  BY <1>16 DEF TryLock
<1>17. ASSUME NEW w \in Workers, CheckCancelled(w) PROVE RequestInv'
  BY <1>17 DEF CheckCancelled, Report
<1>18. ASSUME NEW w \in Workers, TryAcquire(w) PROVE RequestInv'
  BY <1>18 DEF TryAcquire, Admitted, Report
<1>19. ASSUME NEW w \in Workers, Allow(w) PROVE RequestInv'
  BY <1>19 DEF Allow, Admitted, Report, Hit
<1>20. ASSUME NEW w \in Workers, UndoSlot(w) PROVE RequestInv'
  BY <1>20 DEF UndoSlot, ReleaseSlot
<1>21. ASSUME NEW w \in Workers, Requeue(w) PROVE RequestInv'
  BY <1>21 DEF Requeue, Report, RequeueScanJob, UpdateWhere
<1>22. ASSUME NEW w \in Workers, Hydrate(w) PROVE RequestInv'
  BY <1>22 DEF Hydrate
<1>23. ASSUME NEW w \in Workers, Reject(w) PROVE RequestInv'
  BY <1>23 DEF Reject, StatusWrite, FailScanJob, UpdateWhere
<1>24. ASSUME NEW w \in Workers, CleanEarly(w) PROVE RequestInv'
  BY <1>24 DEF CleanEarly, DropSecret
<1>25. ASSUME NEW w \in Workers, ExecuteScan(w) PROVE RequestInv'
  BY <1>25 DEF ExecuteScan
<1>26. ASSUME NEW w \in Workers, Timeout(w) PROVE RequestInv'
  BY <1>26 DEF Timeout, StatusWrite, TimeoutScanJob, UpdateWhere, Report
<1>27. ASSUME NEW w \in Workers, Fail(w) PROVE RequestInv'
  BY <1>27 DEF Fail, StatusWrite, FailScanJob, UpdateWhere, Report
<1>28. ASSUME NEW w \in Workers, Recheck(w) PROVE RequestInv'
  BY <1>28 DEF Recheck, Report
<1>29. ASSUME NEW w \in Workers, EachResult(w) PROVE RequestInv'
  BY <1>29 DEF EachResult, Report
<1>30. ASSUME NEW w \in Workers, SaveScanResult(w) PROVE RequestInv'
  BY <1>30 DEF SaveScanResult, AddResult
<1>31. ASSUME NEW w \in Workers, UpsertIssueFromScanResult(w) PROVE RequestInv'
  BY <1>31 DEF UpsertIssueFromScanResult
<1>32. ASSUME NEW w \in Workers, Complete(w) PROVE RequestInv'
  BY <1>32 DEF Complete, CompleteScanJob, UpdateWhere, Report
<1>33. ASSUME NEW w \in Workers, SetScanProgress(w) PROVE RequestInv'
  BY <1>33 DEF SetScanProgress
<1>34. ASSUME NEW w \in Workers, DeferredCleanup(w) PROVE RequestInv'
  BY <1>34 DEF DeferredCleanup, DropSecret
<1>35. ASSUME NEW w \in Workers, DeferredSlot(w) PROVE RequestInv'
  BY <1>35 DEF DeferredSlot, ReleaseSlot
<1>36. ASSUME NEW w \in Workers, DeferredLock(w) PROVE RequestInv'
  BY <1>36 DEF DeferredLock, ReleaseLock
<1>37. ASSUME NEW w \in Workers, Commit(w) PROVE RequestInv'
  BY <1>37 DEF Commit, Leave
<1>38. ASSUME NEW w \in Workers, Crash(w) PROVE RequestInv'
  BY <1>38 DEF Crash, Leave
<1>39. CASE UNCHANGED vars
  BY <1>39 DEF vars
<1> QED
  BY <1>1, <1>2, <1>3, <1>4, <1>5, <1>6, <1>7, <1>8, <1>9, <1>10, <1>11, <1>12,
     <1>13, <1>14, <1>15, <1>16, <1>17, <1>18, <1>19, <1>20, <1>21, <1>22, <1>23,
     <1>24, <1>25, <1>26, <1>27, <1>28, <1>29, <1>30, <1>31, <1>32, <1>33, <1>34,
     <1>35, <1>36, <1>37, <1>38, <1>39 DEF Next, Api, Worker,
        handleTriggerScan, enqueueSuiteJob, handleRerunScanJob

\* A step of the owner of a job that leaves the job's document alone cannot
\* disturb ownership, whatever label the owner goes to.
LEMMA OwnershipFrame ==
  ASSUME OwnershipInv, NEW w \in Workers, Owns(w, cur[w]), cur[w] \in Jobs,
         status' = status, cur' = cur,
         \A v \in Workers : v # w => pc'[v] = pc[v] /\ note'[v] = note[v]
  PROVE  OwnershipInv'
  BY DEF OwnershipInv, ExclusiveClaim, Owns, OwningLabels

\* No step gives a job a second owner: a claim needs a queued document, and the
\* document of an owned job is never queued.
LEMMA OwnershipStep ==
  ASSUME ScanInv, [Next]_vars
  PROVE  OwnershipInv'
<1> USE ScanAssumption DEF ScanInv, TypeOK, WorkerInv, RequestInv, OwnershipInv,
        ExclusiveClaim, Owns, OwningLabels, Ok, Err, Goto, docVars, dataVars,
        redisVars, workVars, apiVars
<1>1. ASSUME NEW j \in Jobs, BeginRequest(j) PROVE OwnershipInv'
  BY <1>1 DEF BeginRequest
<1>2. ASSUME NEW j \in Jobs, externalizeScanAuthSecret(j) PROVE OwnershipInv'
  BY <1>2 DEF externalizeScanAuthSecret
<1>3. ASSUME NEW j \in Jobs, CreateScanJob(j) PROVE OwnershipInv'
  BY <1>3 DEF CreateScanJob, InsertJob
<1>4. ASSUME NEW j \in Jobs, deleteScanSecret(j) PROVE OwnershipInv'
  BY <1>4 DEF deleteScanSecret
<1>5. ASSUME NEW j \in Jobs, publishScanJobQueued(j) PROVE OwnershipInv'
  BY <1>5 DEF publishScanJobQueued
<1>6. ASSUME NEW j \in Jobs, ApiCrash(j) PROVE OwnershipInv'
  BY <1>6 DEF ApiCrash
<1>7. ASSUME NEW j \in Jobs, handleCancelScanJob(j) PROVE OwnershipInv'
  BY <1>7 DEF handleCancelScanJob, CancelScanJob, UpdateWhere
<1>8. ASSUME NEW j \in Jobs, DelayElapses(j) PROVE OwnershipInv'
  BY <1>8 DEF DelayElapses
<1>9. ASSUME NEW j \in Jobs, LockExpires(j) PROVE OwnershipInv'
  BY <1>9 DEF LockExpires
<1>10. ASSUME NEW j \in Jobs, SecretExpires(j) PROVE OwnershipInv'
  BY <1>10 DEF SecretExpires
<1>11. ASSUME NEW t \in Targets, RateWindowEnds(t) PROVE OwnershipInv'
  BY <1>11 DEF RateWindowEnds
<1>12. ASSUME NEW s \in Slots, SlotExpires(s) PROVE OwnershipInv'
  BY <1>12 DEF SlotExpires
<1>13. ASSUME NEW w \in Workers, Consume(w) PROVE OwnershipInv'
  BY <1>13 DEF Consume
<1>14. ASSUME NEW w \in Workers, ClaimScanJobByID(w) PROVE OwnershipInv'
  <2>1. cur[w] \in Jobs /\ defers[w] = {}
    BY <1>14 DEF ClaimScanJobByID
  <2>2. CASE Claimable(status, deferred, cur[w]) /\ StartJob(w, cur[w])
    BY <1>14, <2>1, <2>2 DEF ClaimScanJobByID, StartJob, ClaimScanJob, Claimable
  <2>3. CASE Goto(w, "unwind") /\ UNCHANGED <<status, cur, event>>
    BY <1>14, <2>1, <2>3 DEF ClaimScanJobByID
  <2>4. CASE Claimable(status, deferred, cur[w]) /\ LoseClaim(w, cur[w])
    BY <1>14, <2>1, <2>4 DEF ClaimScanJobByID, LoseClaim, ClaimScanJob, Claimable
  <2> QED
    BY <1>14, <2>2, <2>3, <2>4 DEF ClaimScanJobByID
<1>15. ASSUME NEW w \in Workers, ClaimNextScanJob(w) PROVE OwnershipInv'
  <2> PICK j \in Jobs : /\ Claimable(status, deferred, j)
                        /\ (Ok /\ StartJob(w,
                           j) /\ UNCHANGED event) \/ LoseClaim(w, j)
    BY <1>15 DEF ClaimNextScanJob
  <2>1. CASE StartJob(w, j)
    BY <1>15, <2>1 DEF ClaimNextScanJob, StartJob, ClaimScanJob, Claimable
  <2>2. CASE LoseClaim(w, j)
    BY <1>15, <2>2 DEF ClaimNextScanJob, LoseClaim, ClaimScanJob, Claimable
  <2> QED
    BY <2>1, <2>2
<1>16. ASSUME NEW w \in Workers, TryLock(w) PROVE OwnershipInv'
  BY <1>16 DEF TryLock
<1>17. ASSUME NEW w \in Workers, CheckCancelled(w) PROVE OwnershipInv'
  BY <1>17 DEF CheckCancelled, Report
<1>18. ASSUME NEW w \in Workers, TryAcquire(w) PROVE OwnershipInv'
  <2>1. Owns(w, cur[w]) /\ cur[w] \in Jobs /\ status' = status /\ cur' = cur
    BY <1>18 DEF TryAcquire
  <2>2. \A v \in Workers : v # w => pc'[v] = pc[v] /\ note'[v] = note[v]
    BY <1>18 DEF TryAcquire, Admitted, Report
  <2> QED
    BY <2>1, <2>2, OwnershipFrame
<1>19. ASSUME NEW w \in Workers, Allow(w) PROVE OwnershipInv'
  BY <1>19 DEF Allow, Admitted, Report, Hit
<1>20. ASSUME NEW w \in Workers, UndoSlot(w) PROVE OwnershipInv'
  BY <1>20 DEF UndoSlot, ReleaseSlot
<1>21. ASSUME NEW w \in Workers, Requeue(w) PROVE OwnershipInv'
  BY <1>21 DEF Requeue, Report, RequeueScanJob, UpdateWhere
<1>22. ASSUME NEW w \in Workers, Hydrate(w) PROVE OwnershipInv'
  BY <1>22 DEF Hydrate
<1>23. ASSUME NEW w \in Workers, Reject(w) PROVE OwnershipInv'
  BY <1>23 DEF Reject, StatusWrite, FailScanJob, UpdateWhere
<1>24. ASSUME NEW w \in Workers, CleanEarly(w) PROVE OwnershipInv'
  BY <1>24 DEF CleanEarly, DropSecret
<1>25. ASSUME NEW w \in Workers, ExecuteScan(w) PROVE OwnershipInv'
  BY <1>25 DEF ExecuteScan
<1>26. ASSUME NEW w \in Workers, Timeout(w) PROVE OwnershipInv'
  BY <1>26 DEF Timeout, StatusWrite, TimeoutScanJob, UpdateWhere, Report
<1>27. ASSUME NEW w \in Workers, Fail(w) PROVE OwnershipInv'
  BY <1>27 DEF Fail, StatusWrite, FailScanJob, UpdateWhere, Report
<1>28. ASSUME NEW w \in Workers, Recheck(w) PROVE OwnershipInv'
  BY <1>28 DEF Recheck, Report
<1>29. ASSUME NEW w \in Workers, EachResult(w) PROVE OwnershipInv'
  BY <1>29 DEF EachResult, Report
<1>30. ASSUME NEW w \in Workers, SaveScanResult(w) PROVE OwnershipInv'
  BY <1>30 DEF SaveScanResult, AddResult
<1>31. ASSUME NEW w \in Workers, UpsertIssueFromScanResult(w) PROVE OwnershipInv'
  BY <1>31 DEF UpsertIssueFromScanResult
<1>32. ASSUME NEW w \in Workers, Complete(w) PROVE OwnershipInv'
  <2>1. Owns(w, cur[w]) /\ cur[w] \in Jobs /\ cur' = cur
    BY <1>32 DEF Complete
  <2>2. /\ pc' = [pc EXCEPT ![w] = "progress"]
        /\ \E s \in {"completed", "failed"} : note' = [note EXCEPT ![w] = s]
    BY <1>32 DEF Complete, Report
  <2>3. \A j \in Jobs : j # cur[w] => status'[j] = status[j]
    BY <1>32 DEF Complete, CompleteScanJob, UpdateWhere
  <2> QED
    BY <2>1, <2>2, <2>3
<1>33. ASSUME NEW w \in Workers, SetScanProgress(w) PROVE OwnershipInv'
  BY <1>33 DEF SetScanProgress
<1>34. ASSUME NEW w \in Workers, DeferredCleanup(w) PROVE OwnershipInv'
  BY <1>34 DEF DeferredCleanup, DropSecret
<1>35. ASSUME NEW w \in Workers, DeferredSlot(w) PROVE OwnershipInv'
  BY <1>35 DEF DeferredSlot, ReleaseSlot
<1>36. ASSUME NEW w \in Workers, DeferredLock(w) PROVE OwnershipInv'
  BY <1>36 DEF DeferredLock, ReleaseLock
<1>37. ASSUME NEW w \in Workers, Commit(w) PROVE OwnershipInv'
  BY <1>37 DEF Commit, Leave
<1>38. ASSUME NEW w \in Workers, Crash(w) PROVE OwnershipInv'
  BY <1>38 DEF Crash, Leave
<1>39. CASE UNCHANGED vars
  BY <1>39 DEF vars
<1> QED
  BY <1>1, <1>2, <1>3, <1>4, <1>5, <1>6, <1>7, <1>8, <1>9, <1>10, <1>11, <1>12,
     <1>13, <1>14, <1>15, <1>16, <1>17, <1>18, <1>19, <1>20, <1>21, <1>22, <1>23,
     <1>24, <1>25, <1>26, <1>27, <1>28, <1>29, <1>30, <1>31, <1>32, <1>33, <1>34,
     <1>35, <1>36, <1>37, <1>38, <1>39 DEF Next, Api, Worker,
        handleTriggerScan, enqueueSuiteJob, handleRerunScanJob

\* No step deletes the credential of a job that is, or may again be, queued.
LEMMA SecretStep ==
  ASSUME ScanInv, [Next]_vars
  PROVE  SecretInv'
<1> USE ScanAssumption DEF ScanInv, TypeOK, WorkerInv, RequestInv, OwnershipInv,
        ExclusiveClaim, Owns, OwningLabels, SecretInv, QueuedJobKeepsSecret,
        PreLabels, Ok, Err, Goto, docVars, dataVars, redisVars, workVars, apiVars
<1>1. ASSUME NEW j \in Jobs, BeginRequest(j) PROVE SecretInv'
  BY <1>1 DEF BeginRequest
<1>2. ASSUME NEW j \in Jobs, externalizeScanAuthSecret(j) PROVE SecretInv'
  BY <1>2 DEF externalizeScanAuthSecret
<1>3. ASSUME NEW j \in Jobs, CreateScanJob(j) PROVE SecretInv'
  BY <1>3 DEF CreateScanJob, InsertJob
<1>4. ASSUME NEW j \in Jobs, deleteScanSecret(j) PROVE SecretInv'
  BY <1>4 DEF deleteScanSecret
<1>5. ASSUME NEW j \in Jobs, publishScanJobQueued(j) PROVE SecretInv'
  BY <1>5 DEF publishScanJobQueued
<1>6. ASSUME NEW j \in Jobs, ApiCrash(j) PROVE SecretInv'
  BY <1>6 DEF ApiCrash
<1>7. ASSUME NEW j \in Jobs, handleCancelScanJob(j) PROVE SecretInv'
  BY <1>7 DEF handleCancelScanJob, CancelScanJob, UpdateWhere
<1>8. ASSUME NEW j \in Jobs, DelayElapses(j) PROVE SecretInv'
  BY <1>8 DEF DelayElapses
<1>9. ASSUME NEW j \in Jobs, LockExpires(j) PROVE SecretInv'
  BY <1>9 DEF LockExpires
<1>10. ASSUME NEW j \in Jobs, SecretExpires(j) PROVE SecretInv'
  BY <1>10 DEF SecretExpires
<1>11. ASSUME NEW t \in Targets, RateWindowEnds(t) PROVE SecretInv'
  BY <1>11 DEF RateWindowEnds
<1>12. ASSUME NEW s \in Slots, SlotExpires(s) PROVE SecretInv'
  BY <1>12 DEF SlotExpires
<1>13. ASSUME NEW w \in Workers, Consume(w) PROVE SecretInv'
  BY <1>13 DEF Consume
<1>14. ASSUME NEW w \in Workers, ClaimScanJobByID(w) PROVE SecretInv'
  <2>1. cur[w] \in Jobs /\ defers[w] = {}
    BY <1>14 DEF ClaimScanJobByID
  <2>2. CASE Claimable(status, deferred, cur[w]) /\ StartJob(w, cur[w])
    BY <1>14, <2>1, <2>2 DEF ClaimScanJobByID, StartJob, ClaimScanJob, Claimable
  <2>3. CASE Goto(w, "unwind") /\ UNCHANGED <<status, cur, event>>
    BY <1>14, <2>1, <2>3 DEF ClaimScanJobByID
  <2>4. CASE Claimable(status, deferred, cur[w]) /\ LoseClaim(w, cur[w])
    BY <1>14, <2>1, <2>4 DEF ClaimScanJobByID, LoseClaim, ClaimScanJob, Claimable
  <2> QED
    BY <1>14, <2>2, <2>3, <2>4 DEF ClaimScanJobByID
<1>15. ASSUME NEW w \in Workers, ClaimNextScanJob(w) PROVE SecretInv'
  <2> PICK j \in Jobs : /\ Claimable(status, deferred, j)
                        /\ (Ok /\ StartJob(w,
                           j) /\ UNCHANGED event) \/ LoseClaim(w, j)
    BY <1>15 DEF ClaimNextScanJob
  <2>1. CASE StartJob(w, j)
    BY <1>15, <2>1 DEF ClaimNextScanJob, StartJob, ClaimScanJob, Claimable
  <2>2. CASE LoseClaim(w, j)
    BY <1>15, <2>2 DEF ClaimNextScanJob, LoseClaim, ClaimScanJob, Claimable
  <2> QED
    BY <2>1, <2>2
<1>16. ASSUME NEW w \in Workers, TryLock(w) PROVE SecretInv'
  BY <1>16 DEF TryLock
<1>17. ASSUME NEW w \in Workers, CheckCancelled(w) PROVE SecretInv'
  BY <1>17 DEF CheckCancelled, Report
<1>18. ASSUME NEW w \in Workers, TryAcquire(w) PROVE SecretInv'
  BY <1>18 DEF TryAcquire, Admitted, Report
<1>19. ASSUME NEW w \in Workers, Allow(w) PROVE SecretInv'
  BY <1>19 DEF Allow, Admitted, Report, Hit
<1>20. ASSUME NEW w \in Workers, UndoSlot(w) PROVE SecretInv'
  BY <1>20 DEF UndoSlot, ReleaseSlot
<1>21. ASSUME NEW w \in Workers, Requeue(w) PROVE SecretInv'
  BY <1>21 DEF Requeue, Report, RequeueScanJob, UpdateWhere
<1>22. ASSUME NEW w \in Workers, Hydrate(w) PROVE SecretInv'
  BY <1>22 DEF Hydrate
<1>23. ASSUME NEW w \in Workers, Reject(w) PROVE SecretInv'
  BY <1>23 DEF Reject, StatusWrite, FailScanJob, UpdateWhere
<1>24. ASSUME NEW w \in Workers, CleanEarly(w) PROVE SecretInv'
  BY <1>24 DEF CleanEarly, DropSecret
<1>25. ASSUME NEW w \in Workers, ExecuteScan(w) PROVE SecretInv'
  BY <1>25 DEF ExecuteScan
<1>26. ASSUME NEW w \in Workers, Timeout(w) PROVE SecretInv'
  BY <1>26 DEF Timeout, StatusWrite, TimeoutScanJob, UpdateWhere, Report
<1>27. ASSUME NEW w \in Workers, Fail(w) PROVE SecretInv'
  BY <1>27 DEF Fail, StatusWrite, FailScanJob, UpdateWhere, Report
<1>28. ASSUME NEW w \in Workers, Recheck(w) PROVE SecretInv'
  BY <1>28 DEF Recheck, Report
<1>29. ASSUME NEW w \in Workers, EachResult(w) PROVE SecretInv'
  BY <1>29 DEF EachResult, Report
<1>30. ASSUME NEW w \in Workers, SaveScanResult(w) PROVE SecretInv'
  BY <1>30 DEF SaveScanResult, AddResult
<1>31. ASSUME NEW w \in Workers, UpsertIssueFromScanResult(w) PROVE SecretInv'
  BY <1>31 DEF UpsertIssueFromScanResult
<1>32. ASSUME NEW w \in Workers, Complete(w) PROVE SecretInv'
  BY <1>32 DEF Complete, CompleteScanJob, UpdateWhere, Report
<1>33. ASSUME NEW w \in Workers, SetScanProgress(w) PROVE SecretInv'
  BY <1>33 DEF SetScanProgress
<1>34. ASSUME NEW w \in Workers, DeferredCleanup(w) PROVE SecretInv'
  BY <1>34 DEF DeferredCleanup, DropSecret
<1>35. ASSUME NEW w \in Workers, DeferredSlot(w) PROVE SecretInv'
  BY <1>35 DEF DeferredSlot, ReleaseSlot
<1>36. ASSUME NEW w \in Workers, DeferredLock(w) PROVE SecretInv'
  BY <1>36 DEF DeferredLock, ReleaseLock
<1>37. ASSUME NEW w \in Workers, Commit(w) PROVE SecretInv'
  BY <1>37 DEF Commit, Leave
<1>38. ASSUME NEW w \in Workers, Crash(w) PROVE SecretInv'
  BY <1>38 DEF Crash, Leave
<1>39. CASE UNCHANGED vars
  BY <1>39 DEF vars
<1> QED
  BY <1>1, <1>2, <1>3, <1>4, <1>5, <1>6, <1>7, <1>8, <1>9, <1>10, <1>11, <1>12,
     <1>13, <1>14, <1>15, <1>16, <1>17, <1>18, <1>19, <1>20, <1>21, <1>22, <1>23,
     <1>24, <1>25, <1>26, <1>27, <1>28, <1>29, <1>30, <1>31, <1>32, <1>33, <1>34,
     <1>35, <1>36, <1>37, <1>38, <1>39 DEF Next, Api, Worker,
        handleTriggerScan, enqueueSuiteJob, handleRerunScanJob

\* A step of a worker that has stored nothing yet, and that leaves the
\* document and its results alone, cannot disturb ResultInv.
LEMMA ResultFrame ==
  ASSUME ResultInv, NEW w \in Workers, cur[w] \in Jobs,
         saved[cur[w]] = 0, cur[w] \notin vulnerable,
         status' = status, cur' = cur, saved' = saved, count' = count,
         vulnerable' = vulnerable, issues' = issues,
         pc'[w] \notin StoreLabels \/ index'[w] = 0,
         \A v \in Workers : v # w =>
            pc'[v] = pc[v] /\ note'[v] = note[v] /\ index'[v] = index[v]
  PROVE  ResultInv'
  BY DEF ResultInv, CompletedJobHasItsResults, PreLabels, StoreLabels, Unscanned

\* Every step keeps all results of a job attributable to one scan.
LEMMA ResultStep ==
  ASSUME ScanInv, [Next]_vars
  PROVE  ResultInv'
<1> USE ScanAssumption DEF ScanInv, TypeOK, WorkerInv, RequestInv, OwnershipInv,
        ExclusiveClaim, Owns, OwningLabels, ResultInv, CompletedJobHasItsResults,
        PreLabels, StoreLabels, Unscanned, Ok, Err, Goto, docVars, dataVars,
        redisVars, workVars, apiVars
<1>1. ASSUME NEW j \in Jobs, BeginRequest(j) PROVE ResultInv'
  BY <1>1 DEF BeginRequest
<1>2. ASSUME NEW j \in Jobs, externalizeScanAuthSecret(j) PROVE ResultInv'
  BY <1>2 DEF externalizeScanAuthSecret
<1>3. ASSUME NEW j \in Jobs, CreateScanJob(j) PROVE ResultInv'
  BY <1>3 DEF CreateScanJob, InsertJob
<1>4. ASSUME NEW j \in Jobs, deleteScanSecret(j) PROVE ResultInv'
  BY <1>4 DEF deleteScanSecret
<1>5. ASSUME NEW j \in Jobs, publishScanJobQueued(j) PROVE ResultInv'
  BY <1>5 DEF publishScanJobQueued
<1>6. ASSUME NEW j \in Jobs, ApiCrash(j) PROVE ResultInv'
  BY <1>6 DEF ApiCrash
<1>7. ASSUME NEW j \in Jobs, handleCancelScanJob(j) PROVE ResultInv'
  BY <1>7 DEF handleCancelScanJob, CancelScanJob, UpdateWhere
<1>8. ASSUME NEW j \in Jobs, DelayElapses(j) PROVE ResultInv'
  BY <1>8 DEF DelayElapses
<1>9. ASSUME NEW j \in Jobs, LockExpires(j) PROVE ResultInv'
  BY <1>9 DEF LockExpires
<1>10. ASSUME NEW j \in Jobs, SecretExpires(j) PROVE ResultInv'
  BY <1>10 DEF SecretExpires
<1>11. ASSUME NEW t \in Targets, RateWindowEnds(t) PROVE ResultInv'
  BY <1>11 DEF RateWindowEnds
<1>12. ASSUME NEW s \in Slots, SlotExpires(s) PROVE ResultInv'
  BY <1>12 DEF SlotExpires
<1>13. ASSUME NEW w \in Workers, Consume(w) PROVE ResultInv'
  BY <1>13 DEF Consume
<1>14. ASSUME NEW w \in Workers, ClaimScanJobByID(w) PROVE ResultInv'
  <2>1. cur[w] \in Jobs /\ defers[w] = {}
    BY <1>14 DEF ClaimScanJobByID
  <2>2. CASE Claimable(status, deferred, cur[w]) /\ StartJob(w, cur[w])
    BY <1>14, <2>1, <2>2 DEF ClaimScanJobByID, StartJob, ClaimScanJob, Claimable
  <2>3. CASE Goto(w, "unwind") /\ UNCHANGED <<status, cur, event>>
    BY <1>14, <2>1, <2>3 DEF ClaimScanJobByID
  <2>4. CASE Claimable(status, deferred, cur[w]) /\ LoseClaim(w, cur[w])
    BY <1>14, <2>1, <2>4 DEF ClaimScanJobByID, LoseClaim, ClaimScanJob, Claimable
  <2> QED
    BY <1>14, <2>2, <2>3, <2>4 DEF ClaimScanJobByID
<1>15. ASSUME NEW w \in Workers, ClaimNextScanJob(w) PROVE ResultInv'
  <2> PICK j \in Jobs : /\ Claimable(status, deferred, j)
                        /\ (Ok /\ StartJob(w,
                           j) /\ UNCHANGED event) \/ LoseClaim(w, j)
    BY <1>15 DEF ClaimNextScanJob
  <2>1. CASE StartJob(w, j)
    BY <1>15, <2>1 DEF ClaimNextScanJob, StartJob, ClaimScanJob, Claimable
  <2>2. CASE LoseClaim(w, j)
    BY <1>15, <2>2 DEF ClaimNextScanJob, LoseClaim, ClaimScanJob, Claimable
  <2> QED
    BY <2>1, <2>2
<1>16. ASSUME NEW w \in Workers, TryLock(w) PROVE ResultInv'
  BY <1>16 DEF TryLock
<1>17. ASSUME NEW w \in Workers, CheckCancelled(w) PROVE ResultInv'
  <2>1. /\ status' = status /\ cur' = cur /\ saved' = saved /\ count' = count
        /\ vulnerable' = vulnerable /\ issues' = issues
    BY <1>17 DEF CheckCancelled
  <2>2. pc[w] = "check"
    BY <1>17 DEF CheckCancelled
  <2>3. cur[w] \in Jobs /\ saved[cur[w]] = 0 /\ cur[w] \notin vulnerable
    BY <2>2
  <2>4. pc'[w] \notin StoreLabels \/ index'[w] = 0
    BY <1>17 DEF CheckCancelled, Report
  <2>5. \A v \in Workers : v # w =>
            pc'[v] = pc[v] /\ note'[v] = note[v] /\ index'[v] = index[v]
    BY <1>17 DEF CheckCancelled, Report
  <2> QED
    BY <2>1, <2>4, <2>5, <2>3, ResultFrame
<1>18. ASSUME NEW w \in Workers, TryAcquire(w) PROVE ResultInv'
  <2>1. /\ status' = status /\ cur' = cur /\ saved' = saved /\ count' = count
        /\ vulnerable' = vulnerable /\ issues' = issues
    BY <1>18 DEF TryAcquire
  <2>2. pc[w] = "slot"
    BY <1>18 DEF TryAcquire
  <2>3. cur[w] \in Jobs /\ saved[cur[w]] = 0 /\ cur[w] \notin vulnerable
    BY <2>2
  <2>4. pc'[w] \notin StoreLabels \/ index'[w] = 0
    BY <1>18 DEF TryAcquire, Admitted, Report
  <2>5. \A v \in Workers : v # w =>
            pc'[v] = pc[v] /\ note'[v] = note[v] /\ index'[v] = index[v]
    BY <1>18 DEF TryAcquire, Admitted, Report
  <2> QED
    BY <2>1, <2>4, <2>5, <2>3, ResultFrame
<1>19. ASSUME NEW w \in Workers, Allow(w) PROVE ResultInv'
  <2>1. /\ status' = status /\ cur' = cur /\ saved' = saved /\ count' = count
        /\ vulnerable' = vulnerable /\ issues' = issues
    BY <1>19 DEF Allow
  <2>2. pc[w] = "rate"
    BY <1>19 DEF Allow
  <2>3. cur[w] \in Jobs /\ saved[cur[w]] = 0 /\ cur[w] \notin vulnerable
    BY <2>2
  <2>4. pc'[w] \notin StoreLabels \/ index'[w] = 0
    BY <1>19 DEF Allow, Admitted, Report
  <2>5. \A v \in Workers : v # w =>
            pc'[v] = pc[v] /\ note'[v] = note[v] /\ index'[v] = index[v]
    BY <1>19 DEF Allow, Admitted, Report
  <2> QED
    BY <2>1, <2>4, <2>5, <2>3, ResultFrame
<1>20. ASSUME NEW w \in Workers, UndoSlot(w) PROVE ResultInv'
  BY <1>20 DEF UndoSlot, ReleaseSlot
<1>21. ASSUME NEW w \in Workers, Requeue(w) PROVE ResultInv'
  <2>1. /\ cur' = cur /\ saved' = saved /\ count' = count
        /\ vulnerable' = vulnerable /\ issues' = issues /\ index' = index
    BY <1>21 DEF Requeue
  <2>2. pc[w] = "requeue"
    BY <1>21 DEF Requeue
  <2>3. cur[w] \in Jobs /\ saved[cur[w]] = 0 /\ cur[w] \notin vulnerable
    BY <2>2
  <2>4. pc' = [pc EXCEPT ![w] = "progress"] /\ note' = [note EXCEPT ![w] = "queued"]
    BY <1>21 DEF Requeue, Report
  <2>5. \A j \in Jobs : status'[j] = status[j] \/ (j = cur[w] /\ status'[j] = "queued")
    BY <1>21 DEF Requeue, RequeueScanJob, UpdateWhere
  <2>6. \A j \in Jobs :
            status'[j] \in {"absent",
               "queued"} => saved[j] = 0 /\ j \notin vulnerable
    BY <2>3, <2>5
  <2>7. CompletedJobHasItsResults'
    BY <2>3, <2>1, <2>5
  <2> QED
    BY <2>3, <2>4, <2>6, <2>7, <2>1
<1>22. ASSUME NEW w \in Workers, Hydrate(w) PROVE ResultInv'
  BY <1>22 DEF Hydrate
<1>23. ASSUME NEW w \in Workers, Reject(w) PROVE ResultInv'
  BY <1>23 DEF Reject, StatusWrite, FailScanJob, UpdateWhere
<1>24. ASSUME NEW w \in Workers, CleanEarly(w) PROVE ResultInv'
  BY <1>24 DEF CleanEarly, DropSecret
<1>25. ASSUME NEW w \in Workers, ExecuteScan(w) PROVE ResultInv'
  <2>1. /\ status' = status /\ cur' = cur /\ saved' = saved /\ count' = count
        /\ vulnerable' = vulnerable /\ issues' = issues
    BY <1>25 DEF ExecuteScan
  <2>2. pc[w] = "execute"
    BY <1>25 DEF ExecuteScan
  <2>3. cur[w] \in Jobs /\ saved[cur[w]] = 0 /\ cur[w] \notin vulnerable
    BY <2>2
  <2>4. pc'[w] \notin StoreLabels \/ index'[w] = 0
    BY <1>25 DEF ExecuteScan
  <2>5. \A v \in Workers : v # w =>
            pc'[v] = pc[v] /\ note'[v] = note[v] /\ index'[v] = index[v]
    BY <1>25 DEF ExecuteScan
  <2> QED
    BY <2>1, <2>4, <2>5, <2>3, ResultFrame
<1>26. ASSUME NEW w \in Workers, Timeout(w) PROVE ResultInv'
  BY <1>26 DEF Timeout, StatusWrite, TimeoutScanJob, UpdateWhere, Report
<1>27. ASSUME NEW w \in Workers, Fail(w) PROVE ResultInv'
  BY <1>27 DEF Fail, StatusWrite, FailScanJob, UpdateWhere, Report
<1>28. ASSUME NEW w \in Workers, Recheck(w) PROVE ResultInv'
  BY <1>28 DEF Recheck, Report
<1>29. ASSUME NEW w \in Workers, EachResult(w) PROVE ResultInv'
  BY <1>29 DEF EachResult, Report
<1>30. ASSUME NEW w \in Workers, SaveScanResult(w) PROVE ResultInv'
  BY <1>30 DEF SaveScanResult, AddResult
<1>31. ASSUME NEW w \in Workers, UpsertIssueFromScanResult(w) PROVE ResultInv'
  BY <1>31 DEF UpsertIssueFromScanResult
<1>32. ASSUME NEW w \in Workers, Complete(w) PROVE ResultInv'
  BY <1>32 DEF Complete, CompleteScanJob, UpdateWhere, Report
<1>33. ASSUME NEW w \in Workers, SetScanProgress(w) PROVE ResultInv'
  BY <1>33 DEF SetScanProgress
<1>34. ASSUME NEW w \in Workers, DeferredCleanup(w) PROVE ResultInv'
  BY <1>34 DEF DeferredCleanup, DropSecret
<1>35. ASSUME NEW w \in Workers, DeferredSlot(w) PROVE ResultInv'
  BY <1>35 DEF DeferredSlot, ReleaseSlot
<1>36. ASSUME NEW w \in Workers, DeferredLock(w) PROVE ResultInv'
  BY <1>36 DEF DeferredLock, ReleaseLock
<1>37. ASSUME NEW w \in Workers, Commit(w) PROVE ResultInv'
  BY <1>37 DEF Commit, Leave
<1>38. ASSUME NEW w \in Workers, Crash(w) PROVE ResultInv'
  BY <1>38 DEF Crash, Leave
<1>39. CASE UNCHANGED vars
  BY <1>39 DEF vars
<1> QED
  BY <1>1, <1>2, <1>3, <1>4, <1>5, <1>6, <1>7, <1>8, <1>9, <1>10, <1>11, <1>12,
     <1>13, <1>14, <1>15, <1>16, <1>17, <1>18, <1>19, <1>20, <1>21, <1>22, <1>23,
     <1>24, <1>25, <1>26, <1>27, <1>28, <1>29, <1>30, <1>31, <1>32, <1>33, <1>34,
     <1>35, <1>36, <1>37, <1>38, <1>39 DEF Next, Api, Worker,
        handleTriggerScan, enqueueSuiteJob, handleRerunScanJob


\* The inductive invariant holds initially: nothing is stored, every worker is
\* idle and every document is absent.
LEMMA ScanInvInit == Init => ScanInv
<1> SUFFICES ASSUME Init PROVE ScanInv
  OBVIOUS
<1> USE ScanAssumption DEF Init
<1>1. TypeOK
  <2>1. slot \in [Slots -> Holders] /\ lock \in [Jobs -> Holders]
    BY DEF Holders
  <2>2. probe \in [Workers -> 1..(GlobalConcurrency + 1)]
    OBVIOUS
  <2> QED
    BY <2>1, <2>2 DEF TypeOK, ApiStates, DocStatus, Status, Terminal, Labels
<1>2. WorkerInv /\ RequestInv
  BY DEF WorkerInv, RequestInv
<1>3. OwnershipInv
  BY DEF OwnershipInv, ExclusiveClaim, Owns, OwningLabels
<1>4. SecretInv
  BY DEF SecretInv, QueuedJobKeepsSecret, Owns, OwningLabels, PreLabels
<1>5. ResultInv
  BY DEF ResultInv, CompletedJobHasItsResults, Unscanned, PreLabels, StoreLabels
<1> QED
  BY <1>1, <1>2, <1>3, <1>4, <1>5 DEF ScanInv

\* In every reachable state of the API server, the workers and their stores,
\* with any number of jobs, workers, semaphore slots, failed calls and crashes,
\* the inductive invariant holds.
THEOREM ScanInvHolds == Spec => []ScanInv
<1>1. ScanInv /\ [Next]_vars => ScanInv'
  <2> SUFFICES ASSUME ScanInv, [Next]_vars PROVE ScanInv'
    OBVIOUS
  <2> QED
    BY TypeStep, WorkerStep, RequestStep, OwnershipStep, SecretStep, ResultStep
       DEF ScanInv
<1> QED
  BY <1>1, ScanInvInit, PTL DEF Spec

\* The variables keep their types; in particular found, index and the slot a
\* worker probes stay within their bounds (processClaimedJob, TryAcquire).
THEOREM TypeCorrect == Spec => []TypeOK
<1>1. ScanInv => TypeOK
  BY DEF ScanInv
<1> QED
  BY <1>1, ScanInvHolds, PTL

\* Two workers never work on the same job at once (claimScanJob), with Redis or
\* without, however often the job was requeued or its event redelivered.
THEOREM ClaimIsExclusive == Spec => []ExclusiveClaim
<1>1. ScanInv => ExclusiveClaim
  BY DEF ScanInv, OwnershipInv
<1> QED
  BY <1>1, ScanInvHolds, PTL

\* A job that waits in the queue, for the first time or after a requeue, has
\* its credential (cleanupScanSecret, RequeueScanJob) unless it expired.
THEOREM CredentialIsKept == Spec => []QueuedJobKeepsSecret
<1>1. ScanInv => QueuedJobKeepsSecret
  BY DEF ScanInv, SecretInv
<1> QED
  BY <1>1, ScanInvHolds, PTL

\* A completed job has all its results and the issue they call for, and no
\* result of another attempt (SaveScanResult, UpsertIssueFromScanResult,
\* CompleteScanJob).
THEOREM ResultsAreComplete == Spec => []CompletedJobHasItsResults
<1>1. ScanInv => CompletedJobHasItsResults
  BY DEF ScanInv, ResultInv
<1> QED
  BY <1>1, ScanInvHolds, PTL

\* No step changes the status of a settled job, so a late worker never
\* overwrites a cancellation and a cancellation never overwrites an outcome.
\* The document's filters carry this, with RequestInv for the insert.
LEMMA TerminalStep ==
  ASSUME ScanInv, [Next]_vars, NEW k \in Jobs, isTerminalScanStatus(status[k])
  PROVE  status'[k] = status[k]
<1> USE DEF ScanInv, TypeOK, isTerminalScanStatus, Terminal
<1>1. ASSUME NEW j \in Jobs, CreateScanJob(j) PROVE status'[k] = status[k]
  BY <1>1 DEF CreateScanJob, InsertJob, RequestInv
<1>2. ASSUME NEW j \in Jobs, handleCancelScanJob(j) PROVE status'[k] = status[k]
  BY <1>2 DEF handleCancelScanJob, CancelScanJob, UpdateWhere
<1>3. ASSUME NEW w \in Workers, ClaimScanJobByID(w) PROVE status'[k] = status[k]
  BY <1>3 DEF ClaimScanJobByID, WorkerInv, StartJob, LoseClaim, ClaimScanJob,
     Claimable
<1>4. ASSUME NEW w \in Workers, ClaimNextScanJob(w) PROVE status'[k] = status[k]
  BY <1>4 DEF ClaimNextScanJob, StartJob, LoseClaim, ClaimScanJob, Claimable
<1>5. ASSUME NEW w \in Workers, Requeue(w) PROVE status'[k] = status[k]
  BY <1>5 DEF Requeue, RequeueScanJob, UpdateWhere, WorkerInv
<1>6. ASSUME NEW w \in Workers, Reject(w) PROVE status'[k] = status[k]
  BY <1>6 DEF Reject, StatusWrite, FailScanJob, UpdateWhere, WorkerInv
<1>7. ASSUME NEW w \in Workers, Timeout(w) PROVE status'[k] = status[k]
  BY <1>7 DEF Timeout, StatusWrite, TimeoutScanJob, UpdateWhere, WorkerInv
<1>8. ASSUME NEW w \in Workers, Fail(w) PROVE status'[k] = status[k]
  BY <1>8 DEF Fail, StatusWrite, FailScanJob, UpdateWhere, WorkerInv
<1>9. ASSUME NEW w \in Workers, Complete(w) PROVE status'[k] = status[k]
  BY <1>9 DEF Complete, CompleteScanJob, UpdateWhere, WorkerInv
<1>10. ASSUME NEW j \in Jobs,
     \/ BeginRequest(j) \/ externalizeScanAuthSecret(j) \/ deleteScanSecret(j)
     \/ publishScanJobQueued(j) \/ ApiCrash(j) \/ DelayElapses(j)
     \/ LockExpires(j) \/ SecretExpires(j)
     PROVE status' = status
  BY <1>10 DEF docVars, BeginRequest, externalizeScanAuthSecret, deleteScanSecret,
     publishScanJobQueued, ApiCrash, DelayElapses, LockExpires, SecretExpires
<1>11. ASSUME NEW t \in Targets,
     \/ RateWindowEnds(t)
     PROVE status' = status
  BY <1>11 DEF docVars, RateWindowEnds
<1>12. ASSUME NEW s \in Slots,
     \/ SlotExpires(s)
     PROVE status' = status
  BY <1>12 DEF docVars, SlotExpires
<1>13. ASSUME NEW w \in Workers,
     \/ Consume(w) \/ TryLock(w) \/ CheckCancelled(w)
     \/ TryAcquire(w) \/ Allow(w) \/ UndoSlot(w)
     \/ Hydrate(w) \/ CleanEarly(w) \/ ExecuteScan(w)
     \/ Recheck(w) \/ EachResult(w) \/ SaveScanResult(w)
     \/ UpsertIssueFromScanResult(w) \/ SetScanProgress(w) \/ DeferredCleanup(w)
     \/ DeferredSlot(w) \/ DeferredLock(w) \/ Commit(w)
     \/ Crash(w)
     PROVE status' = status
  BY <1>13 DEF docVars, Consume, TryLock, CheckCancelled, TryAcquire, Allow,
     UndoSlot, Hydrate, CleanEarly, ExecuteScan, Recheck, EachResult,
     SaveScanResult, UpsertIssueFromScanResult, SetScanProgress, DeferredCleanup,
     DeferredSlot, DeferredLock, Commit, Crash
<1>14. CASE UNCHANGED vars
  BY <1>14 DEF vars
<1> QED
  BY <1>1, <1>2, <1>3, <1>4, <1>5, <1>6, <1>7, <1>8, <1>9, <1>10, <1>11, <1>12,
     <1>13, <1>14 DEF Next, Api, Worker,
        handleTriggerScan, enqueueSuiteJob, handleRerunScanJob

\* A settled job never changes again (the status filters of CompleteScanJob,
\* FailScanJob, RequeueScanJob, TimeoutScanJob and CancelScanJob).
THEOREM SettledIsFinal == Spec => TerminalIsFinal
<1>1. ScanInv /\ [Next]_vars =>
        [\A j \in Jobs : isTerminalScanStatus(status[j]) => status'[j] = status[j]]_vars
  BY TerminalStep
<1> QED
  BY <1>1, ScanInvHolds, PTL DEF Spec, TerminalIsFinal
=============================================================================
