------------------------------- MODULE ScanJob -------------------------------
(***************************************************************************)
(* The scan_jobs document as the repository's queries see it: the values   *)
(* of its status field, the filter each update puts on that field, and the *)
(* value the update writes when the filter matches.  Every update is one   *)
(* MongoDB command on one document, so it is one atomic step; an update    *)
(* whose filter does not match changes nothing and reports no error, which *)
(* is why callers cannot tell the two cases apart.                         *)
(***************************************************************************)

\* "absent" stands for a document that has not been inserted yet.
Terminal == {"completed", "failed", "cancelled", "timed_out"}
Status == {"queued", "running"} \union Terminal
DocStatus == Status \union {"absent"}

\* isTerminalScanStatus, which decides whether a suite is finished.
isTerminalScanStatus(s) == s \in Terminal

\* An UpdateOne on document j filtered by the statuses in from.
UpdateWhere(status, j, from, to) ==
    IF status[j] \in from THEN [status EXCEPT ![j] = to] ELSE status

\* Mutant: the claim's filter also accepts a job that is running.
ClaimableAnyActive(status, deferred, j) ==
    /\ status[j] \in {"queued", "running"}
    /\ j \notin deferred

\* The claim's query: queued, and not_before_at absent or in the past.
Claimable(status, deferred, j) ==
    /\ status[j] = "queued"
    /\ j \notin deferred

\* Mutant: CompleteScanJob filters by id alone.
CompleteUnfiltered(status, j) == [status EXCEPT ![j] = "completed"]

\* The status after each repository call on job j.
ClaimScanJob(status, j)    == [status EXCEPT ![j] = "running"]
CompleteScanJob(status, j) == UpdateWhere(status, j, {"running"}, "completed")
FailScanJob(status, j)     == UpdateWhere(status, j, {"queued", "running"}, "failed")
RequeueScanJob(status, j)  == UpdateWhere(status, j, {"running"}, "queued")
TimeoutScanJob(status, j)  == UpdateWhere(status, j, {"running"}, "timed_out")
CancelScanJob(status, j)   == UpdateWhere(status, j, {"queued", "running"}, "cancelled")
=============================================================================
