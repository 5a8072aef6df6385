-------------------------- MODULE MCScanExecution --------------------------
(* Values for the constants of ScanExecution. *)
EXTENDS ScanExecution, TLC
CONSTANTS j1, j2, w1, w2, t1, e1

\* All jobs are for one endpoint and test type, so they share one issue.
OneEndpoint == [j \in Jobs |-> e1]

AnyDeployment == SUBSET {"redis", "queue"}
FullDeployment == {{"redis", "queue"}}
PollingDeployment == {{"redis"}}

\* Workers are interchangeable (used in runs without liveness only).
WorkerSymmetry == Permutations(Workers)
=============================================================================
