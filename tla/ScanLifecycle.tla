--------------------------- MODULE ScanLifecycle ---------------------------
(***************************************************************************)
(* What active scanning promises about one job, without the stores, locks  *)
(* and queues that bring it about: a job has at most one runner; only its  *)
(* runner settles it, stores its results or puts it back in the queue; it  *)
(* goes back to the queue only before anything was stored, so all results  *)
(* of a job come from one execution; a user may cancel it at any time      *)
(* before it settles; a settled job never changes.  A runner may also walk *)
(* away and leave the job as it is: the code has no step that repairs it.  *)
(***************************************************************************)
EXTENDS Naturals, ScanJob

CONSTANTS Jobs, Workers, NoRunner

VARIABLES status, runner, stored
vars == <<status, runner, stored>>

Init ==
    /\ status = [j \in Jobs |-> "absent"]
    /\ runner = [j \in Jobs |-> NoRunner]
    /\ stored = [j \in Jobs |-> 0]

Create(j) ==
    /\ status[j] = "absent"
    /\ status' = [status EXCEPT ![j] = "queued"]
    /\ UNCHANGED <<runner, stored>>

Cancel(j) ==
    /\ status[j] \in {"queued", "running"}
    /\ status' = [status EXCEPT ![j] = "cancelled"]
    /\ UNCHANGED <<runner, stored>>

\* A claim whose caller never learns of it leaves the job without a runner.
Claim(j) ==
    /\ status[j] = "queued" /\ runner[j] = NoRunner
    /\ status' = [status EXCEPT ![j] = "running"]
    /\ \E w \in Workers \union {NoRunner} : runner' = [runner EXCEPT ![j] = w]
    /\ UNCHANGED stored

Store(j) ==
    /\ runner[j] # NoRunner
    /\ stored' = [stored EXCEPT ![j] = @ + 1]
    /\ UNCHANGED <<status, runner>>

\* How a running job may leave its runner.
Outcomes(j) ==
    {"running", "completed", "failed", "timed_out"}
        \union (IF stored[j] = 0 THEN {"queued"} ELSE {})

Leave(j) ==
    /\ runner[j] # NoRunner
    /\ runner' = [runner EXCEPT ![j] = NoRunner]
    /\ \/ UNCHANGED status
       \/ /\ status[j] = "running"
          /\ \E s \in Outcomes(j) : status' = [status EXCEPT ![j] = s]
    /\ UNCHANGED stored

Next == \E j \in Jobs : Create(j) \/ Cancel(j) \/ Claim(j) \/ Store(j) \/ Leave(j)

Spec == Init /\ [][Next]_vars
=============================================================================
