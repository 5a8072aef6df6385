---------------------------- MODULE SampleStore -----------------------------
(***************************************************************************)
(* What the analyzers promise about the samples of endpoints, without the  *)
(* calls that bring it about: samples are inserted with growing ids, a     *)
(* sample is deleted only when Limit newer ones of its endpoint were       *)
(* inserted, at once and whenever somebody gets to it, and all that were   *)
(* captured until some time expire together.                               *)
(***************************************************************************)
EXTENDS Naturals, FiniteSets

CONSTANTS
    Sample,  \* records with id, coll, fp and at, among others
    Limit    \* samples kept per collection and endpoint

VARIABLES samples, inserted, horizon
vars == <<samples, inserted, horizon>>

Init == samples = {} /\ inserted = {} /\ horizon = 0

\* The samples of the same collection and endpoint that were captured later,
\* or at the same time and inserted later.
NewerThan(s) ==
    {t \in inserted : /\ t.coll = s.coll /\ t.fp = s.fp
                      /\ t.at > s.at \/ (t.at = s.at /\ t.id > s.id)}
Outdated(s) == Cardinality(NewerThan(s)) >= Limit

Insert(s) ==
    /\ \A t \in inserted : t.id < s.id
    /\ inserted' = inserted \union {s}
    /\ samples' = samples \union {s}
    /\ UNCHANGED horizon

\* Some samples that are outdated now are deleted.
Prune(excess) ==
    /\ \A s \in excess : Outdated(s)
    /\ samples' = samples \ excess
    /\ UNCHANGED <<inserted, horizon>>

Expire ==
    /\ horizon' = horizon + 1
    /\ samples' = {s \in samples : s.at > horizon'}
    /\ UNCHANGED inserted

Next ==
    \/ \E s \in Sample : Insert(s)
    \/ \E excess \in SUBSET samples : Prune(excess)
    \/ Expire

Spec == Init /\ [][Next]_vars
=============================================================================
