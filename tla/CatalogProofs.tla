--------------------------- MODULE CatalogProofs ----------------------------
(***************************************************************************)
(* Theorems about Catalog for every set of conversations, analyzers and    *)
(* suite requests: which samples survive concurrent pruning, that this is  *)
(* as good as pruning at once, where the tokens of planned jobs come from, *)
(* and that a suite accounts for every test type.                          *)
(*                                                                         *)
(* NewestInv and RoomInv are about deletes that were listed before other   *)
(* samples came in; AuthInv follows the headers from the capture through   *)
(* the endpoint's document to the target of a suite.                       *)
(***************************************************************************)
EXTENDS Catalog, EndpointAnalysisProofs

\* Where a call of ProcessLog can be and what it holds; it names a collection
\* from the insert of a sample until its prune is over.
Labels ==
    {"idle", "inventory", "parameters", "find", "delete", "metrics"} \union Collections
CallState ==
    [pc : Labels, log : DOMAIN Logs, now : Nat, ids : SUBSET Sample,
     coll : Collections \union {""}]
CallInv ==
    /\ deliveries \in Nat /\ faults \in Nat /\ horizon \in Nat
    /\ proc \in [Analyzers -> CallState]
    /\ \A a \in Analyzers :
         /\ proc[a].coll # "" <=> proc[a].pc \in {"find", "delete"}
         /\ proc[a].pc # "delete" => proc[a].ids = {}

\* Samples are numbered in the order of their inserts.
SampleInv ==
    /\ inserted \subseteq Sample /\ IsFiniteSet(inserted) /\ samples \subseteq inserted
    /\ \A s \in inserted : s.id <= Cardinality(inserted)
    /\ \A s, t \in inserted : s.id = t.id => s = t

\* What was inserted for an endpoint, what is stored of it, and the samples
\* that enough newer ones were inserted after.
Ever(coll, fp) == {s \in inserted : s.coll = coll /\ s.fp = fp}
Stored(coll, fp) == Ever(coll, fp) \intersect samples
Outdated(s) == Cardinality({t \in Ever(s.coll, s.fp) : Newer(t, s)}) >= EndpointSampleLimit

\* Only outdated samples are gone before they expire, or about to be deleted.
NewestInv ==
    /\ \A s \in inserted : s \in samples \/ s.at <= horizon \/ Outdated(s)
    /\ \A a \in Analyzers : \A s \in proc[a].ids : s \in inserted /\ Outdated(s)

\* The calls between insert and prune, and those of them about to delete.
Pruning(coll, fp) == {a \in Analyzers : proc[a].coll = coll /\ Fp(a) = fp}
Deleting(coll, fp) == {a \in Pruning(coll, fp) : proc[a].pc = "delete"}
Doomed(A) == UNION {proc[a].ids : a \in A}

\* Whichever calls A delete next what they found, they leave at most one sample
\* too many for each other call and each fault.
RoomInv ==
    \A coll \in Collections, l \in DOMAIN Logs :
        \A A \in SUBSET Deleting(coll, FingerprintOf[l]) :
            Cardinality(Stored(coll, FingerprintOf[l]) \ Doomed(A))
            <= EndpointSampleLimit + Cardinality(Pruning(coll, FingerprintOf[l]) \ A) + faults

\* The headers the plans of scans see are redacted, in the documents of
\* endpoints and in the target of a suite, which has jobs when it is over only.
SafeHeaders(headers) == \A name \in DOMAIN headers : headers[name] \in Seq(SafeField(name))
SafeDocument(doc) ==
    "headers" \in DOMAIN doc /\ DOMAIN doc.headers = HeaderNames /\ SafeHeaders(doc.headers)
TargetFields == {"fp", "path", "method", "base", "body", "headers"}
SuiteFields == {"pc", "req", "target", "selected", "skipped", "reported", "jobs", "lost",
                "misreported"}
SafeSuite ==
    /\ DOMAIN suite = SuiteFields /\ suite.req \in SuiteRequests
    /\ DOMAIN suite.target = TargetFields /\ SafeHeaders(suite.target.headers)
AuthInv ==
    /\ DOMAIN inventory \subseteq Range(FingerprintOf)
    /\ \A fp \in DOMAIN inventory : SafeDocument(inventory[fp])
    /\ SafeSuite
    /\ suite.pc \notin {"answered", "failed"} => suite.jobs = {}

-----------------------------------------------------------------------------
(* What a step means to the samples. *)

LEMMA IdleState == Idle \in CallState
<1>1. (CHOOSE l \in DOMAIN Logs : TRUE) \in DOMAIN Logs
  BY TrafficInventoryAssumption
<1> QED
  BY <1>1 DEF Idle, CallState, Labels

LEMMA AfterLabel == \A coll \in Collections : After[coll] \in {"sensitive_samples", "metrics"}
<1>1. After["traffic_samples"] = "sensitive_samples" /\ After["sensitive_samples"] = "metrics"
  BY DEF After
<1> QED
  BY <1>1 DEF Collections

\* Call a takes these values of the locals that matter here; the others keep theirs.
Becomes(a, pc, ids, coll) ==
    /\ proc' \in [Analyzers -> CallState]
    /\ \A b \in Analyzers : b # a => proc'[b] = proc[b]
    /\ proc'[a].pc = pc /\ proc'[a].ids = ids /\ proc'[a].coll = coll

LEMMA GotoBecomes ==
  ASSUME CallInv, NEW a \in Analyzers, NEW pc \in Labels, Goto(a, pc)
  PROVE  Becomes(a, pc, {}, proc[a].coll)
<1> DEFINE q == [proc[a] EXCEPT !.pc = pc]
           r == [q EXCEPT !.ids = {}]
<1>1. proc \in [Analyzers -> CallState] /\ proc[a] \in CallState
  BY DEF CallInv
<1>2. q \in CallState /\ q.pc = pc /\ q.coll = proc[a].coll
  BY <1>1 DEF CallState
<1>3. proc' = [proc EXCEPT ![a] = r]
  BY <1>1 DEF Goto
<1> HIDE DEF q
<1>4. r \in CallState /\ r.ids = {} /\ r.pc = q.pc /\ r.coll = q.coll
  BY <1>2 DEF CallState
<1> HIDE DEF r
<1>5. proc' \in [Analyzers -> CallState]
  BY <1>1, <1>3, <1>4
<1>6. proc'[a] = r /\ \A b \in Analyzers : b # a => proc'[b] = proc[b]
  BY <1>1, <1>3
<1> QED
  BY <1>2, <1>4, <1>5, <1>6 DEF Becomes

LEMMA ReturnBecomes ==
  ASSUME CallInv, NEW a \in Analyzers, Return(a)
  PROVE  Becomes(a, "idle", {}, "")
<1>1. proc \in [Analyzers -> CallState]
  BY DEF CallInv
<1>2. Idle \in CallState /\ Idle.pc = "idle" /\ Idle.ids = {} /\ Idle.coll = ""
  BY IdleState DEF Idle
<1>3. proc' = [proc EXCEPT ![a] = Idle]
  BY DEF Return
<1> HIDE DEF Idle
<1> QED
  BY <1>1, <1>2, <1>3 DEF Becomes

LEMMA FinishBecomes ==
  ASSUME CallInv, NEW a \in Analyzers, NEW coll \in Collections,
         proc' = [proc EXCEPT ![a] = Finish(a, coll)]
  PROVE  Becomes(a, After[coll], {}, "")
<1> DEFINE q == [proc[a] EXCEPT !.pc = After[coll]]
           r == [q EXCEPT !.ids = {}]
           t == [r EXCEPT !.coll = ""]
<1>1. proc \in [Analyzers -> CallState] /\ proc[a] \in CallState /\ After[coll] \in Labels
  BY AfterLabel DEF CallInv, Labels, Collections
<1>2. q \in CallState /\ q.pc = After[coll]
  BY <1>1 DEF CallState
<1>3. Finish(a, coll) = t
  BY <1>1 DEF Finish
<1> HIDE DEF q
<1>4. r \in CallState /\ r.ids = {} /\ r.pc = q.pc
  BY <1>2 DEF CallState
<1> HIDE DEF r
<1>5. t \in CallState /\ t.ids = {} /\ t.pc = q.pc /\ t.coll = ""
  BY <1>4 DEF CallState
<1> HIDE DEF t
<1> QED
  BY <1>1, <1>2, <1>3, <1>5 DEF Becomes

\* Afterwards call a is not between insert and prune.
Outside(a) ==
    /\ proc' \in [Analyzers -> CallState]
    /\ \A b \in Analyzers : b # a => proc'[b] = proc[b]
    /\ proc'[a].pc \notin {"find", "delete"} /\ proc'[a].ids = {} /\ proc'[a].coll = ""

\* A step that has nothing to do with samples.
Aside(a) ==
    /\ proc[a].coll = "" /\ Outside(a)
    /\ UNCHANGED <<samples, inserted, horizon>> /\ faults' >= faults

\* A sample is inserted, and pruned afterwards unless the insert reported an error.
Inserts(a, s) ==
    /\ s \in Sample /\ s.id = NextId /\ s.fp = Fp(a)
    /\ samples' = samples \union {s} /\ inserted' = inserted \union {s}
    /\ proc[a].coll = "" /\ UNCHANGED horizon
    /\ \/ Becomes(a, "find", {}, s.coll) /\ Fp(a)' = Fp(a) /\ UNCHANGED faults
       \/ Outside(a) /\ faults' = faults + 1

\* The prune finds samples to delete, or none.
Lists(a) ==
    LET excess == Excess(Stored(proc[a].coll, Fp(a)))
    IN  /\ proc[a].pc = "find"
        /\ UNCHANGED <<samples, inserted, horizon, faults>>
        /\ \/ Becomes(a, "delete", excess, proc[a].coll) /\ Fp(a)' = Fp(a)
           \/ excess = {} /\ Outside(a)

\* The prune deletes what it found, or ends early.
Deletes(a) ==
    /\ proc[a].pc = "delete" /\ Outside(a) /\ faults' >= faults
    /\ samples' = samples \ proc[a].ids /\ UNCHANGED <<inserted, horizon>>
GivesUp(a) ==
    /\ Outside(a) /\ faults' = faults + 1 /\ UNCHANGED <<samples, inserted, horizon>>

Kind(a) ==
    \/ Aside(a) \/ \E s \in Sample : Inserts(a, s)
    \/ Lists(a) \/ Deletes(a) \/ GivesUp(a)

LEMMA CallFaults ==
  ASSUME CallInv, NEW outcome, Call(outcome)
  PROVE  /\ faults' \in Nat /\ faults' >= faults
         /\ outcome = "ok" => faults' = faults
         /\ outcome # "ok" => faults' = faults + 1
<1>1. faults \in Nat /\ faults' = faults + (IF outcome = "ok" THEN 0 ELSE 1)
  BY DEF CallInv, Call
<1>2. CASE outcome = "ok"
  BY <1>1, <1>2
<1>3. CASE outcome # "ok"
  BY <1>1, <1>3
<1> QED
  BY <1>2, <1>3

LEMMA ObservedIsTime ==
  ASSUME CallInv, NEW a \in Analyzers
  PROVE  observedAt(a) \in Nat
<1>1. proc[a] \in CallState
  BY DEF CallInv
<1> QED
  BY <1>1, TrafficInventoryAssumption DEF observedAt, Log, CallState

\* Every step of a call is of one of these kinds.
LEMMA KindOfStep ==
  ASSUME CallInv, SampleInv, NEW a \in Analyzers, Analyze(a)
  PROVE  deliveries' \in Nat /\ faults' \in Nat /\ Kind(a)
<1>0. /\ deliveries \in Nat /\ faults \in Nat /\ proc \in [Analyzers -> CallState]
      /\ proc[a] \in CallState
      /\ proc[a].coll # "" <=> proc[a].pc \in {"find", "delete"}
      /\ proc[a].pc # "delete" => proc[a].ids = {}
  BY DEF CallInv
<1>a. /\ deliveries \in Nat /\ deliveries + 1 \in Nat /\ faults \in Nat /\ faults + 1 \in Nat
      /\ faults >= faults
  <2>1. deliveries \in Nat /\ faults \in Nat
    BY DEF CallInv
  <2> QED
    BY <2>1
<1>1. ASSUME NEW l \in DOMAIN Logs, ProcessLog(a, l)
      PROVE  deliveries' \in Nat /\ faults' \in Nat /\ Aside(a)
  <2> DEFINE q == [Idle EXCEPT !.pc = "inventory"]
             r == [q EXCEPT !.log = l]
             t == [r EXCEPT !.now = deliveries + 1]
  <2>1. /\ proc' = [proc EXCEPT ![a] = t] /\ proc[a].pc = "idle"
        /\ deliveries' = deliveries + 1
        /\ UNCHANGED <<samples, inserted, horizon, faults>>
    BY <1>1 DEF ProcessLog
  <2>2. q \in CallState /\ q.pc = "inventory" /\ q.ids = {} /\ q.coll = ""
    <3>1. Idle \in CallState /\ Idle.ids = {} /\ Idle.coll = ""
      BY IdleState DEF Idle
    <3> HIDE DEF Idle
    <3> QED
      BY <3>1 DEF CallState, Labels
  <2> HIDE DEF q
  <2>3. r \in CallState /\ r.pc = "inventory" /\ r.ids = {} /\ r.coll = ""
    BY <2>2 DEF CallState
  <2> HIDE DEF r
  <2>4. t \in CallState /\ t.pc = "inventory" /\ t.ids = {} /\ t.coll = ""
    BY <1>a, <2>3 DEF CallState
  <2> HIDE DEF t
  <2>5. deliveries' \in Nat /\ faults' \in Nat /\ faults' >= faults
    BY <1>a, <2>1
  <2>6. Outside(a)
    BY <1>0, <2>1, <2>4 DEF Outside
  <2> QED
    BY <1>0, <2>1, <2>5, <2>6 DEF Aside
<1>2. ASSUME NEW outcome \in Outcomes, UpdateInventory(a, outcome)
      PROVE  deliveries' \in Nat /\ faults' \in Nat /\ Aside(a)
  <2>1. /\ proc[a].pc = "inventory" /\ Call(outcome)
        /\ Return(a) \/ Goto(a, "parameters")
        /\ UNCHANGED <<samples, inserted, horizon, deliveries>>
    BY <1>2 DEF UpdateInventory, AfterInventory
  <2>2. Becomes(a, "idle", {}, "") \/ Becomes(a, "parameters", {}, proc[a].coll)
    BY <2>1, GotoBecomes, ReturnBecomes DEF Labels
  <2>3. faults' \in Nat /\ faults' >= faults
    BY <2>1, CallFaults
  <2> QED
    BY <1>0, <2>1, <2>2, <2>3 DEF Aside, Outside, Becomes
<1>3. ASSUME NEW outcome \in Outcomes, NEW done, UpsertParameters(a, done, outcome)
      PROVE  deliveries' \in Nat /\ faults' \in Nat /\ Aside(a)
  <2>1. /\ proc[a].pc = "parameters" /\ Call(outcome) /\ Goto(a, "traffic_samples")
        /\ UNCHANGED <<samples, inserted, horizon, deliveries>>
    BY <1>3 DEF UpsertParameters
  <2>2. Becomes(a, "traffic_samples", {}, proc[a].coll)
    BY <2>1, GotoBecomes DEF Labels, Collections
  <2>3. faults' \in Nat /\ faults' >= faults
    BY <2>1, CallFaults
  <2> QED
    BY <1>0, <2>1, <2>2, <2>3 DEF Aside, Outside, Becomes
<1>4. ASSUME NEW coll \in Collections, NEW outcome \in Outcomes, InsertSample(a, coll, outcome)
      PROVE  deliveries' \in Nat /\ faults' \in Nat /\ Kind(a)
  <2> DEFINE s == [id |-> NextId, coll |-> coll, fp |-> Fp(a), log |-> proc[a].log,
                   at |-> observedAt(a), created |-> proc[a].now]
  <2>1. /\ proc[a].pc = coll /\ Call(outcome)
        /\ samples' = IF Applied(outcome) THEN samples \union {s} ELSE samples
        /\ inserted' = IF Applied(outcome) THEN inserted \union {s} ELSE inserted
        /\ UNCHANGED <<horizon, deliveries>>
    BY <1>4 DEF InsertSample
  <2>2. proc[a].pc \notin {"find", "delete"} /\ proc[a].coll = "" /\ proc[a].ids = {}
    BY <1>0, <2>1 DEF Collections
  <2>3. s \in Sample /\ s.id = NextId /\ s.fp = Fp(a) /\ s.coll = coll
    <3>1. NextId \in Nat
      BY FS_CardinalityType DEF SampleInv, NextId
    <3>2. proc[a].log \in DOMAIN Logs /\ proc[a].now \in Nat
      BY <1>0 DEF CallState
    <3>3. Fp(a) \in Range(FingerprintOf)
      BY <3>2 DEF Fp, Range, FingerprintOf
    <3> HIDE DEF NextId, Fp
    <3> QED
      BY <3>1, <3>2, <3>3, ObservedIsTime DEF Sample
  <2> HIDE DEF s
  <2>4. CASE outcome = "ok"
    <3> DEFINE q == [proc[a] EXCEPT !.pc = "find"]
               r == [q EXCEPT !.coll = coll]
    <3>1. proc' = [proc EXCEPT ![a] = r]
      BY <1>0, <1>4, <2>4 DEF InsertSample
    <3>2. q \in CallState /\ q.pc = "find" /\ q.ids = {} /\ q.log = proc[a].log
      BY <1>0, <2>2 DEF CallState, Labels
    <3> HIDE DEF q
    <3>3. r \in CallState /\ r.pc = "find" /\ r.ids = {} /\ r.log = proc[a].log /\ r.coll = coll
      BY <3>2 DEF CallState
    <3> HIDE DEF r
    <3>4. proc' \in [Analyzers -> CallState] /\ proc'[a] = r
      BY <1>0, <3>1, <3>3
    <3>5. Becomes(a, "find", {}, coll) /\ Fp(a)' = Fp(a)
      BY <1>0, <3>1, <3>3, <3>4 DEF Becomes, Fp
    <3>6. UNCHANGED faults
      BY <2>1, <2>4, CallFaults
    <3>7. Inserts(a, s)
      BY <2>1, <2>2, <2>3, <2>4, <3>5, <3>6 DEF Inserts, Applied
    <3> QED
      BY <1>0, <2>1, <2>3, <3>6, <3>7 DEF Kind
  <2>5. CASE outcome # "ok"
    <3>1. Goto(a, After[coll]) /\ After[coll] \in {"sensitive_samples", "metrics"}
      BY <1>4, <2>5, AfterLabel DEF InsertSample
    <3>2. Becomes(a, After[coll], {}, proc[a].coll)
      BY <3>1, GotoBecomes DEF Labels, Collections
    <3>3. Outside(a)
      BY <2>2, <3>1, <3>2 DEF Outside, Becomes
    <3>4. faults' \in Nat /\ faults' = faults + 1 /\ faults' >= faults
      BY <2>1, <2>5, CallFaults
    <3>5. CASE Applied(outcome)
      BY <1>0, <2>1, <2>2, <2>3, <3>3, <3>4, <3>5 DEF Kind, Inserts
    <3>6. CASE ~Applied(outcome)
      BY <1>0, <2>1, <2>2, <3>3, <3>4, <3>6 DEF Kind, Aside
    <3> QED
      BY <3>5, <3>6
  <2> QED
    BY <2>4, <2>5
<1>5. ASSUME NEW coll \in Collections, SkipSample(a, coll)
      PROVE  deliveries' \in Nat /\ faults' \in Nat /\ Aside(a)
  <2>1. /\ proc[a].pc = coll /\ Goto(a, After[coll])
        /\ UNCHANGED <<samples, inserted, horizon, deliveries, faults>>
    BY <1>5 DEF SkipSample
  <2>2. proc[a].pc \notin {"find", "delete"} /\ proc[a].coll = ""
    BY <1>0, <2>1 DEF Collections
  <2>3. After[coll] \in {"sensitive_samples", "metrics"}
    BY AfterLabel
  <2>4. Becomes(a, After[coll], {}, proc[a].coll)
    BY <2>1, <2>3, GotoBecomes DEF Labels, Collections
  <2>5. deliveries' \in Nat /\ faults' \in Nat /\ faults' >= faults
    BY <1>a, <2>1
  <2>6. Outside(a)
    BY <2>2, <2>3, <2>4 DEF Outside, Becomes
  <2> QED
    BY <2>1, <2>2, <2>5, <2>6 DEF Aside
<1>6. ASSUME NEW coll \in Collections, NEW outcome \in Outcomes, FindExcess(a, coll, outcome)
      PROVE  deliveries' \in Nat /\ faults' \in Nat /\ Kind(a)
  <2> DEFINE excess == Excess({s \in samples : s.coll = coll /\ s.fp = Fp(a)})
  <2>1. /\ proc[a].pc = "find" /\ proc[a].coll = coll /\ Call(outcome)
        /\ proc' = [proc EXCEPT ![a] = IF outcome = "ok" /\ excess # {}
                                       THEN [@ EXCEPT !.pc = "delete", !.ids = excess]
                                       ELSE Finish(a, coll)]
        /\ UNCHANGED <<samples, inserted, horizon, deliveries>>
    BY <1>6 DEF FindExcess
  <2>2. excess = Excess(Stored(proc[a].coll, Fp(a)))
    <3>1. {s \in samples : s.coll = coll /\ s.fp = Fp(a)} = Stored(coll, Fp(a))
      BY DEF Stored, Ever, SampleInv
    <3> QED
      BY <2>1, <3>1
  <2>3. excess \subseteq Sample
    BY DEF Excess, SampleInv
  <2> HIDE DEF excess
  <2>4. faults' \in Nat /\ (outcome = "ok" => UNCHANGED faults)
        /\ (outcome # "ok" => faults' = faults + 1)
    BY <2>1, CallFaults
  <2>5. CASE outcome = "ok" /\ excess # {}
    <3> DEFINE q == [proc[a] EXCEPT !.pc = "delete"]
               r == [q EXCEPT !.ids = excess]
    <3>1. proc' = [proc EXCEPT ![a] = r]
      BY <1>0, <2>1, <2>5
    <3>2. q \in CallState /\ q.pc = "delete" /\ q.coll = coll /\ q.log = proc[a].log
      BY <1>0, <2>1 DEF CallState, Labels
    <3> HIDE DEF q
    <3>3. r \in CallState /\ r.pc = "delete" /\ r.ids = excess /\ r.log = proc[a].log
          /\ r.coll = coll
      BY <2>3, <3>2 DEF CallState
    <3> HIDE DEF r
    <3>4. proc' \in [Analyzers -> CallState] /\ proc'[a] = r
      BY <1>0, <3>1, <3>3
    <3>5. Becomes(a, "delete", excess, coll) /\ Fp(a)' = Fp(a)
      BY <1>0, <3>1, <3>3, <3>4 DEF Becomes, Fp
    <3> QED
      BY <1>0, <2>1, <2>2, <2>4, <2>5, <3>5 DEF Kind, Lists
  <2>6. CASE ~(outcome = "ok" /\ excess # {})
    <3>1. Becomes(a, After[coll], {}, "")
      BY <2>1, <2>6, FinishBecomes
    <3>2. Outside(a)
      BY <3>1, AfterLabel DEF Outside, Becomes
    <3> QED
      BY <1>0, <2>1, <2>2, <2>4, <2>6, <3>2 DEF Kind, Lists, GivesUp
  <2> QED
    BY <2>5, <2>6
<1>7. ASSUME NEW coll \in Collections, NEW outcome \in Outcomes, DeleteExcess(a, coll, outcome)
      PROVE  deliveries' \in Nat /\ faults' \in Nat /\ Kind(a)
  <2>1. /\ proc[a].pc = "delete" /\ Call(outcome)
        /\ samples' = IF Applied(outcome) THEN samples \ proc[a].ids ELSE samples
        /\ proc' = [proc EXCEPT ![a] = Finish(a, coll)]
        /\ UNCHANGED <<inserted, horizon, deliveries>>
    BY <1>7 DEF DeleteExcess
  <2>2. Becomes(a, After[coll], {}, "")
    BY <2>1, FinishBecomes
  <2>3. Outside(a)
    BY <2>2, AfterLabel DEF Outside, Becomes
  <2>4. faults' \in Nat /\ faults' >= faults /\ (outcome # "ok" => faults' = faults + 1)
    BY <2>1, CallFaults
  <2>5. CASE Applied(outcome)
    BY <1>0, <2>1, <2>3, <2>4, <2>5 DEF Kind, Deletes
  <2>6. CASE ~Applied(outcome)
    BY <1>0, <2>1, <2>3, <2>4, <2>6 DEF Kind, GivesUp, Applied
  <2> QED
    BY <2>5, <2>6
<1>8. ASSUME NEW outcome \in Outcomes, NEW done, NEW call, RecordMetrics(a, done, call, outcome)
      PROVE  deliveries' \in Nat /\ faults' \in Nat /\ Aside(a)
  <2>1. /\ proc[a].pc = "metrics" /\ Call(outcome) /\ Return(a)
        /\ UNCHANGED <<samples, inserted, horizon, deliveries>>
    BY <1>8 DEF RecordMetrics
  <2>2. Becomes(a, "idle", {}, "")
    BY <2>1, ReturnBecomes
  <2>3. faults' \in Nat /\ faults' >= faults
    BY <2>1, CallFaults
  <2> QED
    BY <1>0, <2>1, <2>2, <2>3 DEF Aside, Outside, Becomes
<1>9. ASSUME Crash(a)
      PROVE  deliveries' \in Nat /\ faults' \in Nat /\ GivesUp(a)
  <2>1. Becomes(a, "idle", {}, "")
    BY <1>9, ReturnBecomes DEF Crash
  <2>2. Outside(a)
    BY <2>1 DEF Outside, Becomes
  <2>3. faults' = faults + 1 /\ UNCHANGED <<samples, inserted, horizon, deliveries>>
    BY <1>9 DEF Crash
  <2> QED
    BY <1>a, <2>2, <2>3 DEF GivesUp
<1> QED
  <2> HIDE DEF Aside, GivesUp
  <2> QED
    BY <1>1, <1>2, <1>3, <1>4, <1>5, <1>6, <1>7, <1>8, <1>9 DEF Analyze, Kind

-----------------------------------------------------------------------------
(* The newest samples are kept, and not many more. *)

\* The TTL index, and steps of the suite, which may meet faults of their own.
Expires ==
    /\ samples' = {s \in samples : s.at > horizon'} /\ horizon' = horizon + 1
    /\ UNCHANGED <<proc, inserted, faults>>
Stays == UNCHANGED <<proc, samples, inserted, horizon>> /\ faults' >= faults

SampleStep == (\E a \in Analyzers : Kind(a)) \/ Expires \/ Stays

LEMMA CallInvStep ==
  ASSUME CallInv, SampleStep, deliveries' \in Nat, faults' \in Nat
  PROVE  CallInv'
<1>0. horizon \in Nat /\ horizon + 1 \in Nat
  <2>1. horizon \in Nat
    BY DEF CallInv
  <2> QED
    BY <2>1
<1>1. proc' \in [Analyzers -> CallState] /\ horizon' \in Nat
  BY <1>0 DEF CallInv, SampleStep, Kind, Aside, Inserts, Lists, Deletes, GivesUp, Outside,
     Becomes, Expires, Stays
<1>2. ASSUME NEW a \in Analyzers, Kind(a), NEW b \in Analyzers
      PROVE  /\ proc'[b].coll # "" <=> proc'[b].pc \in {"find", "delete"}
             /\ proc'[b].pc # "delete" => proc'[b].ids = {}
  <2>1. CASE b # a
    <3>1. proc'[b] = proc[b]
      BY <1>2, <2>1 DEF Kind, Aside, Inserts, Lists, Deletes, GivesUp, Outside, Becomes
    <3> QED
      BY <3>1 DEF CallInv
  <2>2. CASE b = a /\ Outside(a)
    BY <2>2 DEF Outside
  <2>3. ASSUME b = a, NEW s \in Sample, Becomes(a, "find", {}, s.coll)
        PROVE  /\ proc'[b].coll # "" <=> proc'[b].pc \in {"find", "delete"}
               /\ proc'[b].pc # "delete" => proc'[b].ids = {}
    <3>1. s.coll \in Collections
      BY DEF Sample
    <3> QED
      BY <2>3, <3>1 DEF Becomes, Collections
  <2>4. ASSUME b = a, proc[a].pc = "find", NEW excess, Becomes(a, "delete", excess, proc[a].coll)
        PROVE  /\ proc'[b].coll # "" <=> proc'[b].pc \in {"find", "delete"}
               /\ proc'[b].pc # "delete" => proc'[b].ids = {}
    BY <2>4 DEF Becomes, CallInv
  <2> QED
    BY <1>2, <2>1, <2>2, <2>3, <2>4 DEF Kind, Aside, Inserts, Lists, Deletes, GivesUp
<1>3. ASSUME Expires \/ Stays
      PROVE  \A b \in Analyzers : /\ proc'[b].coll # "" <=> proc'[b].pc \in {"find", "delete"}
                                  /\ proc'[b].pc # "delete" => proc'[b].ids = {}
  BY <1>3 DEF Expires, Stays, CallInv
<1> QED
  BY <1>1, <1>2, <1>3 DEF CallInv, SampleStep

\* What a step of any kind does to the two sets of samples.
LEMMA SamplesInserted ==
  ASSUME SampleStep
  PROVE  \/ inserted' = inserted /\ samples' \subseteq samples
         \/ \E s \in Sample : /\ s.id = NextId /\ inserted' = inserted \union {s}
                             /\ samples' = samples \union {s}
  BY DEF SampleStep, Kind, Aside, Inserts, Lists, Deletes, GivesUp, Expires, Stays

LEMMA SampleInvStep ==
  ASSUME SampleInv, SampleStep
  PROVE  SampleInv'
<1>1. CASE inserted' = inserted /\ samples' \subseteq samples
  BY <1>1 DEF SampleInv
<1>2. ASSUME NEW s \in Sample, s.id = NextId, inserted' = inserted \union {s},
             samples' = samples \union {s}
      PROVE  SampleInv'
  <2> DEFINE n == Cardinality(inserted)
  <2>1. IsFiniteSet(inserted) /\ n \in Nat /\ s.id = n + 1
    BY <1>2, FS_CardinalityType DEF SampleInv, NextId
  <2>2. \A t \in inserted : t.id \in Nat /\ t.id <= n
    BY DEF SampleInv, Sample
  <2>3. s \notin inserted
    BY <2>1, <2>2
  <2>4. IsFiniteSet(inserted \union {s}) /\ Cardinality(inserted \union {s}) = n + 1
    BY <2>1, <2>3, FS_AddElement
  <2> HIDE DEF n
  <2>5. \A t \in inserted' : t.id <= n + 1
    BY <1>2, <2>1, <2>2
  <2>6. \A t, u \in inserted' : t.id = u.id => t = u
    BY <1>2, <2>1, <2>2 DEF SampleInv
  <2> QED
    BY <1>2, <2>4, <2>5, <2>6 DEF SampleInv
<1> QED
  BY <1>1, <1>2, SamplesInserted

\* Later inserts only add newer samples.
LEMMA OutdatedStays ==
  ASSUME SampleInv, SampleInv', SampleStep, NEW s \in Sample, Outdated(s)
  PROVE  Outdated(s)'
<1> DEFINE Before == {t \in Ever(s.coll, s.fp) : Newer(t, s)}
           Now == {t \in inserted' : t.coll = s.coll /\ t.fp = s.fp /\ Newer(t, s)}
<1>1. inserted \subseteq inserted'
  BY SamplesInserted
<1>2. IsFiniteSet(inserted')
  BY DEF SampleInv
<1>3. Now \subseteq inserted' /\ Before \subseteq Now
  BY <1>1 DEF Ever
<1>4. IsFiniteSet(Now)
  BY <1>2, <1>3, FS_Subset
<1>5. Cardinality(Before) <= Cardinality(Now) /\ IsFiniteSet(Before)
  BY <1>3, <1>4, FS_Subset
<1>6. Cardinality(Before) \in Nat /\ Cardinality(Now) \in Nat
  BY <1>4, <1>5, FS_CardinalityType
<1>7. Cardinality(Before) >= EndpointSampleLimit
  BY DEF Outdated
<1>8. Cardinality(Now) >= EndpointSampleLimit
  <2> HIDE DEF Before, Now
  <2> QED
    BY <1>5, <1>6, <1>7, TrafficInventoryAssumption
<1>9. Outdated(s)' <=> Cardinality({t \in {u \in inserted' : u.coll = s.coll /\ u.fp = s.fp} :
                                   Newer(t, s)}) >= EndpointSampleLimit
  BY DEF Outdated, Ever
<1>10. {t \in {u \in inserted' : u.coll = s.coll /\ u.fp = s.fp} : Newer(t, s)} = Now
  OBVIOUS
<1> QED
  BY <1>8, <1>9, <1>10

\* What a prune finds is outdated.
LEMMA ExcessIsOutdated ==
  ASSUME SampleInv, NEW coll, NEW fp, NEW s \in Excess(Stored(coll, fp))
  PROVE  s \in inserted /\ Outdated(s)
<1> DEFINE some == {t \in Stored(coll, fp) : Newer(t, s)}
           all == {t \in Ever(s.coll, s.fp) : Newer(t, s)}
<1>1. s \in Stored(coll, fp) /\ Cardinality(some) >= EndpointSampleLimit
  BY DEF Excess
<1>2. s \in inserted /\ s.coll = coll /\ s.fp = fp
  BY <1>1 DEF Stored, Ever
<1>3. some \subseteq all /\ all \subseteq inserted
  BY <1>2 DEF Stored, Ever
<1>4. IsFiniteSet(all)
  BY <1>3, FS_Subset DEF SampleInv
<1>5. Cardinality(some) <= Cardinality(all) /\ IsFiniteSet(some)
  BY <1>3, <1>4, FS_Subset
<1>6. Cardinality(some) \in Nat /\ Cardinality(all) \in Nat
  BY <1>4, <1>5, FS_CardinalityType
<1>7. Cardinality(all) >= EndpointSampleLimit
  <2> HIDE DEF some, all
  <2> QED
    BY <1>1, <1>5, <1>6, TrafficInventoryAssumption
<1> QED
  BY <1>2, <1>7 DEF Outdated

LEMMA NewestStep ==
  ASSUME CallInv, SampleInv, SampleInv', NewestInv, SampleStep
  PROVE  NewestInv'
<1>0. \A s \in inserted : s \in Sample
  BY DEF SampleInv
<1>1. ASSUME NEW s \in inserted', s \notin samples', s.at > horizon'
      PROVE  Outdated(s)'
  <2>1. s \in inserted /\ (s \notin samples \/ \E a \in Analyzers : s \in proc[a].ids)
    <3>1. CASE Expires
      BY <1>1, <3>1 DEF Expires
    <3>2. CASE Stays
      BY <1>1, <3>2 DEF Stays
    <3>3. ASSUME NEW a \in Analyzers, Kind(a)
          PROVE  s \in inserted /\ (s \notin samples \/ s \in proc[a].ids)
      BY <1>1, <3>3 DEF Kind, Aside, Inserts, Lists, Deletes, GivesUp
    <3> QED
      BY <3>1, <3>2, <3>3 DEF SampleStep
  <2>2. s.at > horizon
    <3>1. horizon' = horizon \/ horizon' = horizon + 1
      BY DEF SampleStep, Kind, Aside, Inserts, Lists, Deletes, GivesUp, Expires, Stays
    <3>2. horizon \in Nat
      BY DEF CallInv
    <3>3. s.at \in Nat
      BY <1>0, <2>1 DEF Sample
    <3> QED
      BY <1>1, <3>1, <3>2, <3>3
  <2>3. ~(s.at <= horizon)
    <3>1. horizon \in Nat
      BY DEF CallInv
    <3>2. s.at \in Nat
      BY <1>0, <2>1 DEF Sample
    <3> QED
      BY <2>2, <3>1, <3>2
  <2>4. Outdated(s)
    BY <2>1, <2>3 DEF NewestInv
  <2> QED
    BY <1>0, <2>1, <2>4, OutdatedStays
<1>2. ASSUME NEW b \in Analyzers, NEW s \in proc'[b].ids
      PROVE  s \in inserted' /\ Outdated(s)'
  <2>1. s \in inserted /\ Outdated(s)
    <3>1. CASE s \in proc[b].ids
      BY <3>1 DEF NewestInv
    <3>2. ASSUME s \notin proc[b].ids, NEW a \in Analyzers, Kind(a)
          PROVE  s \in inserted /\ Outdated(s)
      <4>1. Lists(a) /\ b = a /\ s \in Excess(Stored(proc[a].coll, Fp(a)))
        BY <1>2, <3>2 DEF Kind, Aside, Inserts, Lists, Deletes, GivesUp, Outside, Becomes
      <4> QED
        BY <4>1, ExcessIsOutdated
    <3>3. CASE Expires \/ Stays
      BY <1>2, <3>3 DEF Expires, Stays, NewestInv
    <3> QED
      BY <3>1, <3>2, <3>3 DEF SampleStep
  <2> QED
    BY <1>0, <2>1, OutdatedStays, SamplesInserted
<1>3. ASSUME NEW s \in inserted', s \notin samples', ~(s.at <= horizon')
      PROVE  s.at > horizon'
  <2>1. s.at \in Nat
    BY DEF SampleInv, Sample
  <2>2. horizon' \in Int
    <3>1. horizon' = horizon \/ horizon' = horizon + 1
      BY DEF SampleStep, Kind, Aside, Inserts, Lists, Deletes, GivesUp, Expires, Stays
    <3>2. horizon \in Nat
      BY DEF CallInv
    <3> QED
      BY <3>1, <3>2
  <2> QED
    BY <1>3, <2>1, <2>2
<1> QED
  BY <1>1, <1>2, <1>3 DEF NewestInv

\* Without its excess a set of samples is within the limit: a sample is told by
\* how many newer ones there are.
LEMMA KeptIsWithinLimit ==
  ASSUME SampleInv, NEW S, S \subseteq inserted
  PROVE  Cardinality(S \ Excess(S)) <= EndpointSampleLimit
<1> DEFINE T == S \ Excess(S)
           N(x) == {t \in S : Newer(t, x)}
           f == [x \in T |-> Cardinality(N(x))]
           n == EndpointSampleLimit
<1>1. IsFiniteSet(S) /\ \A x \in S : x \in Sample
  BY FS_Subset DEF SampleInv
<1>2. n \in Nat
  BY TrafficInventoryAssumption
<1>3. \A x, y \in S : x.id = y.id => x = y
  BY DEF SampleInv
<1>4. \A x \in S : x.at \in Nat /\ x.id \in Nat
  BY <1>1 DEF Sample
<1>5. ASSUME NEW x \in S
      PROVE  IsFiniteSet(N(x)) /\ Cardinality(N(x)) \in Nat
  <2>1. N(x) \subseteq S
    OBVIOUS
  <2> HIDE DEF N
  <2> QED
    BY <1>1, <2>1, FS_Subset, FS_CardinalityType
<1>6. ASSUME NEW x \in T
      PROVE  Cardinality(N(x)) \in 0..(n - 1)
  <2>1. x \in S /\ ~(Cardinality(N(x)) >= n)
    BY DEF Excess
  <2>2. Cardinality(N(x)) \in Nat
    BY <1>5, <2>1
  <2> HIDE DEF N, n
  <2> QED
    BY <1>2, <2>1, <2>2
<1>7. ASSUME NEW x \in S, NEW y \in S, Newer(x, y)
      PROVE  Cardinality(N(x)) < Cardinality(N(y))
  <2>1. x \in N(y)
    BY <1>7
  <2>2. N(x) \subseteq N(y) \ {x}
    <3>1. ASSUME NEW t \in S, Newer(t, x)
          PROVE  Newer(t, y) /\ t # x
      BY <1>4, <1>7, <3>1 DEF Newer
    <3> QED
      BY <3>1
  <2>3. /\ IsFiniteSet(N(y)) /\ Cardinality(N(y)) \in Nat
        /\ IsFiniteSet(N(x)) /\ Cardinality(N(x)) \in Nat
    BY <1>5
  <2> HIDE DEF N
  <2>4. IsFiniteSet(N(y) \ {x}) /\ Cardinality(N(y) \ {x}) = Cardinality(N(y)) - 1
    BY <2>1, <2>3, FS_RemoveElement
  <2>5. Cardinality(N(x)) <= Cardinality(N(y) \ {x})
    BY <2>2, <2>4, FS_Subset
  <2> QED
    BY <2>3, <2>4, <2>5
<1>8. f \in Injection(T, 0..(n - 1))
  <2>1. f \in [T -> 0..(n - 1)]
    BY <1>6
  <2>2. ASSUME NEW x \in T, NEW y \in T, f[x] = f[y]
        PROVE  x = y
    <3>1. Cardinality(N(x)) = Cardinality(N(y)) /\ x \in S /\ y \in S
      BY <2>2
    <3>2. Cardinality(N(x)) \in Nat
      BY <1>5, <3>1
    <3>3. ~Newer(x, y) /\ ~Newer(y, x)
      BY <1>7, <3>1, <3>2
    <3>4. x.id = y.id
      BY <1>4, <3>1, <3>3 DEF Newer
    <3> QED
      BY <1>3, <3>1, <3>4
  <2> QED
    BY <2>1, <2>2 DEF Injection, IsInjective
<1>9. IsFiniteSet(0..(n - 1)) /\ Cardinality(0..(n - 1)) <= n
  <2>1. 0 \in Int /\ n - 1 \in Int
    BY <1>2
  <2>2. /\ IsFiniteSet(0..(n - 1))
        /\ Cardinality(0..(n - 1)) = IF 0 > n - 1 THEN 0 ELSE (n - 1) - 0 + 1
    BY <2>1, FS_Interval
  <2> QED
    BY <1>2, <2>2
<1> HIDE DEF f, T
<1>10. IsFiniteSet(T) /\ Cardinality(T) <= Cardinality(0..(n - 1))
  BY <1>8, <1>9, FS_Injection
<1>11. Cardinality(T) \in Nat /\ Cardinality(0..(n - 1)) \in Nat
  BY <1>9, <1>10, FS_CardinalityType
<1>12. Cardinality(T) <= n
  BY <1>2, <1>9, <1>10, <1>11
<1> QED
  BY <1>12 DEF T

\* The bound for samples S while calls P are between insert and prune.
Within(S, P, m) == Cardinality(S) <= EndpointSampleLimit + Cardinality(P) + m

\* It stays when there are no more samples, no fewer calls and no fewer faults.
LEMMA FewerSamples ==
  ASSUME NEW S, IsFiniteSet(S), NEW T, T \subseteq S, NEW P, IsFiniteSet(P), NEW Q, Q \subseteq P,
         NEW m \in Nat, NEW k \in Nat, Within(S, Q, m), k >= m
  PROVE  Within(T, P, k)
<1>1. /\ IsFiniteSet(T) /\ Cardinality(T) <= Cardinality(S)
      /\ IsFiniteSet(Q) /\ Cardinality(Q) <= Cardinality(P)
  BY FS_Subset
<1>2. /\ Cardinality(S) \in Nat /\ Cardinality(T) \in Nat
      /\ Cardinality(P) \in Nat /\ Cardinality(Q) \in Nat
  BY <1>1, FS_CardinalityType
<1> QED
  BY <1>1, <1>2, TrafficInventoryAssumption DEF Within

LEMMA OneMoreSample ==
  ASSUME NEW S, IsFiniteSet(S), NEW s, NEW T, T \subseteq S \union {s}
  PROVE  IsFiniteSet(T) /\ Cardinality(T) \in Nat /\ Cardinality(T) <= Cardinality(S) + 1
<1>1. /\ IsFiniteSet(S \union {s}) /\ Cardinality(S) \in Nat
      /\ Cardinality(S \union {s}) = IF s \in S THEN Cardinality(S) ELSE Cardinality(S) + 1
  BY FS_AddElement, FS_CardinalityType
<1>2. IsFiniteSet(T) /\ Cardinality(T) <= Cardinality(S \union {s})
  BY <1>1, FS_Subset
<1>3. Cardinality(T) \in Nat
  BY <1>2, FS_CardinalityType
<1> QED
  BY <1>1, <1>2, <1>3

\* A sample more is made up for by a call more, or by a fault, and a call less by a fault.
LEMMA SampleAndCall ==
  ASSUME NEW S, IsFiniteSet(S), NEW s, NEW T, T \subseteq S \union {s},
         NEW P, IsFiniteSet(P), NEW a, a \notin P, NEW m \in Nat, Within(S, P, m)
  PROVE  Within(T, P \union {a}, m)
<1>1. Cardinality(P \union {a}) = Cardinality(P) + 1 /\ Cardinality(P) \in Nat
  BY FS_AddElement, FS_CardinalityType
<1>2. Cardinality(S) \in Nat
  BY FS_CardinalityType
<1>3. Cardinality(T) \in Nat /\ Cardinality(T) <= Cardinality(S) + 1
  BY OneMoreSample
<1> QED
  BY <1>1, <1>2, <1>3, TrafficInventoryAssumption DEF Within

LEMMA SampleAndFault ==
  ASSUME NEW S, IsFiniteSet(S), NEW s, NEW T, T \subseteq S \union {s},
         NEW P, IsFiniteSet(P), NEW m \in Nat, Within(S, P, m)
  PROVE  Within(T, P, m + 1)
<1>1. Cardinality(P) \in Nat /\ Cardinality(S) \in Nat
  BY FS_CardinalityType
<1>2. Cardinality(T) \in Nat /\ Cardinality(T) <= Cardinality(S) + 1
  BY OneMoreSample
<1> QED
  BY <1>1, <1>2, TrafficInventoryAssumption DEF Within

LEMMA FaultForCall ==
  ASSUME NEW S, IsFiniteSet(S), NEW P, IsFiniteSet(P), NEW a, NEW m \in Nat, Within(S, P, m)
  PROVE  Within(S, P \ {a}, m + 1)
<1>1. Cardinality(P) \in Nat /\ Cardinality(S) \in Nat
  BY FS_CardinalityType
<1>2. Cardinality(P \ {a}) = IF a \in P THEN Cardinality(P) - 1 ELSE Cardinality(P)
  BY FS_RemoveElement
<1> QED
  BY <1>1, <1>2, TrafficInventoryAssumption DEF Within

\* For the collection and endpoint of RoomInv a step of any kind is one of these:
\* it leaves the calls alone, adds one, or ends one.
LEMMA CallsOutside ==
  ASSUME CallInv, NEW a \in Analyzers, Outside(a), NEW coll \in Collections, NEW fp
  PROVE  /\ Pruning(coll, fp)' = Pruning(coll, fp) \ {a}
         /\ Deleting(coll, fp)' = Deleting(coll, fp) \ {a}
         /\ \A A \in SUBSET (Analyzers \ {a}) : Doomed(A)' = Doomed(A)
<1>1. proc'[a].coll # coll
  BY DEF Outside, Collections
<1>2. \A b \in Analyzers : b # a => proc'[b] = proc[b]
  BY DEF Outside
<1>3. Pruning(coll, fp)' = Pruning(coll, fp) \ {a}
  BY <1>1, <1>2 DEF Pruning, Fp
<1>4. Deleting(coll, fp)' = Deleting(coll, fp) \ {a}
  BY <1>1, <1>2 DEF Deleting, Pruning, Fp
<1>5. ASSUME NEW A \in SUBSET (Analyzers \ {a})
      PROVE  Doomed(A)' = Doomed(A)
  BY <1>2 DEF Doomed
<1> QED
  BY <1>3, <1>4, <1>5

LEMMA NoPrune ==
  ASSUME NEW a \in Analyzers, proc[a].coll = "", NEW coll \in Collections, NEW fp
  PROVE  a \notin Pruning(coll, fp)
  BY DEF Pruning, Collections

LEMMA RoomIsFinite ==
  ASSUME SampleInv, NEW coll, NEW fp
  PROVE  /\ Stored(coll, fp) \subseteq inserted /\ IsFiniteSet(Stored(coll, fp))
         /\ Pruning(coll, fp) \subseteq Analyzers /\ IsFiniteSet(Pruning(coll, fp))
<1>1. Stored(coll, fp) \subseteq inserted /\ Pruning(coll, fp) \subseteq Analyzers
  BY DEF Stored, Ever, Pruning
<1>2. IsFiniteSet(inserted) /\ IsFiniteSet(Analyzers)
  BY TrafficInventoryAssumption DEF SampleInv
<1> QED
  BY <1>1, <1>2, FS_Subset

LEMMA RoomStep ==
  ASSUME CallInv, SampleInv, SampleInv', RoomInv, SampleStep, faults' \in Nat
  PROVE  RoomInv'
<1> SUFFICES ASSUME NEW c \in Collections, NEW l \in DOMAIN Logs,
                    NEW A, A \subseteq Deleting(c, FingerprintOf[l])'
             PROVE  Within(Stored(c, FingerprintOf[l])' \ Doomed(A)',
                           Pruning(c, FingerprintOf[l])' \ A, faults')
  BY DEF RoomInv, Within
<1> DEFINE fp == FingerprintOf[l]
           S == Stored(c, fp)
           P == Pruning(c, fp)
<1>0. faults \in Nat /\ faults >= faults
  <2>1. faults \in Nat
    BY DEF CallInv
  <2> QED
    BY <2>1
<1>1. \A B \in SUBSET Deleting(c, fp) : Within(S \ Doomed(B), P \ B, faults)
  BY DEF RoomInv, Within
<1>2. /\ S \subseteq inserted /\ IsFiniteSet(S) /\ P \subseteq Analyzers /\ IsFiniteSet(P)
      /\ Deleting(c, fp) \subseteq P
  BY RoomIsFinite DEF Deleting
<1>3. \A B : IsFiniteSet(S \ B) /\ IsFiniteSet(P \ B)
  BY <1>2, FS_Difference
<1>4. IsFiniteSet(P' \ A)
  <2>1. P' \ A \subseteq Analyzers
    BY DEF Pruning
  <2> QED
    BY <2>1, FS_Subset, TrafficInventoryAssumption
<1>5. ASSUME UNCHANGED proc, S' \subseteq S, faults' >= faults
      PROVE  Within(S' \ Doomed(A)', P' \ A, faults')
  <2>1. P' = P /\ Deleting(c, fp)' = Deleting(c, fp) /\ Doomed(A)' = Doomed(A)
    BY <1>5 DEF Pruning, Deleting, Doomed, Fp
  <2>2. Within(S \ Doomed(A), P \ A, faults)
    BY <1>1, <2>1
  <2> HIDE DEF S, P
  <2> QED
    BY <1>0, <1>3, <1>5, <2>1, <2>2, FewerSamples
<1>6. CASE Expires
  <2>1. UNCHANGED proc /\ UNCHANGED inserted /\ samples' \subseteq samples /\ faults' >= faults
    BY <1>0, <1>6 DEF Expires
  <2>2. S' \subseteq S
    BY <2>1 DEF Stored, Ever
  <2> QED
    BY <1>5, <2>1, <2>2
<1>7. CASE Stays
  <2>1. S' = S
    BY <1>7 DEF Stays, Stored, Ever
  <2> QED
    BY <1>5, <1>7, <2>1 DEF Stays
<1>8. ASSUME NEW a \in Analyzers, Aside(a)
      PROVE  Within(S' \ Doomed(A)', P' \ A, faults')
  <2>1. Outside(a) /\ a \notin P /\ faults' >= faults
    BY <1>8, NoPrune DEF Aside
  <2>2. P' = P \ {a} /\ Deleting(c, fp)' = Deleting(c, fp) \ {a}
        /\ \A B \in SUBSET (Analyzers \ {a}) : Doomed(B)' = Doomed(B)
    BY <2>1, CallsOutside
  <2>3. S' = S
    BY <1>8 DEF Aside, Stored, Ever
  <2>4. A \subseteq Deleting(c, fp) /\ A \subseteq Analyzers \ {a}
    BY <1>2, <2>2
  <2>5. Within(S \ Doomed(A), P \ A, faults) /\ Doomed(A)' = Doomed(A) /\ P' = P
    BY <1>1, <2>1, <2>2, <2>4
  <2> HIDE DEF S, P
  <2> QED
    BY <1>0, <1>3, <2>1, <2>3, <2>5, FewerSamples
<1>9. ASSUME NEW a \in Analyzers, GivesUp(a)
      PROVE  Within(S' \ Doomed(A)', P' \ A, faults')
  <2>1. Outside(a) /\ faults' = faults + 1
    BY <1>9 DEF GivesUp
  <2>2. P' = P \ {a} /\ Deleting(c, fp)' = Deleting(c, fp) \ {a}
        /\ \A B \in SUBSET (Analyzers \ {a}) : Doomed(B)' = Doomed(B)
    BY <2>1, CallsOutside
  <2>3. S' = S
    BY <1>9 DEF GivesUp, Stored, Ever
  <2>4. A \subseteq Deleting(c, fp) /\ A \subseteq Analyzers \ {a}
    BY <1>2, <2>2
  <2>5. Within(S \ Doomed(A), P \ A, faults) /\ Doomed(A)' = Doomed(A)
    BY <1>1, <2>2, <2>4
  <2>6. P' \ A = (P \ A) \ {a}
    BY <2>2
  <2> HIDE DEF S, P
  <2> QED
    BY <1>0, <1>3, <2>1, <2>3, <2>5, <2>6, FaultForCall
<1>10. ASSUME NEW a \in Analyzers, NEW s \in Sample, Inserts(a, s)
       PROVE  Within(S' \ Doomed(A)', P' \ A, faults')
  <2>1. a \notin P
    BY <1>10, NoPrune DEF Inserts
  <2>2. S' \subseteq S \union {s}
    BY <1>10 DEF Inserts, Stored, Ever
  <2>3. CASE Outside(a) /\ faults' = faults + 1
    <3>1. P' = P \ {a} /\ Deleting(c, fp)' = Deleting(c, fp) \ {a}
          /\ \A B \in SUBSET (Analyzers \ {a}) : Doomed(B)' = Doomed(B)
      BY <2>3, CallsOutside
    <3>2. A \subseteq Deleting(c, fp) /\ A \subseteq Analyzers \ {a}
      BY <1>2, <3>1
    <3>3. Within(S \ Doomed(A), P \ A, faults) /\ Doomed(A)' = Doomed(A) /\ P' = P
      BY <1>1, <2>1, <3>1, <3>2
    <3>4. S' \ Doomed(A)' \subseteq (S \ Doomed(A)) \union {s}
      BY <2>2, <3>3
    <3> HIDE DEF S, P
    <3> QED
      BY <1>0, <1>3, <2>3, <3>3, <3>4, SampleAndFault
  <2>4. CASE Becomes(a, "find", {}, s.coll) /\ Fp(a)' = Fp(a) /\ UNCHANGED faults
    <3>1. /\ \A b \in Analyzers : b # a => proc'[b] = proc[b]
          /\ proc'[a].pc = "find" /\ proc'[a].coll = s.coll
      BY <2>4 DEF Becomes
    <3>2. Deleting(c, fp)' = Deleting(c, fp)
      <4>1. a \notin Deleting(c, fp) /\ a \notin Deleting(c, fp)'
        BY <2>1, <3>1 DEF Deleting
      <4> QED
        BY <3>1, <4>1 DEF Deleting, Pruning, Fp
    <3>3. A \subseteq Deleting(c, fp) /\ a \notin A
      BY <1>2, <2>1, <3>2
    <3>4. Doomed(A)' = Doomed(A)
      BY <1>2, <3>1, <3>3 DEF Doomed
    <3>5. Within(S \ Doomed(A), P \ A, faults)
      BY <1>1, <3>3
    <3>6. CASE s.coll = c /\ s.fp = fp
      <4>1. P' = P \union {a}
        <5>1. proc'[a].coll = c /\ Fp(a)' = fp
          BY <1>10, <2>4, <3>1, <3>6 DEF Inserts
        <5> QED
          BY <3>1, <5>1 DEF Pruning, Fp
      <4>2. P' \ A = (P \ A) \union {a} /\ a \notin P \ A
        BY <2>1, <3>3, <4>1
      <4>3. S' \ Doomed(A)' \subseteq (S \ Doomed(A)) \union {s}
        BY <2>2, <3>4
      <4> HIDE DEF S, P
      <4>4. Within(S' \ Doomed(A)', (P \ A) \union {a}, faults)
        BY <1>0, <1>3, <3>5, <4>2, <4>3, SampleAndCall
      <4> QED
        BY <2>4, <4>2, <4>4
    <3>7. CASE ~(s.coll = c /\ s.fp = fp)
      <4>1. S' = S
        BY <1>10, <3>7 DEF Inserts, Stored, Ever
      <4>2. P' = P
        <5>1. ~(proc'[a].coll = c /\ Fp(a)' = fp)
          BY <1>10, <2>4, <3>1, <3>7 DEF Inserts
        <5> QED
          BY <2>1, <3>1, <5>1 DEF Pruning, Fp
      <4> QED
        BY <2>4, <3>4, <3>5, <4>1, <4>2
    <3> QED
      BY <3>6, <3>7
  <2> QED
    BY <1>10, <2>3, <2>4 DEF Inserts
<1>11. ASSUME NEW a \in Analyzers, Deletes(a)
       PROVE  Within(S' \ Doomed(A)', P' \ A, faults')
  <2>1. Outside(a) /\ faults' >= faults
    BY <1>11 DEF Deletes
  <2>2. P' = P \ {a} /\ Deleting(c, fp)' = Deleting(c, fp) \ {a}
        /\ \A B \in SUBSET (Analyzers \ {a}) : Doomed(B)' = Doomed(B)
    BY <2>1, CallsOutside
  <2>3. S' = S \ proc[a].ids
    BY <1>11 DEF Deletes, Stored, Ever
  <2>4. A \subseteq Deleting(c, fp) /\ A \subseteq Analyzers \ {a} /\ Doomed(A)' = Doomed(A)
    BY <1>2, <2>2
  <2>5. CASE a \in P
    <3>1. A \union {a} \subseteq Deleting(c, fp)
      BY <1>11, <2>4, <2>5 DEF Deletes, Deleting
    <3>2. Doomed(A \union {a}) = Doomed(A) \union proc[a].ids
      BY DEF Doomed
    <3>3. S' \ Doomed(A)' = S \ Doomed(A \union {a}) /\ P' \ A = P \ (A \union {a})
      BY <2>2, <2>3, <2>4, <3>2
    <3>4. Within(S \ Doomed(A \union {a}), P \ (A \union {a}), faults)
      BY <1>1, <3>1
    <3> HIDE DEF S, P
    <3> QED
      BY <1>0, <1>3, <2>1, <3>3, <3>4, FewerSamples
  <2>6. CASE a \notin P
    <3>1. S' \ Doomed(A)' \subseteq S \ Doomed(A) /\ P' \ A = P \ A
      BY <2>2, <2>3, <2>4, <2>6
    <3>2. Within(S \ Doomed(A), P \ A, faults)
      BY <1>1, <2>4
    <3> HIDE DEF S, P
    <3> QED
      BY <1>0, <1>3, <2>1, <3>1, <3>2, FewerSamples
  <2> QED
    BY <2>5, <2>6
<1>12. ASSUME NEW a \in Analyzers, Lists(a)
       PROVE  Within(S' \ Doomed(A)', P' \ A, faults')
  <2> DEFINE excess == Excess(Stored(proc[a].coll, Fp(a)))
  <2>1. proc[a].pc = "find" /\ UNCHANGED <<samples, inserted, faults>>
    BY <1>12 DEF Lists
  <2>2. S' = S
    BY <2>1 DEF Stored, Ever
  <2>3. Within(S \ Excess(S), P' \ A, faults)
    <3>1. Cardinality(S \ Excess(S)) <= EndpointSampleLimit
      BY <1>2, KeptIsWithinLimit
    <3>2. Cardinality(S \ Excess(S)) \in Nat /\ Cardinality(P' \ A) \in Nat
      BY <1>3, <1>4, FS_CardinalityType
    <3> HIDE DEF S, P
    <3> QED
      BY <1>0, <3>1, <3>2, TrafficInventoryAssumption DEF Within
  <2>4. CASE excess = {} /\ Outside(a)
    <3>1. P' = P \ {a} /\ Deleting(c, fp)' = Deleting(c, fp) \ {a}
          /\ \A B \in SUBSET (Analyzers \ {a}) : Doomed(B)' = Doomed(B)
      BY <2>4, CallsOutside
    <3>2. A \subseteq Deleting(c, fp) /\ A \subseteq Analyzers \ {a} /\ Doomed(A)' = Doomed(A)
      BY <1>2, <3>1
    <3>3. CASE a \in P
      <4>1. Excess(S) = {}
        BY <2>4, <3>3 DEF Pruning
      <4>2. S' \ Doomed(A)' \subseteq S \ Excess(S)
        BY <2>2, <4>1
      <4> HIDE DEF S, P
      <4> QED
        BY <1>0, <1>3, <1>4, <2>1, <2>3, <4>2, FewerSamples
    <3>4. CASE a \notin P
      <4>1. Within(S \ Doomed(A), P \ A, faults) /\ P' = P
        BY <1>1, <3>1, <3>2, <3>4
      <4> QED
        BY <2>1, <2>2, <3>2, <4>1
    <3> QED
      BY <3>3, <3>4
  <2>5. CASE Becomes(a, "delete", excess, proc[a].coll) /\ Fp(a)' = Fp(a)
    <3>1. /\ \A b \in Analyzers : b # a => proc'[b] = proc[b]
          /\ proc'[a].coll = proc[a].coll /\ proc'[a].ids = excess
      BY <2>5 DEF Becomes
    <3>2. P' = P
      BY <2>5, <3>1 DEF Pruning, Fp
    <3>3. CASE a \in A
      <4>1. a \in P /\ excess = Excess(S)
        <5>1. a \in P'
          BY <3>3 DEF Deleting
        <5>2. a \in P
          BY <3>2, <5>1
        <5> QED
          BY <5>2 DEF Pruning
      <4>2. Excess(S) \subseteq Doomed(A)'
        BY <3>1, <3>3, <4>1 DEF Doomed
      <4>3. S' \ Doomed(A)' \subseteq S \ Excess(S)
        BY <2>2, <4>2
      <4> HIDE DEF S, P
      <4> QED
        BY <1>0, <1>3, <1>4, <2>1, <2>3, <4>3, FewerSamples
    <3>4. CASE a \notin A
      <4>1. A \subseteq Analyzers
        BY DEF Deleting, Pruning
      <4>2. A \subseteq Deleting(c, fp)
        BY <3>1, <3>4, <4>1 DEF Deleting, Pruning, Fp
      <4>3. Doomed(A)' = Doomed(A)
        BY <3>1, <3>4, <4>1 DEF Doomed
      <4>4. Within(S \ Doomed(A), P \ A, faults)
        BY <1>1, <4>2
      <4> QED
        BY <2>1, <2>2, <3>2, <4>3, <4>4
    <3> QED
      BY <3>3, <3>4
  <2> QED
    BY <1>12, <2>4, <2>5 DEF Lists
<1> QED
  BY <1>6, <1>7, <1>8, <1>9, <1>10, <1>11, <1>12 DEF SampleStep, Kind

-----------------------------------------------------------------------------
(* The headers on their way to a suite. *)

\* A capped push keeps the kind of its values.
LEMMA CappedPush ==
  ASSUME NEW S, NEW values \in Seq(S), NEW pushed \in Seq(S)
  PROVE  cappedPush(values, pushed) \in Seq(S)
<1> DEFINE all == values \o pushed
           m == IF Len(all) > PushLimit THEN Len(all) - PushLimit + 1 ELSE 1
<1>1. all \in Seq(S) /\ Len(all) \in Nat
  BY ConcatProperties, LenProperties
<1>2. m \in Int /\ m >= 1
  BY <1>1, TrafficInventoryAssumption
<1>3. \A i \in m..Len(all) : all[i] \in S
  <2>1. ASSUME NEW i \in m..Len(all)
        PROVE  all[i] \in S
    <3>1. i \in 1..Len(all)
      BY <1>1, <1>2
    <3> HIDE DEF all
    <3> QED
      BY <1>1, <3>1, ElementOfSeq
  <2> QED
    BY <2>1
<1> HIDE DEF all, m
<1>4. SubSeq(all, m, Len(all)) \in Seq(S)
  BY <1>1, <1>2, <1>3, SubSeqProperties
<1> QED
  BY <1>4 DEF cappedPush, all, m

\* The first value of a sequence, if any.
LEMMA FirstOfSeq ==
  ASSUME NEW S, NEW values \in Seq(S)
  PROVE  firstValue(values) \in Seq(S)
<1> DEFINE n == IF values = << >> THEN 0 ELSE 1
<1>1. n \in Int /\ 1 \in Int
  OBVIOUS
<1>2. \A i \in 1..n : values[i] \in S
  <2>1. CASE values = << >>
    BY <2>1
  <2>2. CASE values # << >>
    <3>1. Len(values) \in Nat \ {0}
      BY <2>2, EmptySeq
    <3>2. 1 \in 1..Len(values)
      BY <3>1
    <3>3. values[1] \in S
      BY <3>2, ElementOfSeq
    <3> QED
      BY <2>2, <3>3
  <2> QED
    BY <2>1, <2>2
<1> HIDE DEF n
<1>3. SubSeq(values, 1, n) \in Seq(S)
  BY <1>1, <1>2, SubSeqProperties
<1> QED
  BY <1>3 DEF n, firstValue

\* A sequence over a set is one over every larger set.
LEMMA LargerSeq ==
  ASSUME NEW S, NEW T, S \subseteq T, NEW values \in Seq(S)
  PROVE  values \in Seq(T)
<1>1. Len(values) \in Nat /\ DOMAIN values = 1..Len(values)
  BY LenProperties
<1>2. \A i \in 1..Len(values) : values[i] \in T
  BY <1>1, ElementOfSeq
<1>3. values = [i \in 1..Len(values) |-> values[i]]
  BY <1>1, SeqDef
<1>4. values \in [1..Len(values) -> T]
  BY <1>2, <1>3
<1> QED
  BY <1>1, <1>4, SeqDef

\* UpdateInventory pushes only redacted values (saveInventory).
LEMMA PushedValues ==
  ASSUME CallInv, NEW a \in Analyzers, NEW headers, NEW T, NEW name \in HeaderNames,
         headers[name] \in Seq(T), SafeField(name) \subseteq T
  PROVE  PushedHeaders(a, headers)[name] \in Seq(T)
<1> DEFINE values == ReqHeaders[proc[a].log][name]
<1>1. proc[a].log \in DOMAIN Logs
  BY DEF CallInv, CallState
<1>2. values = HeaderValues(Logs[proc[a].log], name)
  BY <1>1 DEF ReqHeaders
<1>3. HeaderValues(Logs[proc[a].log], name) \in Seq(SafeField(name))
  BY <1>1, StoredValues, CatalogAssumption
<1>4. values \in Seq(T)
  BY <1>2, <1>3, LargerSeq
<1>5. PushedHeaders(a, headers)[name] = cappedPush(headers[name], firstValue(values))
  BY DEF PushedHeaders
<1> HIDE DEF values
<1>6. firstValue(values) \in Seq(T)
  BY <1>4, FirstOfSeq
<1> HIDE DEF values
<1> QED
  BY <1>5, <1>6, CappedPush

LEMMA UpdatedHeaders ==
  ASSUME CallInv, NEW a \in Analyzers, NEW doc, SafeDocument(doc)
  PROVE  SafeDocument(UpdatedDocument(a, doc))
<1>1. /\ "headers" \in DOMAIN UpdatedDocument(a, doc)
      /\ UpdatedDocument(a, doc).headers = PushedHeaders(a, doc.headers)
  BY DEF UpdatedDocument
<1>2. DOMAIN PushedHeaders(a, doc.headers) = HeaderNames
  BY DEF PushedHeaders
<1>3. ASSUME NEW name \in HeaderNames
      PROVE  PushedHeaders(a, doc.headers)[name] \in Seq(SafeField(name))
  <2>1. doc.headers[name] \in Seq(SafeField(name))
    BY DEF SafeDocument, SafeHeaders
  <2> QED
    BY <2>1, PushedValues
<1> QED
  BY <1>1, <1>2, <1>3 DEF SafeDocument, SafeHeaders

\* What a call does to the documents of endpoints.
LEMMA DocumentsKept ==
  ASSUME CallInv, NEW a \in Analyzers, Analyze(a),
         DOMAIN inventory \subseteq Range(FingerprintOf),
         \A fp \in DOMAIN inventory : SafeDocument(inventory[fp])
  PROVE  /\ DOMAIN inventory' \subseteq Range(FingerprintOf)
         /\ \A fp \in DOMAIN inventory' : SafeDocument(inventory'[fp])
<1>1. UNCHANGED inventory \/ \E outcome \in Outcomes : UpdateInventory(a, outcome)
  BY DEF Analyze, ProcessLog, UpsertParameters, InsertSample, FindExcess, DeleteExcess,
     RecordMetrics, SkipSample, Crash
<1>2. CASE UNCHANGED inventory
  BY <1>2
<1>3. ASSUME NEW outcome \in Outcomes, UpdateInventory(a, outcome)
      PROVE  /\ DOMAIN inventory' \subseteq Range(FingerprintOf)
             /\ \A fp \in DOMAIN inventory' : SafeDocument(inventory'[fp])
  <2> DEFINE old == IF Fp(a) \in DOMAIN inventory THEN inventory[Fp(a)] ELSE NewDocument(a)
             new == UpdatedDocument(a, old)
  <2>1. inventory' = IF Applied(outcome)
                     THEN [fp \in DOMAIN inventory \union {Fp(a)} |->
                               IF fp = Fp(a) THEN new ELSE inventory[fp]]
                     ELSE inventory
    BY <1>3 DEF UpdateInventory
  <2>2. SafeDocument(old)
    <3>1. CASE Fp(a) \in DOMAIN inventory
      BY <3>1
    <3>2. CASE Fp(a) \notin DOMAIN inventory
      <4>1. old = NewDocument(a)
        BY <3>2
      <4>2. /\ "headers" \in DOMAIN NewDocument(a)
            /\ NewDocument(a).headers = [name \in HeaderNames |-> << >>]
        BY DEF NewDocument
      <4> HIDE DEF old
      <4> QED
        BY <4>1, <4>2, EmptySeq DEF SafeDocument, SafeHeaders
    <3> QED
      BY <3>1, <3>2
  <2> HIDE DEF old
  <2>3. SafeDocument(new)
    BY <2>2, UpdatedHeaders
  <2>4. Fp(a) \in Range(FingerprintOf)
    BY DEF Fp, Range, FingerprintOf, CallInv, CallState
  <2> HIDE DEF new, Fp
  <2>5. CASE Applied(outcome)
    <3>1. /\ DOMAIN inventory' = {Fp(a)} \union DOMAIN inventory
          /\ inventory'[Fp(a)] = new
          /\ \A fp \in DOMAIN inventory : fp # Fp(a) => inventory'[fp] = inventory[fp]
      BY <2>1, <2>5
    <3> QED
      BY <2>3, <2>4, <3>1
  <2> QED
    BY <2>1, <2>5
<1> QED
  BY <1>1, <1>2, <1>3

\* The request and the document it reads (handleTriggerSuite).
LEMMA TriggeredSuite ==
  ASSUME AuthInv, NEW req \in SuiteRequests, NEW fp \in DOMAIN inventory, TriggerSuite(req, fp)
  PROVE  /\ SafeSuite' /\ suite'.pc = "sample" /\ suite'.jobs = {}
         /\ suite'.selected = {} /\ suite'.skipped = {}
<1> DEFINE q == [NoSuite EXCEPT !.pc = "sample"]
           r == [q EXCEPT !.req = req]
           t == [r EXCEPT !.target = Target(fp)]
<1>1. suite' = t
  BY DEF TriggerSuite
<1>2. DOMAIN q = SuiteFields /\ q.pc = "sample" /\ q.jobs = {}
      /\ q.selected = {} /\ q.skipped = {}
  BY DEF NoSuite, SuiteFields
<1> HIDE DEF q
<1>3. DOMAIN r = SuiteFields /\ r.pc = "sample" /\ r.jobs = {}
      /\ r.selected = {} /\ r.skipped = {} /\ r.req = req
  BY <1>2 DEF SuiteFields
<1> HIDE DEF r
<1>4. /\ DOMAIN t = SuiteFields /\ t.pc = "sample" /\ t.jobs = {}
      /\ t.selected = {} /\ t.skipped = {} /\ t.req = req
      /\ t.target = Target(fp)
  BY <1>3 DEF SuiteFields
<1> HIDE DEF t
<1>5. DOMAIN Target(fp) = TargetFields /\ Target(fp).headers = inventory[fp].headers
  BY DEF Target, TargetFields
<1>6. SafeHeaders(inventory[fp].headers)
  BY DEF AuthInv, SafeDocument
<1> QED
  BY <1>1, <1>4, <1>5, <1>6 DEF SafeSuite

\* The sample's headers replace what the document says.
LEMMA SampledTarget ==
  ASSUME NEW target, DOMAIN target = TargetFields, SafeHeaders(target.headers),
         NEW l \in DOMAIN Logs
  PROVE  /\ DOMAIN ApplyTrafficSampleToInventory(target, l) = TargetFields
         /\ SafeHeaders(ApplyTrafficSampleToInventory(target, l).headers)
<1> DEFINE sent == \E name \in HeaderNames : ReqHeaders[l][name] # << >>
           headers == IF sent THEN ReqHeaders[l] ELSE target.headers
           body == IF sampleExcerpt(Logs[l]) = "" THEN target.body ELSE sampleExcerpt(Logs[l])
           path == IF Logs[l].path = << >> THEN target.path ELSE Logs[l].path
           q == [target EXCEPT !.body = body]
           r == [q EXCEPT !.headers = headers]
           t == [r EXCEPT !.path = path]
<1>1. SafeHeaders(headers)
  <2>1. ReqHeaders[l] = [name \in HeaderNames |-> HeaderValues(Logs[l], name)]
    BY DEF ReqHeaders
  <2>2. \A name : HeaderValues(Logs[l], name) \in Seq(SafeField(name))
    BY StoredValues, CatalogAssumption
  <2>3. SafeHeaders(ReqHeaders[l])
    BY <2>1, <2>2 DEF SafeHeaders
  <2> HIDE DEF sent
  <2> QED
    BY <2>3
<1>2. ApplyTrafficSampleToInventory(target, l) = t
  <2>1. q.headers = target.headers /\ r.path = target.path
    BY DEF TargetFields
  <2> QED
    BY <2>1 DEF ApplyTrafficSampleToInventory
<1> HIDE DEF headers, body, path
<1>3. DOMAIN q = TargetFields
  OBVIOUS
<1> HIDE DEF q
<1>4. DOMAIN r = TargetFields /\ r.headers = headers
  BY <1>3 DEF TargetFields
<1> HIDE DEF r
<1>5. DOMAIN t = TargetFields /\ t.headers = headers
  BY <1>4 DEF TargetFields
<1> QED
  BY <1>1, <1>2, <1>5

LEMMA SampledSuite ==
  ASSUME AuthInv, SampleInv, NEW outcome, ApplyLatestTrafficSample(outcome)
  PROVE  /\ SafeSuite' /\ suite'.pc = "plan" /\ suite'.jobs = {}
         /\ suite'.selected = suite.selected /\ suite'.skipped = suite.skipped
<1>1. /\ suite.pc = "sample" /\ suite.jobs = {}
      /\ DOMAIN suite = SuiteFields /\ suite.req \in SuiteRequests
      /\ DOMAIN suite.target = TargetFields /\ SafeHeaders(suite.target.headers)
  BY DEF AuthInv, SafeSuite, ApplyLatestTrafficSample
<1> DEFINE q == [suite EXCEPT !.pc = "plan"]
<1>2. /\ DOMAIN q = SuiteFields /\ q.pc = "plan" /\ q.jobs = {} /\ q.req = suite.req
      /\ q.selected = suite.selected /\ q.skipped = suite.skipped
      /\ q.target = suite.target
  BY <1>1 DEF SuiteFields
<1>3. CASE suite' = [suite EXCEPT !.pc = "plan"]
  BY <1>1, <1>2, <1>3 DEF SafeSuite
<1>4. ASSUME NEW s \in samples,
             suite' = [suite EXCEPT !.pc = "plan",
                         !.target = ApplyTrafficSampleToInventory(@, s.log)]
      PROVE  /\ SafeSuite' /\ suite'.pc = "plan" /\ suite'.jobs = {}
             /\ suite'.selected = suite.selected /\ suite'.skipped = suite.skipped
  <2> DEFINE target == ApplyTrafficSampleToInventory(suite.target, s.log)
             t == [q EXCEPT !.target = target]
  <2>1. s.log \in DOMAIN Logs
    BY DEF SampleInv, Sample
  <2>2. DOMAIN target = TargetFields /\ SafeHeaders(target.headers)
    BY <1>1, <2>1, SampledTarget
  <2>3. suite' = t
    BY <1>2, <1>4
  <2> HIDE DEF q, target
  <2>4. /\ DOMAIN t = SuiteFields /\ t.pc = "plan" /\ t.jobs = {} /\ t.req = suite.req
        /\ t.selected = suite.selected /\ t.skipped = suite.skipped
        /\ t.target = target
    BY <1>2 DEF SuiteFields
  <2> HIDE DEF t
  <2> QED
    BY <1>1, <2>2, <2>3, <2>4 DEF SafeSuite
<1>5. \/ suite' = [suite EXCEPT !.pc = "plan"]
      \/ \E s \in samples :
           suite' = [suite EXCEPT !.pc = "plan",
                       !.target = ApplyTrafficSampleToInventory(@, s.log)]
  BY DEF ApplyLatestTrafficSample, LatestSamples
<1> QED
  BY <1>3, <1>4, <1>5

\* What an answer or an error consists of.
LEMMA AnsweredSuite ==
  ASSUME AuthInv, NEW lost, NEW misreported, EnqueueSuiteJobs(lost, misreported)
  PROVE  LET reported == Planned \ lost
         IN  /\ Chosen.selected # {} /\ lost \subseteq Planned /\ misreported \subseteq lost
             /\ DOMAIN suite' = SuiteFields
             /\ suite'.pc = IF reported = {} THEN "failed" ELSE "answered"
             /\ suite'.req = suite.req /\ suite'.target = suite.target
             /\ suite'.lost = lost /\ suite'.misreported = misreported
             /\ suite'.selected = Chosen.selected /\ suite'.reported = reported
             /\ suite'.skipped = IF reported = {} THEN {}
                                 ELSE Chosen.skipped \union (Chosen.selected \ reported)
             /\ suite'.jobs = {BuildScanConfig(t, suite.target, suite.req) :
                                  t \in reported \union misreported}
<1> DEFINE reported == Planned \ lost
           pc == IF reported = {} THEN "failed" ELSE "answered"
           skipped == IF reported = {} THEN {}
                      ELSE Chosen.skipped \union (Chosen.selected \ reported)
           jobs == {BuildScanConfig(t, suite.target, suite.req) : t \in reported \union misreported}
           q == [suite EXCEPT !.pc = pc]
           r == [q EXCEPT !.selected = Chosen.selected]
           t == [r EXCEPT !.skipped = skipped]
           u == [t EXCEPT !.reported = reported]
           v == [u EXCEPT !.jobs = jobs]
           w == [v EXCEPT !.lost = lost]
           x == [w EXCEPT !.misreported = misreported]
<1>1. DOMAIN suite = SuiteFields
  BY DEF AuthInv, SafeSuite
<1>2. /\ Chosen.selected # {} /\ lost \subseteq Planned /\ misreported \subseteq lost
      /\ suite' = x
  BY DEF EnqueueSuiteJobs
<1> HIDE DEF pc, skipped, jobs, reported
<1>3. /\ DOMAIN q = SuiteFields /\ q.pc = pc /\ q.req = suite.req
      /\ q.target = suite.target
  BY <1>1 DEF SuiteFields
<1> HIDE DEF q
<1>4. /\ r.selected = Chosen.selected
      /\ DOMAIN r = SuiteFields /\ r.pc = pc /\ r.req = suite.req
      /\ r.target = suite.target
  BY <1>3 DEF SuiteFields
<1> HIDE DEF r
<1>5. /\ t.selected = Chosen.selected
      /\ DOMAIN t = SuiteFields /\ t.pc = pc /\ t.req = suite.req
      /\ t.target = suite.target /\ t.skipped = skipped
  BY <1>4 DEF SuiteFields
<1> HIDE DEF t
<1>6. /\ u.selected = Chosen.selected /\ u.reported = reported
      /\ DOMAIN u = SuiteFields /\ u.pc = pc /\ u.req = suite.req
      /\ u.target = suite.target /\ u.skipped = skipped
  BY <1>5 DEF SuiteFields
<1> HIDE DEF u
<1>7. /\ v.selected = Chosen.selected /\ v.reported = reported
      /\ DOMAIN v = SuiteFields /\ v.pc = pc /\ v.req = suite.req
      /\ v.target = suite.target /\ v.skipped = skipped /\ v.jobs = jobs
  BY <1>6 DEF SuiteFields
<1> HIDE DEF v
<1>8. /\ w.selected = Chosen.selected /\ w.reported = reported
      /\ DOMAIN w = SuiteFields /\ w.pc = pc /\ w.req = suite.req
      /\ w.target = suite.target /\ w.skipped = skipped /\ w.jobs = jobs /\ w.lost = lost
  BY <1>7 DEF SuiteFields
<1> HIDE DEF w
<1>9. /\ x.selected = Chosen.selected /\ x.reported = reported
      /\ DOMAIN x = SuiteFields /\ x.pc = pc /\ x.req = suite.req
      /\ x.target = suite.target /\ x.skipped = skipped /\ x.jobs = jobs /\ x.lost = lost
      /\ x.misreported = misreported
  BY <1>8 DEF SuiteFields
<1> HIDE DEF x
<1> QED
  BY <1>2, <1>9 DEF pc, skipped, jobs, reported

LEMMA AuthStep ==
  ASSUME CallInv, SampleInv, AuthInv, [Next]_vars
  PROVE  AuthInv'
<1>1. ASSUME UNCHANGED <<inventory, suite>>
      PROVE  AuthInv'
  BY <1>1 DEF AuthInv, SafeSuite
<1>2. ASSUME NEW a \in Analyzers, Analyze(a), UNCHANGED suite
      PROVE  AuthInv'
  <2>1. /\ DOMAIN inventory' \subseteq Range(FingerprintOf)
        /\ \A fp \in DOMAIN inventory' : SafeDocument(inventory'[fp])
    BY <1>2, DocumentsKept DEF AuthInv
  <2> QED
    BY <1>2, <2>1 DEF AuthInv, SafeSuite
<1>3. ASSUME NEW req \in SuiteRequests, NEW fp \in DOMAIN inventory, TriggerSuite(req, fp)
      PROVE  AuthInv'
  <2>1. UNCHANGED inventory
    BY <1>3 DEF TriggerSuite, inventoryVars
  <2>2. SafeSuite' /\ suite'.jobs = {}
    BY <1>3, TriggeredSuite
  <2> QED
    BY <2>1, <2>2 DEF AuthInv
<1>4. ASSUME NEW outcome \in Outcomes, ApplyLatestTrafficSample(outcome)
      PROVE  AuthInv'
  <2>1. UNCHANGED inventory
    BY <1>4 DEF ApplyLatestTrafficSample, inventoryVars
  <2>2. SafeSuite' /\ suite'.jobs = {}
    BY <1>4, SampledSuite
  <2> QED
    BY <2>1, <2>2 DEF AuthInv
<1>5. ASSUME NEW lost \in SUBSET FailingTypes, NEW misreported \in SUBSET lost,
             EnqueueSuiteJobs(lost, misreported)
      PROVE  AuthInv'
  <2>1. UNCHANGED inventory
    BY <1>5 DEF EnqueueSuiteJobs, inventoryVars
  <2>2. /\ DOMAIN suite' = SuiteFields /\ suite'.pc \in {"answered", "failed"}
        /\ suite'.req = suite.req /\ suite'.target = suite.target
    BY <1>5, AnsweredSuite
  <2> QED
    BY <2>1, <2>2 DEF AuthInv, SafeSuite
<1>6. CASE InventoryNext /\ UNCHANGED suite
  <2>1. CASE Expire
    BY <1>1, <1>6, <2>1 DEF Expire
  <2> QED
    BY <1>2, <1>6, <2>1 DEF InventoryNext
<1>7. CASE UNCHANGED vars
  BY <1>1, <1>7 DEF vars, inventoryVars
<1> QED
  BY <1>3, <1>4, <1>5, <1>6, <1>7 DEF Next

-----------------------------------------------------------------------------
(* The invariant. *)

\* What a step of the specification means to the samples.
LEMMA KindOfNext ==
  ASSUME CallInv, SampleInv, [Next]_vars
  PROVE  SampleStep /\ deliveries' \in Nat /\ faults' \in Nat
<1>1. deliveries \in Nat /\ faults \in Nat
  BY DEF CallInv
<1>2. faults >= faults
  BY <1>1
<1>3. ASSUME NEW a \in Analyzers, Analyze(a)
      PROVE  SampleStep /\ deliveries' \in Nat /\ faults' \in Nat
  BY <1>3, KindOfStep DEF SampleStep
<1>4. CASE Expire
  BY <1>1, <1>4 DEF SampleStep, Expires, Expire
<1>5. ASSUME NEW req \in SuiteRequests, NEW fp \in DOMAIN inventory, TriggerSuite(req, fp)
      PROVE  SampleStep /\ deliveries' \in Nat /\ faults' \in Nat
  BY <1>1, <1>2, <1>5 DEF SampleStep, Stays, TriggerSuite, inventoryVars
<1>6. ASSUME NEW outcome \in Outcomes, ApplyLatestTrafficSample(outcome)
      PROVE  SampleStep /\ deliveries' \in Nat /\ faults' \in Nat
  <2>1. Call(outcome) /\ UNCHANGED inventoryVars
    BY <1>6 DEF ApplyLatestTrafficSample
  <2>2. faults' \in Nat /\ faults' >= faults
    BY <2>1, CallFaults
  <2> QED
    BY <1>1, <2>1, <2>2 DEF SampleStep, Stays, inventoryVars
<1>7. ASSUME NEW lost \in SUBSET FailingTypes, NEW misreported \in SUBSET lost,
             EnqueueSuiteJobs(lost, misreported)
      PROVE  SampleStep /\ deliveries' \in Nat /\ faults' \in Nat
  <2>1. faults' = faults + Cardinality(lost) /\ UNCHANGED inventoryVars
    BY <1>7 DEF EnqueueSuiteJobs
  <2>2. Cardinality(lost) \in Nat
    BY CatalogAssumption, FS_Subset, FS_CardinalityType
  <2>3. faults' \in Nat /\ faults' >= faults
    BY <1>1, <2>1, <2>2
  <2> QED
    BY <1>1, <2>1, <2>3 DEF SampleStep, Stays, inventoryVars
<1>8. CASE UNCHANGED vars
  BY <1>1, <1>2, <1>8 DEF SampleStep, Stays, vars, inventoryVars
<1>9. CASE InventoryNext
  BY <1>3, <1>4, <1>9 DEF InventoryNext
<1> QED
  BY <1>5, <1>6, <1>7, <1>8, <1>9 DEF Next

CatalogInv == CallInv /\ SampleInv /\ NewestInv /\ RoomInv /\ AuthInv

LEMMA InitCatalogInv ==
  ASSUME Init
  PROVE  CatalogInv
<1>1. CallInv
  <2>1. Idle \in CallState /\ Idle.pc = "idle" /\ Idle.coll = "" /\ Idle.ids = {}
    BY IdleState DEF Idle
  <2> HIDE DEF Idle
  <2> QED
    BY <2>1 DEF Init, InventoryInit, CallInv
<1>2. SampleInv
  BY FS_EmptySet DEF Init, InventoryInit, SampleInv
<1>3. proc = [a \in Analyzers |-> Idle] /\ Idle.ids = {}
  BY DEF Init, InventoryInit, Idle
<1>4. NewestInv
  BY <1>3 DEF Init, InventoryInit, NewestInv
<1>5. RoomInv
  <2> SUFFICES ASSUME NEW coll \in Collections, NEW l \in DOMAIN Logs,
                      NEW A \in SUBSET Deleting(coll, FingerprintOf[l])
               PROVE  Cardinality(Stored(coll, FingerprintOf[l]) \ Doomed(A))
                        <= EndpointSampleLimit
                             + Cardinality(Pruning(coll, FingerprintOf[l]) \ A) + faults
    BY DEF RoomInv
  <2> DEFINE S == Stored(coll, FingerprintOf[l]) \ Doomed(A)
             P == Pruning(coll, FingerprintOf[l]) \ A
  <2>1. S = {}
    BY DEF Init, InventoryInit, Stored, Ever
  <2>2. IsFiniteSet(P)
    BY <1>2, RoomIsFinite, FS_Subset
  <2> HIDE DEF S, P
  <2>3. Cardinality(S) = 0 /\ Cardinality(P) \in Nat
    BY <2>1, <2>2, FS_EmptySet, FS_CardinalityType
  <2>4. faults = 0
    BY DEF Init, InventoryInit
  <2>5. Cardinality(S) <= EndpointSampleLimit + Cardinality(P) + faults
    BY <2>3, <2>4, TrafficInventoryAssumption
  <2> QED
    BY <2>5 DEF S, P
<1>6. AuthInv
  <2>1. DOMAIN inventory = {}
    BY DEF Init, InventoryInit
  <2>2. /\ DOMAIN suite = SuiteFields /\ suite.target = NoTarget /\ suite.jobs = {}
        /\ suite.req = CHOOSE r \in SuiteRequests : TRUE
    BY DEF Init, NoSuite, SuiteFields
  <2>3. suite.req \in SuiteRequests
    BY <2>2, CatalogAssumption
  <2>4. DOMAIN NoTarget = TargetFields /\ SafeHeaders(NoTarget.headers)
    BY EmptySeq DEF NoTarget, TargetFields, SafeHeaders
  <2> QED
    BY <2>1, <2>2, <2>3, <2>4 DEF AuthInv, SafeSuite
<1> QED
  BY <1>1, <1>2, <1>4, <1>5, <1>6 DEF CatalogInv

LEMMA CatalogInvStep ==
  ASSUME CatalogInv, [Next]_vars
  PROVE  CatalogInv'
<1>1. CallInv /\ SampleInv /\ NewestInv /\ RoomInv /\ AuthInv
  BY DEF CatalogInv
<1>2. SampleStep /\ deliveries' \in Nat /\ faults' \in Nat
  BY <1>1, KindOfNext
<1>3. CallInv'
  BY <1>1, <1>2, CallInvStep
<1>4. SampleInv'
  BY <1>1, <1>2, SampleInvStep
<1>5. NewestInv'
  BY <1>1, <1>2, <1>4, NewestStep
<1>6. RoomInv'
  BY <1>1, <1>2, <1>4, RoomStep
<1>7. AuthInv'
  BY <1>1, AuthStep
<1> QED
  BY <1>3, <1>4, <1>5, <1>6, <1>7 DEF CatalogInv

\* What calls of ProcessLog, the samples they insert and delete, and the
\* endpoints and targets with their headers are between any two calls of the
\* database (ProcessLog, handleTriggerSuite).
THEOREM CatalogInvHolds == Spec => []CatalogInv
<1>1. Init => CatalogInv
  BY InitCatalogInv
<1>2. CatalogInv /\ [Next]_vars => CatalogInv'
  BY CatalogInvStep
<1> QED
  BY <1>1, <1>2, PTL DEF Spec

\* No analyzer deletes one of the newest samples before it expires, and more
\* than the limit are stored only while calls are between insert and prune or
\* after faults, for every number of analyzers and samples (saveTrafficSample,
\* pruneEndpointSamples).
THEOREM NewestSamplesAreKept == Spec => []SamplesAreTheNewest
<1>1. ASSUME CatalogInv
      PROVE  SamplesAreTheNewest
  <2> SUFFICES ASSUME NEW coll \in Collections, NEW fp \in DOMAIN inventory
               PROVE  /\ {s \in Ever(coll, fp) :
                            /\ s.at > horizon
                            /\ Cardinality({t \in Ever(coll, fp) : Newer(t, s)})
                                 < EndpointSampleLimit}
                           \subseteq Stored(coll, fp)
                      /\ Cardinality(Stored(coll, fp))
                           <= EndpointSampleLimit + Cardinality(Pruning(coll, fp)) + faults
    BY DEF SamplesAreTheNewest, Ever, Stored, Pruning, Newer
  <2>1. CallInv /\ SampleInv /\ NewestInv /\ RoomInv /\ AuthInv
    BY <1>1 DEF CatalogInv
  <2>2. ASSUME NEW s \in Ever(coll, fp), s.at > horizon,
               Cardinality({t \in Ever(coll, fp) : Newer(t, s)}) < EndpointSampleLimit
        PROVE  s \in Stored(coll, fp)
    <3>1. s \in inserted /\ s.coll = coll /\ s.fp = fp /\ s \in Sample
      BY <2>1 DEF Ever, SampleInv
    <3>2. s.at \in Nat /\ horizon \in Nat
      BY <2>1, <3>1 DEF Sample, CallInv
    <3>3. ~(s.at <= horizon)
      BY <2>2, <3>2
    <3> DEFINE N == Cardinality({t \in Ever(coll, fp) : Newer(t, s)})
    <3>4. N \in Nat
      <4>1. IsFiniteSet({t \in Ever(coll, fp) : Newer(t, s)})
        BY <2>1, FS_Subset DEF Ever, SampleInv
      <4> QED
        BY <4>1, FS_CardinalityType
    <3>5. Outdated(s) <=> N >= EndpointSampleLimit
      BY <3>1 DEF Outdated
    <3>6. N < EndpointSampleLimit
      BY <2>2
    <3> HIDE DEF N
    <3>7. ~(N >= EndpointSampleLimit)
      BY <3>4, <3>6, TrafficInventoryAssumption
    <3> QED
      BY <2>1, <3>1, <3>3, <3>5, <3>7 DEF NewestInv, Stored
  <2>3. PICK l \in DOMAIN Logs : fp = FingerprintOf[l]
    BY <2>1 DEF AuthInv, Range, FingerprintOf
  <2>4. Cardinality(Stored(coll, fp) \ Doomed({}))
          <= EndpointSampleLimit + Cardinality(Pruning(coll, fp) \ {}) + faults
    BY <2>1, <2>3 DEF RoomInv
  <2>5. /\ Stored(coll, fp) \ Doomed({}) = Stored(coll, fp)
        /\ Pruning(coll, fp) \ {} = Pruning(coll, fp)
    BY DEF Doomed
  <2> QED
    BY <2>2, <2>4, <2>5
<1> QED
  BY <1>1, CatalogInvHolds, PTL

-----------------------------------------------------------------------------
(* The samples as SampleStore keeps them.  The list a delete works from may *)
(* be old; by NewestInv what is on it is still outdated, so that listing    *)
(* and deleting are together one Prune, done at the time of the delete.     *)

\* Both count the newer samples of the same endpoint.
LEMMA StoreOutdated ==
  ASSUME NEW s, Outdated(s)
  PROVE  SampleStore!Outdated(s)
<1>1. SampleStore!NewerThan(s) = {t \in Ever(s.coll, s.fp) : Newer(t, s)}
  BY DEF SampleStore!NewerThan, Ever, Newer
<1>2. Cardinality({t \in Ever(s.coll, s.fp) : Newer(t, s)}) >= EndpointSampleLimit
  BY DEF Outdated
<1>3. \A S : SampleStore!Cardinality(S) = Cardinality(S)
  BY DEF SampleStore!Cardinality, Cardinality
<1> QED
  BY <1>1, <1>2, <1>3 DEF SampleStore!Outdated

\* A sample is inserted with an id that no sample had before.
LEMMA InsertImplements ==
  ASSUME SampleInv, NEW s \in Sample, s.id = NextId, UNCHANGED horizon,
         inserted' = inserted \union {s}, samples' = samples \union {s}
  PROVE  SampleStore!Next
<1> DEFINE n == Cardinality(inserted)
<1>1. n \in Nat /\ s.id = n + 1
  BY FS_CardinalityType DEF SampleInv, NextId
<1>2. \A t \in inserted : t.id \in Nat /\ t.id <= n
  BY DEF SampleInv, Sample
<1> HIDE DEF n
<1>3. \A t \in inserted : t.id < s.id
  BY <1>1, <1>2
<1> QED
  BY <1>3 DEF SampleStore!Next, SampleStore!Insert

\* What a call deletes was listed before and is outdated all the same.
LEMMA DeleteImplements ==
  ASSUME NewestInv, NEW a \in Analyzers, samples' = samples \ proc[a].ids,
         UNCHANGED <<inserted, horizon>>
  PROVE  SampleStore!Next
<1> DEFINE excess == samples \intersect proc[a].ids
<1>1. \A s \in excess : SampleStore!Outdated(s)
  BY StoreOutdated DEF NewestInv
<1>2. excess \in SUBSET samples /\ samples' = samples \ excess
  OBVIOUS
<1> HIDE DEF excess
<1> QED
  BY <1>1, <1>2 DEF SampleStore!Next, SampleStore!Prune

LEMMA StoreStep ==
  ASSUME SampleInv, NewestInv, SampleStep
  PROVE  [SampleStore!Next]_(SampleStore!vars)
<1>1. ASSUME NEW a \in Analyzers, Kind(a)
      PROVE  [SampleStore!Next]_(SampleStore!vars)
  <2>1. CASE Aside(a) \/ Lists(a) \/ GivesUp(a)
    BY <2>1 DEF Aside, Lists, GivesUp, SampleStore!vars
  <2>2. ASSUME NEW s \in Sample, Inserts(a, s)
        PROVE  SampleStore!Next
    BY <2>2, InsertImplements DEF Inserts
  <2>3. CASE Deletes(a)
    BY <2>3, DeleteImplements DEF Deletes
  <2> QED
    BY <1>1, <2>1, <2>2, <2>3 DEF Kind
<1>2. CASE Expires
  BY <1>2 DEF Expires, SampleStore!Next, SampleStore!Expire
<1>3. CASE Stays
  BY <1>3 DEF Stays, SampleStore!vars
<1> QED
  BY <1>1, <1>2, <1>3 DEF SampleStep

\* Every behaviour of the analyzers, the TTL index and the suite handler is one
\* that SampleStore allows: pruning by a list read in an earlier call deletes
\* exactly what pruning at once might delete (saveTrafficSample,
\* saveSensitiveSample, pruneEndpointSamples).
THEOREM ImplementsSampleStore == Spec => RefinesSampleStore
<1>1. Init => SampleStore!Init
  BY DEF Init, InventoryInit, SampleStore!Init
<1>2. CatalogInv /\ [Next]_vars => [SampleStore!Next]_(SampleStore!vars)
  BY KindOfNext, StoreStep DEF CatalogInv
<1> QED
  BY <1>1, <1>2, CatalogInvHolds, PTL DEF Spec, RefinesSampleStore, SampleStore!Spec

-----------------------------------------------------------------------------
(* Tokens. *)

UsableToken == [kind : {"jwt", "unsigned", "odd", "opaque"}, from : {"request"}]

\* What a role is tested with: what the request offers for it, or nothing
\* (attackerAuthContexts).
LEMMA OfferedToken ==
  ASSUME NEW req \in SuiteRequests, NEW r \in Roles
  PROVE  /\ WithLegacyToken(req)[r] = Offered(req, r)
         /\ Offered(req, r) \in UsableToken \union {NoToken}
<1>1. req.contexts[r] \in RequestToken /\ req.legacy \in RequestToken
  BY CatalogAssumption
<1>2. ASSUME NEW token \in RequestToken, usableToken(token)
      PROVE  token \in UsableToken /\ token # NoToken
  <2>1. /\ RequestToken = UsableToken \union {NoToken, Marker}
        /\ ~usableToken(NoToken) /\ ~usableToken(Marker)
    BY DEF RequestToken, UsableToken, usableToken, NoToken, Marker
  <2>2. token \in UsableToken
    BY <1>2, <2>1
  <2> QED
    BY <1>2, <2>1, <2>2
<1>3. normalizeAuthContexts(req.contexts)[r]
        = IF usableToken(req.contexts[r]) THEN req.contexts[r] ELSE NoToken
  BY DEF normalizeAuthContexts
<1>4. WithLegacyToken(req)[r]
        = IF r # "admin" /\ normalizeAuthContexts(req.contexts)[r] = NoToken
             /\ usableToken(req.legacy)
          THEN req.legacy ELSE normalizeAuthContexts(req.contexts)[r]
  BY DEF WithLegacyToken
<1>5. CASE usableToken(req.contexts[r])
  BY <1>1, <1>2, <1>3, <1>4, <1>5 DEF Offered
<1>6. CASE ~usableToken(req.contexts[r])
  BY <1>1, <1>2, <1>3, <1>4, <1>6 DEF Offered
<1> QED
  BY <1>5, <1>6

\* The stored header has no token to pick (pickToken).
LEMMA NothingToPick ==
  ASSUME NEW target, SafeHeaders(target.headers), NEW i
  PROVE  pickToken(target, i) = NoToken
<1> DEFINE auth == Authorization(target)
<1>1. ~usableToken(Marker)
  BY DEF usableToken, Marker
<1>2. auth \in Seq(SafeField("Authorization"))
  BY EmptySeq DEF Authorization, SafeHeaders
<1> HIDE DEF auth
<1>3. i \in DOMAIN auth => auth[i].value = Marker
  <2>1. DOMAIN auth = 1..Len(auth)
    BY <1>2, LenProperties
  <2> QED
    BY <1>2, <2>1, ElementOfSeq, SafeAuthorization
<1> QED
  BY <1>1, <1>3 DEF pickToken, auth

\* The first token of the three roles is one of theirs, or there is none.
LEMMA FirstToken ==
  ASSUME NEW contexts
  PROVE  LET token == firstContextToken(contexts, <<"victim", "attacker", "admin">>)
         IN  token = NoToken \/ \E r \in Roles : token = contexts[r]
<1> DEFINE roles == <<"victim", "attacker", "admin">>
           some == {i \in DOMAIN roles : contexts[roles[i]] # NoToken}
<1>1. DOMAIN roles = {1, 2, 3} /\ roles[1] \in Roles /\ roles[2] \in Roles /\ roles[3] \in Roles
  BY DEF Roles
<1> HIDE DEF roles
<1>2. some \subseteq {1, 2, 3}
  BY <1>1
<1>3. firstContextToken(contexts, roles)
        = IF some = {} THEN NoToken
          ELSE contexts[roles[CHOOSE i \in some : \A j \in some : i <= j]]
  BY DEF firstContextToken
<1> HIDE DEF some
<1>4. some # {} => \E i \in some : \A j \in some : i <= j
  <2>1. CASE 1 \in some
    BY <1>2, <2>1
  <2>2. CASE 1 \notin some /\ 2 \in some
    BY <1>2, <2>2
  <2>3. CASE 1 \notin some /\ 2 \notin some
    <3>1. \A i \in some : i = 3
      BY <1>2, <2>3
    <3> QED
      BY <3>1
  <2> QED
    BY <2>1, <2>2, <2>3
<1>5. some # {} => (CHOOSE i \in some : \A j \in some : i <= j) \in {1, 2, 3}
  BY <1>2, <1>4
<1>6. \/ firstContextToken(contexts, roles) = NoToken
      \/ \E r \in Roles : firstContextToken(contexts, roles) = contexts[r]
  BY <1>1, <1>3, <1>5
<1> QED
  BY <1>6 DEF roles

\* The token of a test is one the request offered, or made from it
\* (resolveAuthTokenFromContexts).
LEMMA ResolvedToken ==
  ASSUME NEW req \in SuiteRequests, NEW target, SafeHeaders(target.headers), NEW type
  PROVE  LET token == resolveAuthToken(type, target, req)
             victim == Offered(req, "victim")
         IN  /\ token.from \in {"", "request"}
             /\ type \in {"BOLA", "BOLA_PARAMETER_POLLUTION"} => token = Offered(req, "attacker")
             /\ type = "JWT_NONE_ALGO" => token = forgeNoneToken(victim)
             /\ type = "JWT_INVALID_SIGNATURE" => token = tamperSignature(victim)
<1> DEFINE contexts == WithLegacyToken(req)
           token == resolveAuthToken(type, target, req)
           first == firstContextToken(contexts, <<"victim", "attacker", "admin">>)
<1>1. \A r \in Roles : /\ contexts[r] = Offered(req, r)
                       /\ Offered(req, r) \in UsableToken \union {NoToken}
  BY OfferedToken
<1>2. \A i : pickToken(target, i) = NoToken
  BY NothingToPick
<1>3. "victim" \in Roles /\ "attacker" \in Roles
  BY DEF Roles
<1>4. /\ Or(contexts["victim"], pickToken(target, 1)) = Offered(req, "victim")
      /\ Or(contexts["attacker"], pickToken(target, 2)) = Offered(req, "attacker")
  BY <1>1, <1>2, <1>3 DEF Or
<1>5. \A r \in Roles : Offered(req, r).from \in {"", "request"}
  <2>1. NoToken.from = "" /\ \A offered \in UsableToken : offered.from = "request"
    BY DEF UsableToken, NoToken
  <2> QED
    BY <1>1, <2>1
<1>6. Or(first, pickToken(target, 1)).from \in {"", "request"}
  <2>1. first = NoToken \/ \E r \in Roles : first = contexts[r]
    BY FirstToken
  <2>2. NoToken.from = ""
    BY DEF NoToken
  <2> QED
    BY <1>1, <1>2, <1>5, <2>1, <2>2 DEF Or
<1>7. CASE type \in {"BOLA", "BOLA_PARAMETER_POLLUTION"}
  <2>1. token = Offered(req, "attacker")
    BY <1>4, <1>7 DEF resolveAuthToken
  <2> QED
    BY <1>3, <1>5, <1>7, <2>1
<1>8. CASE type = "JWT_NONE_ALGO"
  <2>1. token = forgeNoneToken(Offered(req, "victim"))
    BY <1>4, <1>8 DEF resolveAuthToken
  <2>2. Offered(req, "victim").from \in {"", "request"} /\ NoToken.from = ""
    BY <1>3, <1>5 DEF NoToken
  <2> HIDE DEF token
  <2>3. \/ token = NoToken
        \/ token = Forged(Offered(req, "victim"))
    BY <2>1 DEF forgeNoneToken
  <2>4. Forged(Offered(req, "victim")).from = Offered(req, "victim").from
    BY DEF Forged
  <2>5. token.from \in {"", "request"}
    BY <2>2, <2>3, <2>4
  <2> QED
    BY <1>8, <2>1, <2>5 DEF token
<1>9. CASE type = "JWT_INVALID_SIGNATURE"
  <2>1. token = tamperSignature(Offered(req, "victim"))
    BY <1>4, <1>9 DEF resolveAuthToken
  <2>2. Offered(req, "victim").from \in {"", "request"} /\ NoToken.from = ""
    BY <1>3, <1>5 DEF NoToken
  <2> HIDE DEF token
  <2>3. \/ token = NoToken
        \/ token = Forged(Offered(req, "victim"))
    BY <2>1 DEF tamperSignature
  <2>4. Forged(Offered(req, "victim")).from = Offered(req, "victim").from
    BY DEF Forged
  <2>5. token.from \in {"", "request"}
    BY <2>2, <2>3, <2>4
  <2> QED
    BY <1>9, <2>1, <2>5 DEF token
<1>10. CASE type = "BROKEN_USER_AUTH"
  BY <1>10 DEF resolveAuthToken, NoToken
<1>11. CASE type \notin {"BOLA", "BOLA_PARAMETER_POLLUTION", "BROKEN_USER_AUTH",
                         "JWT_NONE_ALGO", "JWT_INVALID_SIGNATURE"}
  <2>1. token = Or(first, pickToken(target, 1))
    BY <1>11 DEF resolveAuthToken
  <2> QED
    BY <1>6, <1>11, <2>1
<1> QED
  BY <1>7, <1>8, <1>9, <1>10, <1>11

\* No job uses a token seen in traffic: its token is one the request offered;
\* and the headers it replays are redacted, those that redact knows as a whole
\* and the others of the secrets redact knows, and of nothing else
\* (redact.Headers, ApplyTrafficSampleToInventory, flattenHeaders,
\* resolveAuthTokenFromContexts).
THEOREM JobTokensAreOffered == Spec => []JobsUseOfferedTokens
<1>1. Init => JobsUseOfferedTokens
  <2>1. NoSuite.jobs = {}
    BY DEF NoSuite
  <2> QED
    BY <2>1 DEF Init, JobsUseOfferedTokens
<1>2. ASSUME CatalogInv, JobsUseOfferedTokens, [Next]_vars
      PROVE  JobsUseOfferedTokens'
  <2>0. SampleInv /\ AuthInv
    BY <1>2 DEF CatalogInv
  <2>1. CASE UNCHANGED suite
    BY <1>2, <2>1 DEF JobsUseOfferedTokens, Offered
  <2>2. CASE suite'.jobs = {}
    BY <2>2 DEF JobsUseOfferedTokens
  <2>3. ASSUME NEW lost \in SUBSET FailingTypes, NEW misreported \in SUBSET lost,
               EnqueueSuiteJobs(lost, misreported)
        PROVE  JobsUseOfferedTokens'
    <3> DEFINE types == (Planned \ lost) \union misreported
    <3>1. /\ suite'.req = suite.req
          /\ suite'.jobs = {BuildScanConfig(t, suite.target, suite.req) : t \in types}
      BY <2>0, <2>3, AnsweredSuite
    <3>2. suite.req \in SuiteRequests /\ SafeHeaders(suite.target.headers)
      BY <2>0 DEF AuthInv, SafeSuite
    <3>3. ASSUME NEW t
          PROVE  LET job == BuildScanConfig(t, suite.target, suite.req)
                 IN  /\ job.token.from \in {"", "request"}
                     /\ \A name \in DOMAIN job.headers : Redacted(job.headers[name])
                     /\ job.type \in {"BOLA", "BOLA_PARAMETER_POLLUTION"} =>
                            job.token = Offered(suite.req, "attacker")
      <4> DEFINE job == BuildScanConfig(t, suite.target, suite.req)
                 headers == suite.target.headers
      <4>1. /\ job.type = t /\ job.token = resolveAuthToken(t, suite.target, suite.req)
            /\ job.headers = flattenHeaders(headers)
        BY DEF BuildScanConfig
      <4> HIDE DEF job
      <4>2. ASSUME NEW name \in DOMAIN job.headers
            PROVE  Redacted(job.headers[name])
        <5>1. /\ name \in DOMAIN headers /\ headers[name] # << >>
              /\ job.headers[name] = headers[name][1]
          BY <4>1 DEF flattenHeaders
        <5>2. headers[name] \in Seq(SafeField(name))
          BY <3>2, <5>1 DEF SafeHeaders
        <5>3. headers[name][1] \in SafeField(name)
          <6> DEFINE values == headers[name]
          <6> HIDE DEF values
          <6>1. Len(values) \in Nat \ {0}
            BY <5>1, <5>2, EmptySeq DEF values
          <6>2. 1 \in 1..Len(values)
            BY <6>1
          <6>3. values[1] \in SafeField(name)
            BY <5>2, <6>2, ElementOfSeq DEF values
          <6> QED
            BY <6>3 DEF values
        <5> QED
          BY <5>1, <5>3 DEF SafeField
      <4>3. /\ job.token.from \in {"", "request"}
            /\ t \in {"BOLA", "BOLA_PARAMETER_POLLUTION"} =>
                   job.token = Offered(suite.req, "attacker")
        <5> DEFINE token == resolveAuthToken(t, suite.target, suite.req)
        <5>1. /\ token.from \in {"", "request"}
              /\ t \in {"BOLA", "BOLA_PARAMETER_POLLUTION"} =>
                     token = Offered(suite.req, "attacker")
          BY <3>2, ResolvedToken
        <5> QED
          BY <4>1, <5>1
      <4> QED
        BY <4>1, <4>2, <4>3 DEF job
    <3>4. \A role : Offered(suite'.req, role) = Offered(suite.req, role)
      BY <3>1
    <3> HIDE DEF types
    <3> QED
      BY <3>1, <3>3, <3>4 DEF JobsUseOfferedTokens
  <2>4. ASSUME NEW req \in SuiteRequests, NEW fp \in DOMAIN inventory, TriggerSuite(req, fp)
        PROVE  JobsUseOfferedTokens'
    BY <2>0, <2>2, <2>4, TriggeredSuite
  <2>5. ASSUME NEW outcome \in Outcomes, ApplyLatestTrafficSample(outcome)
        PROVE  JobsUseOfferedTokens'
    BY <2>0, <2>2, <2>5, SampledSuite
  <2> QED
    BY <1>2, <2>1, <2>3, <2>4, <2>5 DEF Next, vars
<1> QED
  BY <1>1, <1>2, CatalogInvHolds, PTL DEF Spec

-----------------------------------------------------------------------------
(* The answer of a suite. *)

\* The tests that bring in another user's token, in the registry.
LEMMA AttackerTemplates ==
  /\ "BOLA" \in DOMAIN Registry /\ Registry["BOLA"].attacker = TRUE
  /\ "BOLA_PARAMETER_POLLUTION" \in DOMAIN Registry
  /\ Registry["BOLA_PARAMETER_POLLUTION"].attacker = TRUE
<1>1. /\ "BOLA" \in BuiltIn \union CommunityTests
      /\ "BOLA_PARAMETER_POLLUTION" \in BuiltIn \union CommunityTests
  BY DEF BuiltIn, AttackerTests
<1>2. Registry["BOLA"] = Template({"headers.authorization", "path"}, TRUE, TRUE)
  BY <1>1 DEF Registry, JWTTests, PathTests, Injections, BaseURLChecks, CommunityTests
<1>3. Registry["BOLA_PARAMETER_POLLUTION"]
        = Template({"headers.authorization", "body"}, TRUE, TRUE)
  BY <1>1 DEF Registry, JWTTests, PathTests, Injections, BaseURLChecks, CommunityTests
<1> QED
  BY <1>1, <1>2, <1>3 DEF Registry, Template

\* A preset lists registered test types only.
LEMMA PresetsAreRegistered ==
  \A preset \in DOMAIN SuitePresets :
    SuitePresets[preset] \subseteq DOMAIN Registry /\ preset \notin {"", "FULL"}
<1>1. DOMAIN SuitePresets = {"OWASP_API_TOP_10", "ACCESS_CONTROL", "AUTHENTICATION",
                             "INJECTION", "SSRF", "MISCONFIGURATION"}
  BY DEF SuitePresets
<1>2. /\ SuitePresets["OWASP_API_TOP_10"] = BuiltIn
      /\ SuitePresets["ACCESS_CONTROL"] = AttackerTests \union {"BFLA", "MASS_ASSIGNMENT"}
      /\ SuitePresets["AUTHENTICATION"]
           = JWTTests \union {"BROKEN_USER_AUTH", "DEFAULT_CREDENTIALS"}
      /\ SuitePresets["INJECTION"] = (Injections \ {"SSRF"}) \union {"OPEN_REDIRECT"}
      /\ SuitePresets["SSRF"] = {"SSRF", "SSRF_BLIND_OOB"}
      /\ SuitePresets["MISCONFIGURATION"] = BaseURLChecks \union {"CORS_MISCONFIGURATION"}
  BY DEF SuitePresets
<1>3. DOMAIN Registry = BuiltIn \union CommunityTests
  BY DEF Registry
<1>4. /\ AttackerTests \subseteq BuiltIn /\ JWTTests \subseteq BuiltIn
      /\ Injections \subseteq BuiltIn /\ BaseURLChecks \subseteq BuiltIn
      /\ {"BFLA", "MASS_ASSIGNMENT"} \subseteq BuiltIn
      /\ {"BROKEN_USER_AUTH", "DEFAULT_CREDENTIALS", "OPEN_REDIRECT", "SSRF",
          "SSRF_BLIND_OOB", "CORS_MISCONFIGURATION"} \subseteq BuiltIn
  BY DEF BuiltIn, PathTests, Injections
<1>5. \A preset \in DOMAIN SuitePresets : SuitePresets[preset] \subseteq BuiltIn
  BY <1>1, <1>2, <1>4
<1>6. \A preset \in DOMAIN SuitePresets : preset \notin {"", "FULL"}
  BY <1>1
<1> QED
  BY <1>3, <1>5, <1>6

\* A test that needs another user's token applies only if the request offers
\* one.
LEMMA AttackerIsOffered ==
  ASSUME NEW req \in SuiteRequests, NEW target,
         NEW type \in ApplicableTestTypes(target, req), Registry[type].attacker
  PROVE  Offered(req, "attacker") # NoToken
<1> DEFINE contexts == normalizeAuthContexts(req.contexts)
<1>1. usableToken(req.legacy) \/ contexts["attacker"] # NoToken
  BY DEF ApplicableTestTypes
<1>2. contexts["attacker"]
        = IF usableToken(req.contexts["attacker"]) THEN req.contexts["attacker"] ELSE NoToken
  BY DEF normalizeAuthContexts, Roles
<1>3. \A token : usableToken(token) => token # NoToken
  <2>1. ~usableToken(NoToken)
    BY DEF usableToken, NoToken
  <2> QED
    BY <2>1
<1> QED
  BY <1>1, <1>2, <1>3 DEF Offered

\* Planning an applicable test fails for the reasons that are answered and no
\* other (BuildScanConfig).
LEMMA FailsForAReason ==
  ASSUME AuthInv, NEW type \in ApplicableTestTypes(suite.target, suite.req)
  PROVE  PlanFails(type, suite.target, suite.req) <=> Unplannable(type)
<1> DEFINE req == suite.req
           target == suite.target
           token == resolveAuthToken(type, target, req)
           victim == Offered(req, "victim")
<1>1. req \in SuiteRequests /\ SafeHeaders(target.headers)
  BY DEF AuthInv, SafeSuite
<1>2. /\ type \in {"BOLA", "BOLA_PARAMETER_POLLUTION"} => token = Offered(req, "attacker")
      /\ type = "JWT_NONE_ALGO" => token = forgeNoneToken(victim)
      /\ type = "JWT_INVALID_SIGNATURE" => token = tamperSignature(victim)
  BY <1>1, ResolvedToken
<1>3. Forged(victim) # NoToken
  <2>1. Forged(victim).kind = "forged" /\ NoToken.kind = ""
    BY DEF Forged, NoToken
  <2> QED
    BY <2>1
<1>4. type \in {"BOLA", "BOLA_PARAMETER_POLLUTION"} => token # NoToken
  <2>1. type \in {"BOLA", "BOLA_PARAMETER_POLLUTION"} => Registry[type].attacker
    BY AttackerTemplates
  <2> QED
    BY <1>1, <1>2, <2>1, AttackerIsOffered
<1>5. PlanFails(type, target, req) <=>
        \/ type \in NeedsToken /\ token = NoToken
        \/ type = "BOLA_PARAMETER_POLLUTION" /\ target.body # "id"
  BY DEF PlanFails
<1>6. NeedsToken = {"JWT_NONE_ALGO", "JWT_INVALID_SIGNATURE", "BOLA", "BOLA_PARAMETER_POLLUTION"}
  BY DEF NeedsToken, JWTTests
<1>7. Unplannable(type) <=>
        \/ type = "JWT_NONE_ALGO" /\ victim.kind \notin {"jwt", "unsigned"}
        \/ type = "JWT_INVALID_SIGNATURE" /\ victim.kind \notin {"jwt", "odd"}
        \/ type = "BOLA_PARAMETER_POLLUTION" /\ target.body # "id"
  BY DEF Unplannable
<1>8. /\ forgeNoneToken(victim) = NoToken <=> victim.kind \notin {"jwt", "unsigned"}
      /\ tamperSignature(victim) = NoToken <=> victim.kind \notin {"jwt", "odd"}
  <2> HIDE DEF victim
  <2> QED
    BY <1>3 DEF forgeNoneToken, tamperSignature
<1> HIDE DEF token, victim, target, req
<1>9. PlanFails(type, target, req) <=> Unplannable(type)
  BY <1>2, <1>4, <1>5, <1>6, <1>7, <1>8
<1> QED
  BY <1>9 DEF target, req

\* Of the registered tests a suite was asked for, exactly those that apply and
\* can be planned have a job unless the insert of theirs failed, the answer
\* reports or skips each of them, and skips one that has a job only if its
\* insert was applied although it reported an error; and the request fails only
\* if every creation reported one; whatever analyzers write meanwhile
\* (handleTriggerSuite).
THEOREM SuitesAreAccounted == Spec => []SuiteIsAccounted
<1>1. Init => SuiteIsAccounted
  <2>1. NoSuite.pc = "idle"
    BY DEF NoSuite
  <2> QED
    BY <2>1 DEF Init, SuiteIsAccounted
<1>2. ASSUME CatalogInv, SuiteIsAccounted, [Next]_vars
      PROVE  SuiteIsAccounted'
  <2>0. SampleInv /\ AuthInv
    BY <1>2 DEF CatalogInv
  <2>1. CASE UNCHANGED suite
    <3>1. suite' = suite
      BY <2>1
    <3>2. Asked' = Asked /\ Queued' = Queued
      BY <3>1 DEF Asked, Queued
    <3>3. Possible' = Possible
      <4>1. \A t : Unplannable(t)' <=> Unplannable(t)
        BY <3>1 DEF Unplannable, Offered
      <4> QED
        BY <3>1, <3>2, <4>1 DEF Possible
    <3> QED
      BY <1>2, <3>1, <3>2, <3>3 DEF SuiteIsAccounted
  <2>2. CASE suite'.pc # "answered" /\ suite'.pc # "failed"
    <3>1. ~(suite.pc \in {"answered", "failed"})'
      BY <2>2
    <3> QED
      BY <3>1 DEF SuiteIsAccounted
  <2>3. ASSUME NEW lost \in SUBSET FailingTypes, NEW misreported \in SUBSET lost,
               EnqueueSuiteJobs(lost, misreported)
        PROVE  SuiteIsAccounted'
    <3> DEFINE req == suite.req
               applicable == ApplicableTestTypes(suite.target, req)
               requested == RequestedTypes(req, applicable)
               reported == Planned \ lost
    <3>1. /\ Chosen.selected # {} /\ lost \subseteq Planned /\ misreported \subseteq lost
          /\ suite'.req = req /\ suite'.target = suite.target
          /\ suite'.lost = lost /\ suite'.misreported = misreported
          /\ suite'.pc = IF reported = {} THEN "failed" ELSE "answered"
          /\ suite'.reported = reported
          /\ suite'.skipped = IF reported = {} THEN {}
                              ELSE Chosen.skipped \union (Chosen.selected \ reported)
          /\ suite'.jobs = {BuildScanConfig(t, suite.target, req) :
                               t \in reported \union misreported}
      BY <2>0, <2>3, AnsweredSuite
    <3>2. /\ Chosen.selected = requested \intersect applicable
          /\ Chosen.skipped = requested \ applicable
      BY DEF Chosen, selectSuiteTestTypes
    <3>3. Asked = requested
      <4>1. CASE req.types # {}
        BY <4>1 DEF Asked, RequestedTypes, FilterRegistered
      <4>2. CASE req.types = {} /\ req.suite \in DOMAIN SuitePresets
        <5>1. req.suite \notin {"", "FULL"}
          BY <4>2, PresetsAreRegistered
        <5>2. SuitePresets[req.suite] \intersect DOMAIN Registry = SuitePresets[req.suite]
          BY <4>2, PresetsAreRegistered
        <5>3. Asked = SuitePresets[req.suite]
          BY <4>2, <5>1 DEF Asked
        <5>4. requested = SuitePresets[req.suite] \intersect DOMAIN Registry
          BY <4>2, <5>1 DEF RequestedTypes, FilterRegistered
        <5> QED
          BY <5>2, <5>3, <5>4
      <4>3. CASE req.types = {} /\ req.suite \in {"", "FULL"}
        <5>1. req.suite \notin DOMAIN SuitePresets
          BY <4>3, PresetsAreRegistered
        <5> QED
          BY <4>3, <5>1 DEF Asked, RequestedTypes
      <4>4. CASE req.types = {} /\ req.suite \notin DOMAIN SuitePresets
                   /\ req.suite \notin {"", "FULL"}
        <5>1. requested = {}
          BY <4>4 DEF RequestedTypes
        <5> QED
          BY <3>1, <3>2, <5>1
      <4> QED
        BY <4>1, <4>2, <4>3, <4>4
    <3>4. \A t \in applicable : PlanFails(t, suite.target, req) <=> Unplannable(t)
      BY <2>0, FailsForAReason
    <3>5. Planned = {t \in requested \intersect applicable : ~Unplannable(t)}
      BY <3>2, <3>4 DEF Planned
    <3>6. Queued' = reported \union misreported
      <4>1. \A t : BuildScanConfig(t, suite.target, req).type = t
        BY DEF BuildScanConfig
      <4>2. ASSUME NEW t \in reported \union misreported
            PROVE  t \in Queued'
        <5>1. BuildScanConfig(t, suite.target, req) \in suite'.jobs
          BY <3>1
        <5> QED
          BY <4>1, <5>1 DEF Queued
      <4>3. ASSUME NEW job \in suite'.jobs
            PROVE  job.type \in reported \union misreported
        BY <3>1, <4>1
      <4> QED
        BY <4>2, <4>3 DEF Queued
    <3>7. \A t : Unplannable(t)' <=> Unplannable(t)
      BY <3>1 DEF Unplannable, Offered
    <3>8. Asked' = Asked
      BY <3>1 DEF Asked
    <3>9. Possible' = Planned
      <4>1. Possible' = {t \in Asked' \intersect applicable : ~Unplannable(t)'}
        BY <3>1 DEF Possible
      <4> HIDE DEF req, applicable, requested
      <4> QED
        BY <3>3, <3>5, <3>7, <3>8, <4>1
    <3> HIDE DEF req, applicable, requested, reported
    <3>10. /\ Queued' = Possible' \ (lost \ misreported)
           /\ suite'.reported = Possible' \ lost
           /\ suite'.pc = "failed" <=> Possible' \subseteq lost
      BY <3>1, <3>6, <3>9 DEF reported
    <3>11. CASE reported = {}
      <4>1. suite'.pc = "failed" /\ suite'.skipped = {}
        BY <3>1, <3>11
      <4> QED
        BY <3>1, <3>10, <4>1 DEF SuiteIsAccounted
    <3>12. CASE reported # {}
      <4>1. suite'.pc = "answered"
        BY <3>1, <3>12
      <4>2. suite'.skipped = Asked' \ reported
        BY <3>1, <3>2, <3>3, <3>5, <3>8, <3>12 DEF reported
      <4>3. suite'.skipped \intersect Queued' = misreported
        BY <3>1, <3>2, <3>3, <3>5, <3>6, <3>8, <4>2 DEF reported
      <4> QED
        BY <3>1, <3>10, <4>1, <4>2, <4>3 DEF SuiteIsAccounted
    <3> QED
      BY <3>11, <3>12
  <2>4. ASSUME NEW req \in SuiteRequests, NEW fp \in DOMAIN inventory, TriggerSuite(req, fp)
        PROVE  SuiteIsAccounted'
    BY <2>0, <2>2, <2>4, TriggeredSuite
  <2>5. ASSUME NEW outcome \in Outcomes, ApplyLatestTrafficSample(outcome)
        PROVE  SuiteIsAccounted'
    BY <2>0, <2>2, <2>5, SampledSuite
  <2> QED
    BY <1>2, <2>1, <2>3, <2>4, <2>5 DEF Next, vars
<1> QED
  BY <1>1, <1>2, CatalogInvHolds, PTL DEF Spec
=============================================================================
