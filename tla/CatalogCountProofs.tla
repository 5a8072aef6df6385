------------------------- MODULE CatalogCountProofs -------------------------
(***************************************************************************)
(* The remaining invariants of Catalog, for every set of conversations,    *)
(* analyzers and suite requests: the counters kept for an endpoint agree   *)
(* with each other, and the types.                                         *)
(*                                                                         *)
(* An endpoint's document is written first and its request_count raised    *)
(* there; ParameterInv and MetricInv say that every call that has got past *)
(* this has room left in it for what it is still going to count.           *)
(***************************************************************************)
EXTENDS CatalogProofs

\* The calls of ProcessLog under way, those that have written the document of
\* an endpoint, and those of them that update its parameters next.
Active == {a \in Analyzers : proc[a].pc # "idle"}
Recorded(fp) == {a \in Analyzers : proc[a].pc \notin {"idle", "inventory"} /\ Fp(a) = fp}
Observing(fp) == {a \in Analyzers : proc[a].pc = "parameters" /\ Fp(a) = fp}

\* A document covers the calls that have written it and the samples stored after.
Covered(fp, log) ==
    fp \in DOMAIN inventory /\ SensitiveData[log] \subseteq inventory[fp].sensitive
CoverInv ==
    /\ \A fp \in DOMAIN inventory : inventory[fp] \in Document
    /\ \A a \in Analyzers :
         proc[a].pc \notin {"idle", "inventory"} => Covered(Fp(a), proc[a].log)
    /\ \A s \in inserted : Covered(s.fp, s.log)

\* A request leaves room for one observation of a path parameter by the call
\* that made it ...
ParameterInv ==
    \A k \in DOMAIN parameters :
        /\ parameters[k].count \in Nat \ {0}
        /\ k[2] = "path" =>
             parameters[k].count + Cardinality(Observing(k[1])) <= Requests(k[1])

\* ... and for one increment of one counter of each granularity.
MetricInv ==
    /\ Cardinality(Active) <= deliveries
    /\ \A k \in DOMAIN metrics :
         /\ k.fp \in Range(FingerprintOf) /\ k.granularity \in Range(GranularityOrder)
         /\ metrics[k] \in Nat \ {0}
         /\ metrics[k] + Cardinality(Active) <= deliveries
    /\ \A fp \in Range(FingerprintOf), g \in Range(GranularityOrder) :
         /\ IsFiniteSet(Counted(fp, g))
         /\ Cardinality(Counted(fp, g)) + Cardinality(Recorded(fp)) <= Requests(fp)

\* The bound of the model, and the test types an answer names.
BoundInv ==
    /\ deliveries + faults + horizon <= MaxEvents
    /\ suite.pc \in {"idle", "sample", "plan", "answered", "failed"}
    /\ suite.selected \union suite.skipped \subseteq DOMAIN Registry

CountInv == CoverInv /\ ParameterInv /\ MetricInv /\ BoundInv

-----------------------------------------------------------------------------
(* No path parameter is observed twice in one conversation. *)

NoPath(s) == \A i \in DOMAIN s : s[i].loc # "path"

LEMMA ConcatDistinct ==
  ASSUME NEW S, NEW s \in Seq(S), NEW t \in Seq(S), Distinct(s), NoPath(t)
  PROVE  s \o t \in Seq(S) /\ Distinct(s \o t)
<1>1. /\ Len(s) \in Nat /\ DOMAIN s = 1..Len(s)
      /\ Len(t) \in Nat /\ DOMAIN t = 1..Len(t)
  BY LenProperties
<1>2. /\ s \o t \in Seq(S) /\ Len(s \o t) = Len(s) + Len(t)
      /\ \A i \in 1..(Len(s) + Len(t)) :
           (s \o t)[i] = IF i <= Len(s) THEN s[i] ELSE t[i - Len(s)]
  BY ConcatProperties
<1>3. DOMAIN (s \o t) = 1..(Len(s) + Len(t))
  BY <1>2, LenProperties
<1>4. ASSUME NEW i \in DOMAIN (s \o t), (s \o t)[i].loc = "path"
      PROVE  i \in DOMAIN s /\ (s \o t)[i] = s[i]
  <2>1. CASE i <= Len(s)
    BY <1>1, <1>2, <1>3, <2>1
  <2>2. CASE ~(i <= Len(s))
    <3>1. i - Len(s) \in DOMAIN t /\ (s \o t)[i] = t[i - Len(s)]
      BY <1>1, <1>2, <1>3, <2>2
    <3> QED
      BY <1>4, <3>1 DEF NoPath
  <2> QED
    BY <2>1, <2>2
<1> QED
  BY <1>2, <1>4 DEF Distinct

\* The other parameters have the location of the field they come from.
LEMMA OtherParameters ==
  ASSUME NEW l \in DOMAIN Logs, NEW locs, "path" \notin locs, NEW F,
         NEW p, p = [i \in DOMAIN FieldsIn(Logs[l], locs) |->
                        [loc |-> FieldsIn(Logs[l], locs)[i].loc,
                         name |-> FieldsIn(Logs[l], locs)[i].name, tags |-> F[i]]]
  PROVE  p \in Seq(Range(p)) /\ NoPath(p)
<1> DEFINE fields == Logs[l].fields
           P == {i \in DOMAIN fields : fields[i].loc \in locs}
           part == FieldsIn(Logs[l], locs)
<1>1. fields \in Seq(CapturedField) /\ P \in SUBSET DOMAIN fields
  BY CatalogAssumption
<1>2. part = MembersAt(fields, P)
  BY DEF FieldsIn
<1>3. /\ part \in Seq(CapturedField)
      /\ \A i \in DOMAIN part : \E q \in P : part[i] = fields[q]
  <2> HIDE DEF fields, P, part
  <2> QED
    BY <1>1, <1>2, MembersAreSelected
<1>4. \A i \in DOMAIN part : part[i].loc \in locs
  BY <1>3
<1>5. Len(part) \in Nat /\ DOMAIN part = 1..Len(part)
  BY <1>3, LenProperties
<1> HIDE DEF part
<1>6. p = [i \in DOMAIN part |-> [loc |-> part[i].loc, name |-> part[i].name, tags |-> F[i]]]
  BY DEF part
<1>7. p \in [1..Len(part) -> Range(p)]
  BY <1>5, <1>6 DEF Range
<1>8. p \in Seq(Range(p))
  <2> DEFINE R == Range(p)
             n == Len(part)
  <2>1. p \in [1..n -> R] /\ n \in Nat
    BY <1>5, <1>7
  <2> HIDE DEF R, n
  <2>2. p \in Seq(R)
    BY <2>1, SeqDef
  <2> QED
    BY <2>2 DEF R
<1>9. NoPath(p)
  <2>1. ASSUME NEW i \in DOMAIN p
        PROVE  p[i].loc # "path"
    <3>1. i \in DOMAIN part /\ p[i].loc = part[i].loc
      BY <1>6, <2>1
    <3>2. p[i].loc \in locs
      BY <1>4, <3>1
    <3> QED
      BY <3>2
  <2> QED
    BY <2>1 DEF NoPath
<1> QED
  BY <1>8, <1>9

\* parameterObservations puts the parameters of the path first.
LEMMA ObservationsAreDistinct ==
  ASSUME NEW l \in DOMAIN Logs
  PROVE  /\ Len(Observations[l]) \in Nat /\ DOMAIN Observations[l] = 1..Len(Observations[l])
         /\ Distinct(Observations[l])
<1> DEFINE log == Logs[l]
           Part(locs, tags) == [i \in DOMAIN FieldsIn(log, locs) |->
                                   [loc |-> FieldsIn(log, locs)[i].loc,
                                    name |-> FieldsIn(log, locs)[i].name, tags |-> tags[i]]]
           Tags(locs) == [i \in DOMAIN FieldsIn(log, locs) |->
                             sensitiveTagsFor(FieldsIn(log, locs)[i])]
           Masked(locs) == [i \in DOMAIN FieldsIn(log, locs) |->
                                 sensitiveTagsFor(Headers(FieldsIn(log, locs)[i]))]
           Absent(locs) == [i \in DOMAIN FieldsIn(log, locs) |->
                               sensitiveTagsFor([FieldsIn(log, locs)[i] EXCEPT !.tags = {}])]
           s == NormalizePath(log.path).parameters
           t1 == Part({"query"}, Tags({"query"}))
           t2 == Part({"cookie"}, Tags({"cookie"}))
           t3 == Part({"header"}, Masked({"header"}))
           t4 == Part({"request_body"}, Absent({"request_body"}))
           t5 == Part({"response_body"}, Absent({"response_body"}))
           S == Range(s) \union Range(t1) \union Range(t2) \union Range(t3) \union Range(t4)
                  \union Range(t5)
<1>1. Observations[l] = s \o t1 \o t2 \o t3 \o t4 \o t5
  BY DEF Observations, parameterObservations
<1>2. s \in Seq(Range(s)) /\ Distinct(s)
  BY PathNamesAreDistinct, CatalogAssumption
<1>3. /\ t1 \in Seq(Range(t1)) /\ NoPath(t1) /\ t2 \in Seq(Range(t2)) /\ NoPath(t2)
      /\ t3 \in Seq(Range(t3)) /\ NoPath(t3) /\ t4 \in Seq(Range(t4)) /\ NoPath(t4)
      /\ t5 \in Seq(Range(t5)) /\ NoPath(t5)
  BY OtherParameters
<1> HIDE DEF s, t1, t2, t3, t4, t5
<1>4. /\ s \in Seq(S) /\ t1 \in Seq(S) /\ t2 \in Seq(S) /\ t3 \in Seq(S) /\ t4 \in Seq(S)
      /\ t5 \in Seq(S)
  BY <1>2, <1>3
<1> HIDE DEF S
<1>5. (s \o t1) \in Seq(S) /\ Distinct(s \o t1)
  BY <1>2, <1>3, <1>4, ConcatDistinct
<1>6. (s \o t1 \o t2) \in Seq(S) /\ Distinct(s \o t1 \o t2)
  BY <1>3, <1>4, <1>5, ConcatDistinct
<1>7. (s \o t1 \o t2 \o t3) \in Seq(S) /\ Distinct(s \o t1 \o t2 \o t3)
  BY <1>3, <1>4, <1>6, ConcatDistinct
<1>8. (s \o t1 \o t2 \o t3 \o t4) \in Seq(S) /\ Distinct(s \o t1 \o t2 \o t3 \o t4)
  BY <1>3, <1>4, <1>7, ConcatDistinct
<1>9. Observations[l] \in Seq(S) /\ Distinct(Observations[l])
  BY <1>1, <1>3, <1>4, <1>8, ConcatDistinct
<1> QED
  BY <1>9, LenProperties

-----------------------------------------------------------------------------
(* What a step means to the counters. *)

\* Call a goes on with its conversation, or ends.
Moves(a, pc) ==
    /\ \A b \in Analyzers : b # a => proc'[b] = proc[b]
    /\ proc'[a].pc = pc
    /\ pc # "idle" => proc'[a].log = proc[a].log

SampleLabels == {"find", "delete"} \union Collections

\* A conversation is delivered; its endpoint's document is written; parameters
\* are updated; samples are inserted and pruned; counters are raised; the call
\* gives up or dies.
Begins(a) ==
    /\ proc[a].pc = "idle" /\ proc'[a].pc = "inventory"
    /\ \A b \in Analyzers : b # a => proc'[b] = proc[b]
    /\ deliveries' = deliveries + 1 /\ UNCHANGED <<inventory, parameters, metrics, inserted>>
Writes(a) ==
    LET doc == IF Fp(a) \in DOMAIN inventory THEN inventory[Fp(a)] ELSE NewDocument(a)
    IN  /\ proc[a].pc = "inventory" /\ (Moves(a, "parameters") \/ Moves(a, "idle"))
        /\ inventory' = [fp \in DOMAIN inventory \union {Fp(a)} |->
                             IF fp = Fp(a) THEN UpdatedDocument(a, doc) ELSE inventory[fp]]
        /\ UNCHANGED <<parameters, metrics, inserted, deliveries>>
Observes(a) ==
    LET observations == Observations[proc[a].log]
        Key(i) == <<Fp(a), observations[i].loc, observations[i].name>>
    IN  /\ proc[a].pc = "parameters" /\ Moves(a, "traffic_samples")
        /\ \E done \in 0..Len(observations) :
               parameters' =
                   [k \in DOMAIN parameters \union {Key(i) : i \in 1..done} |->
                       UpsertParameter(k, observations, {i \in 1..done : Key(i) = k})]
        /\ UNCHANGED <<inventory, metrics, inserted, deliveries>>
Samples(a) ==
    /\ proc[a].pc \in SampleLabels
    /\ \E pc \in SampleLabels \union {"metrics"} : Moves(a, pc)
    /\ \A s \in inserted' : s \in inserted \/ (s.fp = Fp(a) /\ s.log = proc[a].log)
    /\ UNCHANGED <<inventory, parameters, metrics, deliveries>>
Counts(a) ==
    /\ proc[a].pc = "metrics" /\ Moves(a, "idle")
    /\ \E counted \in SUBSET {trafficMetricUpdate(a, g) : g \in Range(GranularityOrder)} :
           metrics' = [k \in DOMAIN metrics \union counted |->
                          (IF k \in DOMAIN metrics THEN metrics[k] ELSE 0)
                              + (IF k \in counted THEN 1 ELSE 0)]
    /\ UNCHANGED <<inventory, parameters, inserted, deliveries>>
Ends(a) ==
    /\ proc[a].pc # "idle" /\ Moves(a, "idle")
    /\ UNCHANGED <<inventory, parameters, metrics, inserted, deliveries>>
CountKind(a) ==
    Begins(a) \/ Writes(a) \/ Observes(a) \/ Samples(a) \/ Counts(a) \/ Ends(a)

LEMMA GotoMoves ==
  ASSUME CallInv, NEW a \in Analyzers, NEW pc \in Labels, Goto(a, pc)
  PROVE  Moves(a, pc)
<1> DEFINE q == [proc[a] EXCEPT !.pc = pc]
           r == [q EXCEPT !.ids = {}]
<1>1. proc \in [Analyzers -> CallState] /\ proc[a] \in CallState
  BY DEF CallInv
<1>2. q \in CallState /\ q.pc = pc /\ q.log = proc[a].log
  BY <1>1 DEF CallState
<1>3. proc' = [proc EXCEPT ![a] = r]
  BY <1>1 DEF Goto
<1> HIDE DEF q
<1>4. r.pc = q.pc /\ r.log = q.log
  BY <1>2 DEF CallState
<1> HIDE DEF r
<1> QED
  BY <1>1, <1>2, <1>3, <1>4 DEF Moves

LEMMA ReturnMoves ==
  ASSUME CallInv, NEW a \in Analyzers, Return(a)
  PROVE  Moves(a, "idle")
  BY ReturnBecomes DEF Moves, Becomes

LEMMA FinishMoves ==
  ASSUME CallInv, NEW a \in Analyzers, NEW coll \in Collections,
         proc' = [proc EXCEPT ![a] = Finish(a, coll)]
  PROVE  \E pc \in SampleLabels \union {"metrics"} : Moves(a, pc)
<1> DEFINE q == [proc[a] EXCEPT !.pc = After[coll]]
           r == [q EXCEPT !.ids = {}]
           t == [r EXCEPT !.coll = ""]
<1>1. proc \in [Analyzers -> CallState] /\ proc[a] \in CallState
      /\ After[coll] \in SampleLabels \union {"metrics"} /\ After[coll] \in Labels
  BY AfterLabel DEF CallInv, Labels, SampleLabels, Collections
<1>2. q \in CallState /\ q.pc = After[coll] /\ q.log = proc[a].log
  BY <1>1 DEF CallState
<1>3. Finish(a, coll) = t
  BY <1>1 DEF Finish
<1> HIDE DEF q
<1>4. r \in CallState /\ r.pc = q.pc /\ r.log = q.log
  BY <1>2 DEF CallState
<1> HIDE DEF r
<1>5. t \in CallState /\ t.pc = q.pc /\ t.log = q.log
  BY <1>4 DEF CallState
<1> HIDE DEF t
<1>6. Moves(a, After[coll])
  BY <1>1, <1>2, <1>3, <1>5 DEF Moves
<1> QED
  BY <1>1, <1>6

\* Every step of a call is of one of these kinds.
LEMMA CountKindOfStep ==
  ASSUME CallInv, NEW a \in Analyzers, Analyze(a)
  PROVE  CountKind(a)
<1>0. /\ proc \in [Analyzers -> CallState] /\ proc[a] \in CallState
      /\ proc[a].coll # "" <=> proc[a].pc \in {"find", "delete"}
  BY DEF CallInv
<1>1. ASSUME NEW l \in DOMAIN Logs, ProcessLog(a, l)
      PROVE  Begins(a)
  <2> DEFINE q == [Idle EXCEPT !.pc = "inventory"]
             r == [q EXCEPT !.log = l]
             t == [r EXCEPT !.now = deliveries + 1]
  <2>1. /\ proc' = [proc EXCEPT ![a] = t] /\ proc[a].pc = "idle"
        /\ deliveries' = deliveries + 1
        /\ UNCHANGED <<inventory, parameters, metrics, inserted>>
    BY <1>1 DEF ProcessLog
  <2>2. q.pc = "inventory" /\ DOMAIN q = {"pc", "log", "now", "ids", "coll"}
    BY DEF Idle
  <2> HIDE DEF q
  <2>3. r.pc = "inventory" /\ DOMAIN r = {"pc", "log", "now", "ids", "coll"}
    BY <2>2
  <2> HIDE DEF r
  <2>4. t.pc = "inventory"
    BY <2>3
  <2> HIDE DEF t
  <2> QED
    BY <1>0, <2>1, <2>4 DEF Begins
<1>2. ASSUME NEW outcome \in Outcomes, UpdateInventory(a, outcome)
      PROVE  Writes(a) \/ Ends(a)
  <2>1. /\ proc[a].pc = "inventory"
        /\ outcome = "ok" => Goto(a, "parameters")
        /\ outcome # "ok" => Return(a)
        /\ UNCHANGED <<parameters, metrics, inserted, deliveries>>
    BY <1>2 DEF UpdateInventory, AfterInventory
  <2>2. /\ outcome = "ok" => Moves(a, "parameters")
        /\ outcome # "ok" => Moves(a, "idle")
    BY <2>1, GotoMoves, ReturnMoves DEF Labels
  <2>3. CASE Applied(outcome)
    BY <1>2, <2>1, <2>2, <2>3 DEF UpdateInventory, Writes
  <2>4. CASE ~Applied(outcome)
    <3>1. UNCHANGED inventory /\ outcome # "ok"
      BY <1>2, <2>4 DEF UpdateInventory, Applied
    <3> QED
      BY <2>1, <2>2, <3>1 DEF Ends
  <2> QED
    BY <2>3, <2>4
<1>3. ASSUME NEW outcome \in Outcomes, NEW done, UpsertParameters(a, done, outcome)
      PROVE  Observes(a)
  <2>1. Moves(a, "traffic_samples")
    BY <1>3, GotoMoves DEF UpsertParameters, Labels, Collections
  <2> QED
    BY <1>3, <2>1 DEF UpsertParameters, Observes
<1>4. ASSUME NEW coll \in Collections, NEW outcome \in Outcomes, InsertSample(a, coll, outcome)
      PROVE  Samples(a)
  <2> DEFINE s == [id |-> NextId, coll |-> coll, fp |-> Fp(a), log |-> proc[a].log,
                   at |-> observedAt(a), created |-> proc[a].now]
  <2>1. /\ proc[a].pc = coll
        /\ inserted' = IF Applied(outcome) THEN inserted \union {s} ELSE inserted
        /\ UNCHANGED <<inventory, parameters, metrics, deliveries>>
    BY <1>4 DEF InsertSample
  <2>2. s.fp = Fp(a) /\ s.log = proc[a].log
    OBVIOUS
  <2> HIDE DEF s
  <2>3. \A u \in inserted' : u \in inserted \/ (u.fp = Fp(a) /\ u.log = proc[a].log)
    BY <2>1, <2>2
  <2>4. CASE outcome = "ok"
    <3> DEFINE q == [proc[a] EXCEPT !.pc = "find"]
               r == [q EXCEPT !.coll = coll]
    <3>1. proc' = [proc EXCEPT ![a] = r]
      BY <1>0, <1>4, <2>4 DEF InsertSample
    <3>2. q \in CallState /\ q.pc = "find" /\ q.log = proc[a].log
      BY <1>0 DEF CallState, Labels
    <3> HIDE DEF q
    <3>3. r.pc = "find" /\ r.log = proc[a].log
      BY <3>2 DEF CallState
    <3> HIDE DEF r
    <3>4. Moves(a, "find")
      BY <1>0, <3>1, <3>3 DEF Moves
    <3> QED
      BY <2>1, <2>3, <3>4 DEF Samples, SampleLabels
  <2>5. CASE outcome # "ok"
    <3>1. Goto(a, After[coll]) /\ After[coll] \in {"sensitive_samples", "metrics"}
      BY <1>4, <2>5, AfterLabel DEF InsertSample
    <3>2. Moves(a, After[coll])
      BY <3>1, GotoMoves DEF Labels, Collections
    <3> QED
      BY <2>1, <2>3, <3>1, <3>2 DEF Samples, SampleLabels, Collections
  <2> QED
    BY <2>4, <2>5
<1>5. ASSUME NEW coll \in Collections, SkipSample(a, coll)
      PROVE  Samples(a)
  <2>1. /\ proc[a].pc = coll /\ Goto(a, After[coll])
        /\ UNCHANGED <<inventory, parameters, metrics, deliveries, inserted>>
    BY <1>5 DEF SkipSample
  <2>2. After[coll] \in {"sensitive_samples", "metrics"}
    BY AfterLabel
  <2>3. Moves(a, After[coll])
    BY <2>1, <2>2, GotoMoves DEF Labels, Collections
  <2> QED
    BY <2>1, <2>2, <2>3 DEF Samples, SampleLabels, Collections
<1>6. ASSUME NEW coll \in Collections, NEW outcome \in Outcomes, FindExcess(a, coll, outcome)
      PROVE  Samples(a)
  <2> DEFINE excess == Excess({s \in samples : s.coll = coll /\ s.fp = Fp(a)})
  <2>1. /\ proc[a].pc = "find"
        /\ proc' = [proc EXCEPT ![a] = IF outcome = "ok" /\ excess # {}
                                       THEN [@ EXCEPT !.pc = "delete", !.ids = excess]
                                       ELSE Finish(a, coll)]
        /\ UNCHANGED <<inventory, parameters, metrics, deliveries, inserted>>
    BY <1>6 DEF FindExcess
  <2> HIDE DEF excess
  <2>2. CASE outcome = "ok" /\ excess # {}
    <3> DEFINE q == [proc[a] EXCEPT !.pc = "delete"]
               r == [q EXCEPT !.ids = excess]
    <3>1. proc' = [proc EXCEPT ![a] = r]
      BY <1>0, <2>1, <2>2
    <3>2. q \in CallState /\ q.pc = "delete" /\ q.log = proc[a].log
      BY <1>0 DEF CallState, Labels
    <3> HIDE DEF q
    <3>3. r.pc = "delete" /\ r.log = proc[a].log
      BY <3>2 DEF CallState
    <3> HIDE DEF r
    <3>4. Moves(a, "delete")
      BY <1>0, <3>1, <3>3 DEF Moves
    <3> QED
      BY <2>1, <3>4 DEF Samples, SampleLabels
  <2>3. CASE ~(outcome = "ok" /\ excess # {})
    <3>1. proc' = [proc EXCEPT ![a] = Finish(a, coll)]
      BY <2>1, <2>3
    <3>2. \E pc \in SampleLabels \union {"metrics"} : Moves(a, pc)
      BY <3>1, FinishMoves
    <3> QED
      BY <2>1, <3>2 DEF Samples, SampleLabels
  <2> QED
    BY <2>2, <2>3
<1>7. ASSUME NEW coll \in Collections, NEW outcome \in Outcomes, DeleteExcess(a, coll, outcome)
      PROVE  Samples(a)
  <2>1. /\ proc[a].pc = "delete" /\ proc' = [proc EXCEPT ![a] = Finish(a, coll)]
        /\ UNCHANGED <<inventory, parameters, metrics, deliveries, inserted>>
    BY <1>7 DEF DeleteExcess
  <2>2. \E pc \in SampleLabels \union {"metrics"} : Moves(a, pc)
    BY <2>1, FinishMoves
  <2> QED
    BY <2>1, <2>2 DEF Samples, SampleLabels
<1>8. ASSUME NEW outcome \in Outcomes, NEW done \in 0..Len(GranularityOrder), NEW call,
             RecordMetrics(a, done, call, outcome)
      PROVE  Counts(a)
  <2> DEFINE complete == {GranularityOrder[i] : i \in 1..done}
             next == {GranularityOrder[i] : i \in {done + 1} \intersect DOMAIN GranularityOrder}
             applied == IF outcome = "applied" THEN NewBuckets(a, next) ELSE {}
             counted == {trafficMetricUpdate(a, g) :
                 g \in NewBuckets(a, complete) \union (IF call = "counter" THEN applied ELSE {})}
  <2>1. /\ proc[a].pc = "metrics" /\ Return(a)
        /\ metrics' = [k \in DOMAIN metrics \union counted |->
                          (IF k \in DOMAIN metrics THEN metrics[k] ELSE 0)
                              + (IF k \in counted THEN 1 ELSE 0)]
        /\ UNCHANGED <<inventory, parameters, inserted, deliveries>>
    BY <1>8 DEF RecordMetrics
  <2>2. Moves(a, "idle")
    BY <2>1, ReturnMoves
  <2>3. complete \subseteq Range(GranularityOrder) /\ next \subseteq Range(GranularityOrder)
    <3>1. DOMAIN GranularityOrder = 1..Len(GranularityOrder) /\ Len(GranularityOrder) \in Nat
      BY DEF GranularityOrder
    <3>2. 1..done \subseteq DOMAIN GranularityOrder
      BY <3>1
    <3> HIDE DEF GranularityOrder
    <3> QED
      BY <3>2 DEF Range
  <2>4. NewBuckets(a, complete) \subseteq complete /\ NewBuckets(a, next) \subseteq next
    BY DEF NewBuckets
  <2>5. counted \in SUBSET {trafficMetricUpdate(a, g) : g \in Range(GranularityOrder)}
    <3> HIDE DEF complete, next
    <3> QED
      BY <2>3, <2>4
  <2> HIDE DEF counted
  <2> QED
    BY <2>1, <2>2, <2>5 DEF Counts
<1>9. ASSUME Crash(a)
      PROVE  Ends(a)
  <2>1. Moves(a, "idle")
    BY <1>9, ReturnMoves DEF Crash
  <2> QED
    BY <1>9, <2>1 DEF Crash, Ends
<1> QED
  <2> HIDE DEF Begins, Writes, Observes, Samples, Counts, Ends
  <2> QED
    BY <1>1, <1>2, <1>3, <1>4, <1>5, <1>6, <1>7, <1>8, <1>9 DEF Analyze, CountKind

-----------------------------------------------------------------------------
(* The counters. *)

LEMMA OneMember ==
  ASSUME NEW S, IsFiniteSet(S), NEW x
  PROVE  /\ Cardinality(S) \in Nat
         /\ IsFiniteSet(S \union {x}) /\ Cardinality(S \union {x}) \in Nat
         /\ IsFiniteSet(S \ {x}) /\ Cardinality(S \ {x}) \in Nat
         /\ Cardinality(S \union {x}) <= Cardinality(S) + 1
         /\ Cardinality(S \ {x}) <= Cardinality(S)
         /\ x \in S => Cardinality(S \ {x}) = Cardinality(S) - 1
<1>1. /\ Cardinality(S) \in Nat
      /\ IsFiniteSet(S \union {x})
      /\ Cardinality(S \union {x}) = IF x \in S THEN Cardinality(S) ELSE Cardinality(S) + 1
  BY FS_AddElement, FS_CardinalityType
<1>2. /\ IsFiniteSet(S \ {x})
      /\ Cardinality(S \ {x}) = IF x \in S THEN Cardinality(S) - 1 ELSE Cardinality(S)
  BY FS_RemoveElement
<1>3. Cardinality(S \union {x}) \in Nat /\ Cardinality(S \ {x}) \in Nat
  BY <1>1, <1>2, FS_CardinalityType
<1> QED
  BY <1>1, <1>2, <1>3

LEMMA CallsAreFinite ==
  ASSUME NEW fp
  PROVE  /\ IsFiniteSet(Active) /\ Cardinality(Active) \in Nat
         /\ IsFiniteSet(Recorded(fp)) /\ Cardinality(Recorded(fp)) \in Nat
         /\ IsFiniteSet(Observing(fp)) /\ Cardinality(Observing(fp)) \in Nat
         /\ Cardinality(Observing(fp)) <= Cardinality(Recorded(fp))
<1>1. /\ Active \subseteq Analyzers /\ Recorded(fp) \subseteq Analyzers
      /\ Observing(fp) \subseteq Recorded(fp)
  BY DEF Active, Recorded, Observing
<1> QED
  BY <1>1, TrafficInventoryAssumption, FS_Subset, FS_CardinalityType

LEMMA MovedCalls ==
  ASSUME NEW a \in Analyzers, NEW pc, Moves(a, pc), NEW fp
  PROVE  /\ Active' = IF pc = "idle" THEN Active \ {a} ELSE Active \union {a}
         /\ Recorded(fp)' = IF pc \notin {"idle", "inventory"} /\ Fp(a) = fp
                            THEN Recorded(fp) \union {a} ELSE Recorded(fp) \ {a}
         /\ Observing(fp)' = IF pc = "parameters" /\ Fp(a) = fp
                             THEN Observing(fp) \union {a} ELSE Observing(fp) \ {a}
<1>1. /\ \A b \in Analyzers : b # a => proc'[b] = proc[b]
      /\ proc'[a].pc = pc /\ (pc # "idle" => proc'[a].log = proc[a].log)
  BY DEF Moves
<1>2. \A b \in Analyzers : b # a => Fp(b)' = Fp(b)
  BY <1>1 DEF Fp
<1>3. pc # "idle" => Fp(a)' = Fp(a)
  BY <1>1 DEF Fp
<1> HIDE DEF Fp
<1>4. Active' = IF pc = "idle" THEN Active \ {a} ELSE Active \union {a}
  BY <1>1 DEF Active
<1>5. Recorded(fp)' = {b \in Analyzers : proc'[b].pc \notin {"idle", "inventory"} /\ Fp(b)' = fp}
  BY DEF Recorded
<1>6. Observing(fp)' = {b \in Analyzers : proc'[b].pc = "parameters" /\ Fp(b)' = fp}
  BY DEF Observing
<1>7. Recorded(fp)' = IF pc \notin {"idle", "inventory"} /\ Fp(a) = fp
                      THEN Recorded(fp) \union {a} ELSE Recorded(fp) \ {a}
  BY <1>1, <1>2, <1>3, <1>5 DEF Recorded
<1>8. Observing(fp)' = IF pc = "parameters" /\ Fp(a) = fp
                       THEN Observing(fp) \union {a} ELSE Observing(fp) \ {a}
  BY <1>1, <1>2, <1>3, <1>6 DEF Observing
<1> QED
  BY <1>4, <1>7, <1>8

LEMMA BegunCalls ==
  ASSUME NEW a \in Analyzers, Begins(a), NEW fp
  PROVE  /\ Active' = Active \union {a}
         /\ Recorded(fp)' = Recorded(fp) /\ Observing(fp)' = Observing(fp)
<1>1. /\ \A b \in Analyzers : b # a => proc'[b] = proc[b]
      /\ proc[a].pc = "idle" /\ proc'[a].pc = "inventory"
  BY DEF Begins
<1>2. \A b \in Analyzers : b # a => Fp(b)' = Fp(b)
  BY <1>1 DEF Fp
<1> HIDE DEF Fp
<1>3. Active' = Active \union {a}
  BY <1>1 DEF Active
<1>4. Recorded(fp)' = {b \in Analyzers : proc'[b].pc \notin {"idle", "inventory"} /\ Fp(b)' = fp}
  BY DEF Recorded
<1>5. Observing(fp)' = {b \in Analyzers : proc'[b].pc = "parameters" /\ Fp(b)' = fp}
  BY DEF Observing
<1>6. Recorded(fp)' = Recorded(fp)
  BY <1>1, <1>2, <1>4 DEF Recorded
<1>7. Observing(fp)' = Observing(fp)
  BY <1>1, <1>2, <1>5 DEF Observing
<1> QED
  BY <1>3, <1>6, <1>7

\* The document a call writes (saveInventory).
LEMMA WrittenDocument ==
  ASSUME CallInv, CoverInv, NEW a \in Analyzers,
         NEW doc, doc = IF Fp(a) \in DOMAIN inventory THEN inventory[Fp(a)] ELSE NewDocument(a)
  PROVE  /\ UpdatedDocument(a, doc) \in Document
         /\ UpdatedDocument(a, doc).count = Requests(Fp(a)) + 1
         /\ UpdatedDocument(a, doc).sensitive = doc.sensitive \union SensitiveData[proc[a].log]
<1> DEFINE AllData == UNION {SensitiveData[l] : l \in DOMAIN Logs}
           AllTags == UNION {endpointTags(Rules, Logs[l]) : l \in DOMAIN Logs}
           AllStatuses == {Logs[l].status : l \in DOMAIN Logs}
           paths == {Logs[l].path : l \in DOMAIN Logs}
           tags == endpointTags(Rules, Log(a))
           headers == PushedHeaders(a, doc.headers)
           status == {st \in {Log(a).status} : st > 0}
           new == UpdatedDocument(a, doc)
<1>1. proc[a].log \in DOMAIN Logs /\ Log(a) = Logs[proc[a].log] /\ observedAt(a) \in Nat
  BY ObservedIsTime DEF CallInv, CallState, Log
<1>2. /\ doc.path \in paths /\ doc.firstSeen \in Nat /\ doc.count \in Nat
      /\ doc.count = Requests(Fp(a)) /\ doc.sensitive \subseteq AllData
      /\ doc.tags \subseteq AllTags /\ doc.statuses \subseteq AllStatuses
      /\ doc.headers \in [HeaderNames -> Seq(StoredField)]
  <2>1. CASE Fp(a) \in DOMAIN inventory
    <3>1. doc \in Document /\ doc = inventory[Fp(a)]
      BY <2>1 DEF CoverInv
    <3>2. doc.count = Requests(Fp(a))
      BY <2>1, <3>1 DEF Requests
    <3> HIDE DEF AllData, AllTags, AllStatuses
    <3>3. Document = [path : paths, firstSeen : Nat, lastSeen : Nat, count : Nat \ {0},
                      latest : DOMAIN Logs, sensitive : SUBSET AllData, tags : SUBSET AllTags,
                      statuses : SUBSET AllStatuses,
                      headers : [HeaderNames -> Seq(StoredField)]]
      BY DEF Document, AllData, AllTags, AllStatuses
    <3> HIDE DEF paths
    <3> QED
      BY <3>1, <3>2, <3>3
  <2>2. CASE Fp(a) \notin DOMAIN inventory
    <3>1. doc = NewDocument(a) /\ Requests(Fp(a)) = 0
      BY <2>2 DEF Requests
    <3>2. /\ doc.path = Log(a).path /\ doc.firstSeen = observedAt(a) /\ doc.count = 0
          /\ doc.sensitive = {} /\ doc.tags = {} /\ doc.statuses = {}
          /\ doc.headers = [name \in HeaderNames |-> << >>]
      BY <3>1 DEF NewDocument
    <3> HIDE DEF AllData, AllTags, AllStatuses
    <3>3. doc.path \in paths
      BY <1>1, <3>2
    <3>4. doc.headers \in [HeaderNames -> Seq(StoredField)]
      BY <3>2, EmptySeq
    <3> HIDE DEF paths
    <3> QED
      BY <1>1, <3>1, <3>2, <3>3, <3>4
  <2> QED
    BY <2>1, <2>2
<1>3. /\ new = [path |-> doc.path, firstSeen |-> doc.firstSeen, lastSeen |-> observedAt(a),
                count |-> doc.count + 1, latest |-> proc[a].log,
                sensitive |-> doc.sensitive \union SensitiveData[proc[a].log],
                tags |-> doc.tags \union tags, statuses |-> doc.statuses \union status,
                headers |-> headers]
  BY DEF UpdatedDocument
<1>4. headers \in [HeaderNames -> Seq(StoredField)]
  <2>1. ASSUME NEW name \in HeaderNames
        PROVE  headers[name] \in Seq(StoredField)
    <3>1. doc.headers[name] \in Seq(StoredField) /\ SafeField(name) \subseteq StoredField
      BY <1>2 DEF SafeField
    <3> QED
      BY <3>1, PushedValues
  <2>2. headers = [name \in HeaderNames |-> headers[name]]
    BY DEF PushedHeaders
  <2> QED
    BY <2>1, <2>2
<1>5. SensitiveData[proc[a].log] \subseteq AllData
  BY <1>1
<1>6. tags \subseteq AllTags
  BY <1>1
<1>7. status \subseteq AllStatuses
  BY <1>1
<1>8. Document = [path : paths, firstSeen : Nat, lastSeen : Nat, count : Nat \ {0},
                  latest : DOMAIN Logs, sensitive : SUBSET AllData, tags : SUBSET AllTags,
                  statuses : SUBSET AllStatuses,
                  headers : [HeaderNames -> Seq(StoredField)]]
  BY DEF Document
<1>9. doc.count + 1 \in Nat \ {0}
  BY <1>2
<1> HIDE DEF AllData, AllTags, AllStatuses, paths, tags, headers, status, new
<1>10. new \in Document
  BY <1>1, <1>2, <1>3, <1>4, <1>5, <1>6, <1>7, <1>8, <1>9
<1> QED
  BY <1>2, <1>3, <1>10 DEF new

\* A request more for the endpoint whose document is written, and it covers more.
LEMMA WrittenRequests ==
  ASSUME CallInv, CoverInv, NEW a \in Analyzers, Writes(a)
  PROVE  /\ DOMAIN inventory' = DOMAIN inventory \union {Fp(a)}
         /\ \A fp \in DOMAIN inventory' : inventory'[fp] \in Document
         /\ \A fp : Requests(fp)' = IF fp = Fp(a) THEN Requests(fp) + 1 ELSE Requests(fp)
         /\ \A fp \in DOMAIN inventory : inventory[fp].sensitive \subseteq inventory'[fp].sensitive
         /\ SensitiveData[proc[a].log] \subseteq inventory'[Fp(a)].sensitive
<1> DEFINE doc == IF Fp(a) \in DOMAIN inventory THEN inventory[Fp(a)] ELSE NewDocument(a)
           new == UpdatedDocument(a, doc)
<1>1. inventory' = [fp \in DOMAIN inventory \union {Fp(a)} |->
                        IF fp = Fp(a) THEN new ELSE inventory[fp]]
  BY DEF Writes
<1>2. /\ new \in Document /\ new.count = Requests(Fp(a)) + 1
      /\ new.sensitive = doc.sensitive \union SensitiveData[proc[a].log]
  <2> HIDE DEF doc
  <2> QED
    BY WrittenDocument DEF doc
<1>3. Fp(a) \in DOMAIN inventory => doc = inventory[Fp(a)]
  OBVIOUS
<1>4. \A fp \in DOMAIN inventory : inventory[fp] \in Document
  BY DEF CoverInv
<1> HIDE DEF new, doc, Fp
<1>5. /\ DOMAIN inventory' = DOMAIN inventory \union {Fp(a)} /\ inventory'[Fp(a)] = new
      /\ \A fp \in DOMAIN inventory : fp # Fp(a) => inventory'[fp] = inventory[fp]
  BY <1>1
<1>6. ASSUME NEW fp
      PROVE  Requests(fp)' = IF fp = Fp(a) THEN Requests(fp) + 1 ELSE Requests(fp)
  <2>1. Requests(fp)' = IF fp \in DOMAIN inventory' THEN inventory'[fp].count ELSE 0
    BY DEF Requests
  <2>2. CASE fp = Fp(a)
    BY <1>2, <1>5, <2>1, <2>2
  <2>3. CASE fp # Fp(a)
    BY <1>5, <2>1, <2>3 DEF Requests
  <2> QED
    BY <2>2, <2>3
<1> QED
  BY <1>2, <1>3, <1>4, <1>5, <1>6

LEMMA RequestsIsNat ==
  ASSUME CoverInv, NEW fp
  PROVE  Requests(fp) \in Nat
<1>1. CASE fp \in DOMAIN inventory
  <2>1. inventory[fp] \in Document
    BY <1>1 DEF CoverInv
  <2>2. inventory[fp].count \in Nat \ {0}
    BY <2>1 DEF Document
  <2> QED
    BY <1>1, <2>2 DEF Requests
<1>2. CASE fp \notin DOMAIN inventory
  BY <1>2 DEF Requests
<1> QED
  BY <1>1, <1>2

LEMMA CoverStep ==
  ASSUME CallInv, CoverInv, NEW a \in Analyzers, CountKind(a)
  PROVE  CoverInv'
<1> DEFINE In(docs, fp, log) ==
               fp \in DOMAIN docs /\ SensitiveData[log] \subseteq docs[fp].sensitive
<1>0. /\ \A fp \in DOMAIN inventory : inventory[fp] \in Document
      /\ \A b \in Analyzers : proc[b].pc \notin {"idle", "inventory"} =>
            In(inventory, FingerprintOf[proc[b].log], proc[b].log)
      /\ \A s \in inserted : In(inventory, s.fp, s.log)
  BY DEF CoverInv, Covered, Fp
<1>1. UNCHANGED inventory \/ Writes(a)
  BY DEF CountKind, Begins, Observes, Samples, Counts, Ends
<1>2. /\ \A fp \in DOMAIN inventory' : inventory'[fp] \in Document
      /\ \A fp, log : In(inventory, fp, log) => In(inventory', fp, log)
  <2>1. CASE UNCHANGED inventory
    BY <1>0, <2>1
  <2>2. CASE Writes(a)
    BY <2>2, WrittenRequests
  <2> QED
    BY <1>1, <2>1, <2>2
<1>3. \A b \in Analyzers : b # a => proc'[b] = proc[b]
  BY DEF CountKind, Begins, Writes, Observes, Samples, Counts, Ends, Moves
<1>4. proc'[a].pc \notin {"idle", "inventory"} =>
        In(inventory', FingerprintOf[proc'[a].log], proc'[a].log)
  <2>1. CASE Begins(a) \/ Counts(a) \/ Ends(a)
    BY <2>1 DEF Begins, Counts, Ends, Moves
  <2>2. CASE Observes(a) \/ Samples(a)
    <3>1. /\ proc[a].pc \notin {"idle", "inventory"}
          /\ \E pc : pc # "idle" /\ Moves(a, pc)
      BY <2>2 DEF Observes, Samples, SampleLabels, Collections
    <3>2. proc'[a].log = proc[a].log
      BY <3>1 DEF Moves
    <3>3. In(inventory, FingerprintOf[proc[a].log], proc[a].log)
      BY <1>0, <3>1
    <3> HIDE DEF In
    <3> QED
      BY <1>2, <3>2, <3>3
  <2>3. CASE Writes(a)
    <3>1. SensitiveData[proc[a].log] \subseteq inventory'[Fp(a)].sensitive
          /\ Fp(a) \in DOMAIN inventory'
      BY <2>3, WrittenRequests
    <3>2. proc'[a].pc # "idle" => proc'[a].log = proc[a].log
      BY <2>3 DEF Writes, Moves
    <3> QED
      BY <3>1, <3>2 DEF Fp
  <2> QED
    BY <2>1, <2>2, <2>3 DEF CountKind
<1>5. \A s \in inserted' : In(inventory', s.fp, s.log)
  <2>1. CASE UNCHANGED inserted
    BY <1>0, <1>2, <2>1
  <2>2. CASE Samples(a)
    <3>1. /\ proc[a].pc \notin {"idle", "inventory"}
          /\ \A s \in inserted' : s \in inserted \/ (s.fp = Fp(a) /\ s.log = proc[a].log)
      BY <2>2 DEF Samples, SampleLabels, Collections
    <3>2. In(inventory, FingerprintOf[proc[a].log], proc[a].log)
      BY <1>0, <3>1
    <3>3. ASSUME NEW s \in inserted'
          PROVE  In(inventory, s.fp, s.log)
      <4>1. CASE s \in inserted
        BY <1>0, <4>1
      <4>2. CASE s.fp = Fp(a) /\ s.log = proc[a].log
        BY <3>2, <4>2 DEF Fp
      <4> QED
        BY <3>1, <4>1, <4>2
    <3> QED
      BY <1>2, <3>3
  <2> QED
    BY <2>1, <2>2 DEF CountKind, Begins, Writes, Observes, Counts, Ends
<1>6. \A b \in Analyzers : proc'[b].pc \notin {"idle", "inventory"} =>
        In(inventory', FingerprintOf[proc'[b].log], proc'[b].log)
  <2> SUFFICES ASSUME NEW b \in Analyzers, proc'[b].pc \notin {"idle", "inventory"}
               PROVE  In(inventory', FingerprintOf[proc'[b].log], proc'[b].log)
    OBVIOUS
  <2>1. CASE b = a
    BY <1>4, <2>1
  <2>2. CASE b # a
    <3>1. In(inventory, FingerprintOf[proc[b].log], proc[b].log) /\ proc'[b] = proc[b]
      BY <1>0, <1>3, <2>2
    <3> HIDE DEF In
    <3> QED
      BY <1>2, <3>1
  <2> QED
    BY <2>1, <2>2
<1> QED
  BY <1>2, <1>5, <1>6 DEF CoverInv, Covered, Fp

\* What a call makes of one parameter: a path parameter is observed once.
LEMMA ObservedParameter ==
  ASSUME CallInv, ParameterInv, NEW a \in Analyzers, Observes(a), NEW k \in DOMAIN parameters'
  PROVE  /\ parameters'[k].count \in Nat \ {0}
         /\ \/ k \in DOMAIN parameters /\ parameters'[k].count = parameters[k].count
            \/ k[2] # "path"
            \/ /\ k[1] = Fp(a)
               /\ parameters'[k].count
                    = (IF k \in DOMAIN parameters THEN parameters[k].count ELSE 0) + 1
<1> DEFINE observations == Observations[proc[a].log]
           Key(i) == <<Fp(a), observations[i].loc, observations[i].name>>
<1>1. PICK done \in 0..Len(observations) :
        parameters' = [m \in DOMAIN parameters \union {Key(i) : i \in 1..done} |->
                          UpsertParameter(m, observations, {i \in 1..done : Key(i) = m})]
  BY DEF Observes
<1> DEFINE observed == {i \in 1..done : Key(i) = k}
           before == IF k \in DOMAIN parameters THEN parameters[k].count ELSE 0
<1>2. /\ Len(observations) \in Nat /\ DOMAIN observations = 1..Len(observations)
      /\ Distinct(observations)
  BY ObservationsAreDistinct DEF CallInv, CallState
<1>3. k \in DOMAIN parameters \/ observed # {}
  BY <1>1
<1>4. parameters'[k].count = before + Cardinality(observed)
  <2>1. parameters'[k] = UpsertParameter(k, observations, observed)
    BY <1>1
  <2> HIDE DEF observed, observations
  <2> QED
    BY <2>1 DEF UpsertParameter
<1>5. IsFiniteSet(observed) /\ Cardinality(observed) \in Nat
      /\ (observed # {} => Cardinality(observed) # 0)
  <2>1. done \in Nat
    BY <1>2
  <2>2. IsFiniteSet(1..done)
    BY <2>1, FS_Interval
  <2> QED
    BY <2>2, FS_Subset, FS_CardinalityType, FS_EmptySet
<1>6. before \in Nat /\ (k \in DOMAIN parameters => before # 0)
  BY DEF ParameterInv
<1>7. parameters'[k].count \in Nat \ {0}
  <2> HIDE DEF observed, before
  <2> QED
    BY <1>3, <1>4, <1>5, <1>6
<1>8. CASE observed = {}
  <2>1. Cardinality(observed) = 0
    BY <1>8, FS_EmptySet
  <2> HIDE DEF observed
  <2> QED
    BY <1>3, <1>4, <1>6, <1>7, <1>8, <2>1
<1>9. CASE observed # {} /\ k[2] = "path"
  <2>1. PICK i \in 1..done : Key(i) = k
    BY <1>9
  <2>2. k[1] = Fp(a) /\ observations[i].loc = "path" /\ observations[i].name = k[3]
    BY <1>9, <2>1
  <2>3. ASSUME NEW j \in observed
        PROVE  j = i
    <3>1. observations[j].loc = "path" /\ observations[j].name = k[3]
      BY <1>9, <2>3
    <3>2. i \in DOMAIN observations /\ j \in DOMAIN observations
      BY <1>2, <2>1, <2>3
    <3> HIDE DEF observations
    <3> QED
      BY <1>2, <2>2, <3>1, <3>2 DEF Distinct
  <2>4. observed = {i}
    BY <2>1, <2>3
  <2>5. Cardinality(observed) = 1
    BY <2>4, FS_Singleton
  <2> HIDE DEF observed
  <2> QED
    BY <1>4, <1>7, <2>2, <2>5
<1> QED
  BY <1>7, <1>8, <1>9

LEMMA ParameterStep ==
  ASSUME CallInv, CoverInv, ParameterInv, MetricInv, NEW a \in Analyzers, CountKind(a)
  PROVE  ParameterInv'
<1> SUFFICES ASSUME NEW k \in DOMAIN parameters'
             PROVE  /\ parameters'[k].count \in Nat \ {0}
                    /\ k[2] = "path" =>
                         parameters'[k].count + Cardinality(Observing(k[1])')
                           <= Requests(k[1])'
  BY DEF ParameterInv
<1>1. PICK fp : fp = k[1]
  OBVIOUS
<1> DEFINE O == Observing(fp)
           R == Requests(fp)
<1>2. IsFiniteSet(O) /\ Cardinality(O) \in Nat /\ R \in Nat
  BY CallsAreFinite, RequestsIsNat
<1>3. k \in DOMAIN parameters =>
        /\ parameters[k].count \in Nat \ {0}
        /\ k[2] = "path" => parameters[k].count + Cardinality(O) <= R
  BY <1>1 DEF ParameterInv
<1>4. /\ Cardinality(O \union {a}) \in Nat /\ Cardinality(O \union {a}) <= Cardinality(O) + 1
      /\ Cardinality(O \ {a}) \in Nat /\ Cardinality(O \ {a}) <= Cardinality(O)
      /\ a \in O => Cardinality(O \ {a}) = Cardinality(O) - 1
  BY <1>2, OneMember
<1>5. SUFFICES /\ parameters'[k].count \in Nat \ {0}
               /\ k[2] = "path" => parameters'[k].count + Cardinality(O') <= R'
  BY <1>1
<1>6. CASE Begins(a)
  <2>1. parameters' = parameters /\ R' = R
    BY <1>6 DEF Begins, Requests
  <2>2. O' = O
    BY <1>6, BegunCalls
  <2> QED
    BY <1>3, <2>1, <2>2
<1>7. CASE Samples(a) \/ Counts(a) \/ Ends(a)
  <2>1. parameters' = parameters /\ R' = R
    BY <1>7 DEF Samples, Counts, Ends, Requests
  <2>2. PICK pc : Moves(a, pc) /\ pc # "parameters"
    BY <1>7 DEF Samples, Counts, Ends, SampleLabels, Collections
  <2>3. O' = O \ {a}
    BY <2>2, MovedCalls
  <2> HIDE DEF O, R
  <2> QED
    BY <1>2, <1>3, <1>4, <2>1, <2>3
<1>8. CASE Writes(a)
  <2>1. parameters' = parameters /\ R' = IF fp = Fp(a) THEN R + 1 ELSE R
    BY <1>8, WrittenRequests DEF Writes
  <2>2. O' = O \ {a} \/ (fp = Fp(a) /\ O' = O \union {a})
    BY <1>8, MovedCalls DEF Writes
  <2> HIDE DEF O, R
  <2>3. k[2] = "path" => parameters[k].count + Cardinality(O') <= R'
    <3>1. CASE O' = O \ {a}
      BY <1>2, <1>3, <1>4, <2>1, <3>1
    <3>2. CASE fp = Fp(a) /\ O' = O \union {a}
      BY <1>2, <1>3, <1>4, <2>1, <3>2
    <3> QED
      BY <2>2, <3>1, <3>2
  <2> QED
    BY <1>3, <2>1, <2>3
<1>9. CASE Observes(a)
  <2>1. R' = R /\ proc[a].pc = "parameters"
    BY <1>9 DEF Observes, Requests
  <2>2. O' = O \ {a}
    BY <1>9, MovedCalls DEF Observes
  <2>3. /\ parameters'[k].count \in Nat \ {0}
        /\ \/ k \in DOMAIN parameters /\ parameters'[k].count = parameters[k].count
           \/ k[2] # "path"
           \/ /\ fp = Fp(a)
              /\ parameters'[k].count
                   = (IF k \in DOMAIN parameters THEN parameters[k].count ELSE 0) + 1
    BY <1>1, <1>9, ObservedParameter
  <2>4. fp = Fp(a) => a \in O
    BY <2>1 DEF Observing
  <2>5. fp = Fp(a) => Cardinality(O) <= R
    <3>1. ASSUME fp = Fp(a)
          PROVE  Cardinality(O) <= R
      <4>1. proc[a].log \in DOMAIN Logs
        BY DEF CallInv, CallState
      <4>2. fp \in Range(FingerprintOf)
        BY <3>1, <4>1 DEF Fp, Range, FingerprintOf
      <4>3. "hour" \in Range(GranularityOrder)
        BY DEF Range, GranularityOrder
      <4> DEFINE C == Counted(fp, "hour")
      <4>4. IsFiniteSet(C) /\ Cardinality(C) + Cardinality(Recorded(fp)) <= R
        BY <4>2, <4>3 DEF MetricInv
      <4>5. Cardinality(C) \in Nat /\ Cardinality(Recorded(fp)) \in Nat
            /\ Cardinality(O) <= Cardinality(Recorded(fp))
        BY <4>4, CallsAreFinite, FS_CardinalityType
      <4> HIDE DEF C, O, R
      <4> QED
        BY <1>2, <4>4, <4>5
    <3> QED
      BY <3>1
  <2> HIDE DEF O, R
  <2>6. CASE k \in DOMAIN parameters /\ parameters'[k].count = parameters[k].count
    BY <1>2, <1>3, <1>4, <2>1, <2>2, <2>6
  <2>7. CASE k[2] # "path"
    BY <2>3, <2>7
  <2>8. CASE /\ fp = Fp(a)
             /\ parameters'[k].count
                  = (IF k \in DOMAIN parameters THEN parameters[k].count ELSE 0) + 1
    <3>1. Cardinality(O') = Cardinality(O) - 1 /\ R' = R
      BY <1>4, <2>1, <2>2, <2>4, <2>8
    <3>2. CASE k \in DOMAIN parameters
      <4>1. parameters'[k].count = parameters[k].count + 1
        BY <2>8, <3>2
      <4> QED
        BY <1>2, <1>3, <2>3, <3>1, <3>2, <4>1
    <3>3. CASE k \notin DOMAIN parameters
      <4>1. parameters'[k].count = 1
        BY <2>8, <3>3
      <4> QED
        BY <1>2, <2>3, <2>5, <2>8, <3>1, <4>1
    <3> QED
      BY <3>2, <3>3
  <2> QED
    BY <2>3, <2>6, <2>7, <2>8
<1> QED
  BY <1>6, <1>7, <1>8, <1>9 DEF CountKind

\* What a call makes of one counter.
LEMMA CountedKey ==
  ASSUME MetricInv, NEW a \in Analyzers, Counts(a), proc[a].log \in DOMAIN Logs,
         NEW k \in DOMAIN metrics'
  PROVE  /\ k.fp \in Range(FingerprintOf) /\ k.granularity \in Range(GranularityOrder)
         /\ metrics'[k] \in Nat \ {0}
         /\ \/ k \in DOMAIN metrics /\ metrics'[k] = metrics[k]
            \/ k \in DOMAIN metrics /\ metrics'[k] = metrics[k] + 1
            \/ k \notin DOMAIN metrics /\ metrics'[k] = 1
         /\ \/ k \in DOMAIN metrics /\ metrics'[k] = metrics[k]
            \/ k.fp = Fp(a) /\ k = trafficMetricUpdate(a, k.granularity)
<1>1. PICK counted \in SUBSET {trafficMetricUpdate(a, g) : g \in Range(GranularityOrder)} :
        metrics' = [m \in DOMAIN metrics \union counted |->
                       (IF m \in DOMAIN metrics THEN metrics[m] ELSE 0)
                           + (IF m \in counted THEN 1 ELSE 0)]
  BY DEF Counts
<1>2. k \in DOMAIN metrics \/ k \in counted
  BY <1>1
<1>3. metrics'[k] = (IF k \in DOMAIN metrics THEN metrics[k] ELSE 0)
                        + (IF k \in counted THEN 1 ELSE 0)
  BY <1>1
<1>4. k \in DOMAIN metrics => /\ metrics[k] \in Nat \ {0} /\ k.fp \in Range(FingerprintOf)
                              /\ k.granularity \in Range(GranularityOrder)
  BY DEF MetricInv
<1>5. ASSUME k \in counted
      PROVE  /\ k.fp = Fp(a) /\ k.fp \in Range(FingerprintOf)
             /\ k.granularity \in Range(GranularityOrder)
             /\ k = trafficMetricUpdate(a, k.granularity)
  <2>1. PICK g \in Range(GranularityOrder) : k = trafficMetricUpdate(a, g)
    BY <1>5
  <2>2. k.fp = Fp(a) /\ k.granularity = g
    BY <2>1 DEF trafficMetricUpdate
  <2>3. Fp(a) \in Range(FingerprintOf)
    BY DEF Fp, Range, FingerprintOf
  <2> QED
    BY <2>1, <2>2, <2>3
<1>6. CASE k \in counted
  <2>1. CASE k \in DOMAIN metrics
    <3>1. metrics'[k] = metrics[k] + 1
      BY <1>3, <1>6, <2>1
    <3> QED
      BY <1>4, <1>5, <1>6, <2>1, <3>1
  <2>2. CASE k \notin DOMAIN metrics
    <3>1. metrics'[k] = 1
      BY <1>3, <1>6, <2>2
    <3> QED
      BY <1>5, <1>6, <2>2, <3>1
  <2> QED
    BY <2>1, <2>2
<1>7. CASE k \notin counted
  <2>1. k \in DOMAIN metrics /\ metrics'[k] = metrics[k] + 0 /\ metrics[k] \in Nat \ {0}
    BY <1>2, <1>3, <1>4, <1>7
  <2>2. metrics'[k] = metrics[k]
    BY <2>1
  <2> QED
    BY <1>4, <2>1, <2>2
<1> QED
  BY <1>6, <1>7

\* A call adds at most one increment of each granularity, for its own endpoint.
LEMMA CountedOnce ==
  ASSUME MetricInv, NEW a \in Analyzers, Counts(a), proc[a].log \in DOMAIN Logs,
         NEW fp, NEW g
  PROVE  \/ Counted(fp, g)' \subseteq Counted(fp, g)
         \/ /\ fp = Fp(a)
            /\ \E x : Counted(fp, g)' \subseteq Counted(fp, g) \union {x}
<1> DEFINE key == trafficMetricUpdate(a, g)
           x == <<key, metrics'[key]>>
<1>1. ASSUME NEW y \in Counted(fp, g)'
      PROVE  y \in Counted(fp, g) \/ (fp = Fp(a) /\ y = x)
  <2>1. PICK k \in DOMAIN metrics' :
          k.fp = fp /\ k.granularity = g /\ y \in {k} \X (1..metrics'[k])
    BY <1>1 DEF Counted
  <2>2. PICK i \in 1..metrics'[k] : y = <<k, i>>
    BY <2>1
  <2>3. /\ metrics'[k] \in Nat \ {0}
        /\ \/ k \in DOMAIN metrics /\ metrics'[k] = metrics[k]
           \/ k \in DOMAIN metrics /\ metrics'[k] = metrics[k] + 1
           \/ k \notin DOMAIN metrics /\ metrics'[k] = 1
        /\ \/ k \in DOMAIN metrics /\ metrics'[k] = metrics[k]
           \/ k.fp = Fp(a) /\ k = trafficMetricUpdate(a, k.granularity)
    BY CountedKey
  <2>4. k \in DOMAIN metrics => metrics[k] \in Nat
    BY DEF MetricInv
  <2>5. CASE k \in DOMAIN metrics /\ i \in 1..metrics[k]
    <3>1. k \in {m \in DOMAIN metrics : m.fp = fp /\ m.granularity = g}
      BY <2>1, <2>5
    <3>2. y \in {k} \X (1..metrics[k])
      BY <2>2, <2>5
    <3> QED
      BY <3>1, <3>2 DEF Counted
  <2>6. CASE ~(k \in DOMAIN metrics /\ i \in 1..metrics[k])
    <3>1. i = metrics'[k]
      BY <2>2, <2>3, <2>4, <2>6
    <3>2. fp = Fp(a) /\ k = key
      BY <2>1, <2>2, <2>3, <2>6
    <3> QED
      BY <2>2, <3>1, <3>2
  <2> QED
    BY <2>5, <2>6
<1> HIDE DEF x
<1> QED
  BY <1>1

LEMMA MetricStep ==
  ASSUME CallInv, CoverInv, MetricInv, NEW a \in Analyzers, CountKind(a)
  PROVE  MetricInv'
<1> DEFINE n == Cardinality(Active)
           m == Cardinality(Active)'
<1>1. /\ deliveries \in Nat /\ proc[a].log \in DOMAIN Logs
      /\ n <= deliveries /\ n \in Nat
  BY CallsAreFinite DEF MetricInv, CallInv, CallState
<1>2. /\ m \in Nat /\ deliveries' \in Nat /\ deliveries <= deliveries'
      /\ m - n <= deliveries' - deliveries
      /\ UNCHANGED metrics \/ (Counts(a) /\ m = n - 1)
  <2>1. IsFiniteSet(Active)
    BY CallsAreFinite
  <2>2. /\ Cardinality(Active \union {a}) \in Nat /\ Cardinality(Active \union {a}) <= n + 1
        /\ Cardinality(Active \ {a}) \in Nat /\ Cardinality(Active \ {a}) <= n
        /\ a \in Active => Cardinality(Active \ {a}) = n - 1
    BY <2>1, OneMember
  <2>3. proc[a].pc # "idle" => a \in Active /\ Active \union {a} = Active
    BY DEF Active
  <2>4. CASE Begins(a)
    <3>1. Active' = Active \union {a} /\ deliveries' = deliveries + 1 /\ UNCHANGED metrics
      BY <2>4, BegunCalls DEF Begins
    <3> HIDE DEF Active
    <3> QED
      BY <1>1, <2>2, <3>1
  <2>5. CASE Ends(a) \/ Counts(a)
    <3>1. Active' = Active \ {a} /\ deliveries' = deliveries /\ proc[a].pc # "idle"
      BY <2>5, MovedCalls DEF Ends, Counts
    <3>2. UNCHANGED metrics \/ Counts(a)
      BY <2>5 DEF Ends
    <3> HIDE DEF Active
    <3> QED
      BY <1>1, <2>2, <2>3, <3>1, <3>2
  <2>6. CASE Writes(a) \/ Observes(a) \/ Samples(a)
    <3>1. PICK pc : Moves(a, pc)
      BY <2>6 DEF Writes, Observes, Samples
    <3>2. Active' = Active \ {a} \/ Active' = Active \union {a}
      BY <3>1, MovedCalls
    <3>3. deliveries' = deliveries /\ UNCHANGED metrics /\ proc[a].pc # "idle"
      BY <2>6 DEF Writes, Observes, Samples, SampleLabels, Collections
    <3>4. /\ Cardinality(Active \union {a}) = n
          /\ Active' = Active \ {a} => m = Cardinality(Active \ {a})
          /\ Active' = Active \union {a} => m = Cardinality(Active \union {a})
      BY <2>3, <3>3
    <3> HIDE DEF n, m
    <3>5. m \in Nat /\ m <= n
      BY <1>1, <2>2, <3>2, <3>4
    <3>6. deliveries' \in Nat /\ deliveries <= deliveries' /\ m - n <= deliveries' - deliveries
      BY <1>1, <3>3, <3>5
    <3> QED
      BY <3>3, <3>5, <3>6
  <2> QED
    BY <2>4, <2>5, <2>6 DEF CountKind
<1>m. ASSUME NEW i \in Nat, i + n <= deliveries
      PROVE  i + m <= deliveries'
  <2> DEFINE d == deliveries'
  <2>1. m \in Nat /\ d \in Nat /\ m - n <= d - deliveries
    BY <1>2
  <2>2. n \in Nat /\ deliveries \in Nat /\ i + n <= deliveries
    BY <1>1, <1>m
  <2> HIDE DEF n, m, d
  <2>3. i + m <= d
    BY <2>1, <2>2
  <2> QED
    BY <2>3 DEF d
<1>3. ASSUME NEW k \in DOMAIN metrics'
      PROVE  /\ k.fp \in Range(FingerprintOf) /\ k.granularity \in Range(GranularityOrder)
             /\ metrics'[k] \in Nat \ {0} /\ metrics'[k] + m <= deliveries'
  <2>1. k \in DOMAIN metrics =>
          /\ k.fp \in Range(FingerprintOf) /\ k.granularity \in Range(GranularityOrder)
          /\ metrics[k] \in Nat \ {0} /\ metrics[k] + n <= deliveries
    BY DEF MetricInv
  <2> HIDE DEF n, m
  <2>2. CASE UNCHANGED metrics
    <3>1. k \in DOMAIN metrics /\ metrics'[k] = metrics[k]
      BY <2>2
    <3>2. metrics[k] \in Nat \ {0} /\ metrics[k] + n <= deliveries
      BY <2>1, <3>1
    <3>3. metrics[k] + m <= deliveries'
      BY <1>m, <3>2
    <3> QED
      BY <2>1, <3>1, <3>3
  <2>3. CASE Counts(a) /\ m = n - 1
    <3>1. /\ k.fp \in Range(FingerprintOf) /\ k.granularity \in Range(GranularityOrder)
          /\ metrics'[k] \in Nat \ {0}
          /\ \/ k \in DOMAIN metrics /\ metrics'[k] = metrics[k]
             \/ k \in DOMAIN metrics /\ metrics'[k] = metrics[k] + 1
             \/ k \notin DOMAIN metrics /\ metrics'[k] = 1
      BY <1>1, <2>3, CountedKey
    <3>2. metrics'[k] + m <= deliveries'
      <4>1. CASE k \in DOMAIN metrics /\ metrics'[k] = metrics[k]
        BY <1>1, <1>2, <2>1, <2>3, <4>1
      <4>2. CASE k \in DOMAIN metrics /\ metrics'[k] = metrics[k] + 1
        BY <1>1, <1>2, <2>1, <2>3, <4>2
      <4>3. CASE metrics'[k] = 1
        BY <1>1, <1>2, <2>3, <4>3
      <4> QED
        BY <3>1, <4>1, <4>2, <4>3
    <3> QED
      BY <3>1, <3>2
  <2> QED
    BY <1>2, <2>2, <2>3
<1>4. ASSUME NEW fp \in Range(FingerprintOf), NEW g \in Range(GranularityOrder)
      PROVE  /\ IsFiniteSet(Counted(fp, g))'
             /\ Cardinality(Counted(fp, g))' + Cardinality(Recorded(fp))' <= Requests(fp)'
  <2> DEFINE C == Counted(fp, g)
             D == Recorded(fp)
             R == Requests(fp)
  <2>1. /\ IsFiniteSet(C) /\ Cardinality(C) \in Nat /\ IsFiniteSet(D) /\ R \in Nat
        /\ Cardinality(C) + Cardinality(D) <= R
    <3>1. IsFiniteSet(C) /\ Cardinality(C) + Cardinality(D) <= R
      BY DEF MetricInv
    <3> QED
      BY <3>1, CallsAreFinite, RequestsIsNat, FS_CardinalityType
  <2>2. /\ Cardinality(D) \in Nat
        /\ Cardinality(D \union {a}) \in Nat /\ Cardinality(D \union {a}) <= Cardinality(D) + 1
        /\ Cardinality(D \ {a}) \in Nat /\ Cardinality(D \ {a}) <= Cardinality(D)
        /\ a \in D => Cardinality(D \ {a}) = Cardinality(D) - 1
    BY <2>1, OneMember
  <2>3. /\ fp = Fp(a) /\ proc[a].pc \notin {"idle", "inventory"} => a \in D
        /\ a \in D => D \union {a} = D
    BY DEF Recorded
  <2>4. CASE Begins(a)
    <3>1. C' = C /\ R' = R
      BY <2>4 DEF Begins, Counted, Requests
    <3>2. D' = D
      BY <2>4, BegunCalls
    <3> QED
      BY <2>1, <3>1, <3>2
  <2>5. CASE Ends(a) \/ Observes(a) \/ Samples(a)
    <3>1. C' = C /\ R' = R
      BY <2>5 DEF Ends, Observes, Samples, Counted, Requests
    <3>2. D' = D \ {a} \/ (a \in D /\ D' = D \union {a})
      <4>1. CASE Ends(a)
        BY <4>1, MovedCalls DEF Ends
      <4>2. CASE Observes(a) \/ Samples(a)
        <5>1. PICK pc : Moves(a, pc)
          BY <4>2 DEF Observes, Samples
        <5>2. D' = D \ {a} \/ (fp = Fp(a) /\ D' = D \union {a})
          BY <5>1, MovedCalls
        <5>3. proc[a].pc \notin {"idle", "inventory"}
          BY <4>2 DEF Observes, Samples, SampleLabels, Collections
        <5> QED
          BY <2>3, <5>2, <5>3
      <4> QED
        BY <2>5, <4>1, <4>2
    <3> HIDE DEF C, D, R
    <3>3. CASE D' = D \ {a}
      BY <2>1, <2>2, <3>1, <3>3 DEF C, D, R
    <3>4. CASE a \in D /\ D' = D \union {a}
      <4>1. D' = D
        BY <2>3, <3>4
      <4> QED
        BY <2>1, <3>1, <4>1 DEF C, D, R
    <3> QED
      BY <3>2, <3>3, <3>4
  <2>6. CASE Writes(a)
    <3>1. C' = C /\ R' = IF fp = Fp(a) THEN R + 1 ELSE R
      BY <2>6, WrittenRequests DEF Writes, Counted
    <3>2. D' = D \ {a} \/ (fp = Fp(a) /\ D' = D \union {a})
      BY <2>6, MovedCalls DEF Writes
    <3> HIDE DEF C, D, R
    <3>3. CASE D' = D \ {a}
      <4>1. Cardinality(C') + Cardinality(D') <= R'
        BY <2>1, <2>2, <3>1, <3>3
      <4> QED
        BY <2>1, <3>1, <4>1 DEF C, D, R
    <3>4. CASE fp = Fp(a) /\ D' = D \union {a}
      <4>1. Cardinality(C') + Cardinality(D') <= R'
        BY <2>1, <2>2, <3>1, <3>4
      <4> QED
        BY <2>1, <3>1, <4>1 DEF C, D, R
    <3> QED
      BY <3>2, <3>3, <3>4
  <2>7. CASE Counts(a)
    <3>1. R' = R /\ proc[a].pc = "metrics"
      BY <2>7 DEF Counts, Requests
    <3>2. D' = D \ {a}
      BY <2>7, MovedCalls DEF Counts
    <3>3. C' \subseteq C \/ (fp = Fp(a) /\ \E x : C' \subseteq C \union {x})
      BY <1>1, <2>7, CountedOnce
    <3>4. fp = Fp(a) => a \in D
      BY <2>3, <3>1
    <3> HIDE DEF C, D, R
    <3>5. CASE C' \subseteq C
      <4>1. IsFiniteSet(C') /\ Cardinality(C') <= Cardinality(C) /\ Cardinality(C') \in Nat
        BY <2>1, <3>5, FS_Subset, FS_CardinalityType
      <4> QED
        BY <2>1, <2>2, <3>1, <3>2, <4>1 DEF C, D, R
    <3>6. CASE fp = Fp(a) /\ \E x : C' \subseteq C \union {x}
      <4>1. PICK x : C' \subseteq C \union {x}
        BY <3>6
      <4>2. IsFiniteSet(C \union {x}) /\ Cardinality(C \union {x}) \in Nat
            /\ Cardinality(C \union {x}) <= Cardinality(C) + 1
        BY <2>1, OneMember
      <4>3. IsFiniteSet(C') /\ Cardinality(C') <= Cardinality(C \union {x})
            /\ Cardinality(C') \in Nat
        BY <4>1, <4>2, FS_Subset, FS_CardinalityType
      <4>4. Cardinality(D') = Cardinality(D) - 1 /\ R' = R
        BY <2>2, <3>1, <3>2, <3>4, <3>6
      <4>5. Cardinality(C') + Cardinality(D') <= R'
        BY <2>1, <2>2, <4>2, <4>3, <4>4
      <4> QED
        BY <4>3, <4>5 DEF C, D, R
    <3> QED
      BY <3>3, <3>5, <3>6
  <2> QED
    BY <2>4, <2>5, <2>6, <2>7 DEF CountKind
<1>5. m <= deliveries'
  <2> HIDE DEF n, m
  <2> QED
    BY <1>1, <1>2
<1> QED
  BY <1>3, <1>4, <1>5 DEF MetricInv

-----------------------------------------------------------------------------
(* Types and bounds. *)

\* Whatever a request asks for, the test types of the answer are registered
\* (selectSuiteTestTypes).
LEMMA ChosenAreRegistered == Chosen.selected \union Chosen.skipped \subseteq DOMAIN Registry
<1> DEFINE applicable == ApplicableTestTypes(suite.target, suite.req)
           requested == RequestedTypes(suite.req, applicable)
<1>1. applicable \subseteq DOMAIN Registry
  BY DEF ApplicableTestTypes
<1>2. Chosen = [selected |-> requested \intersect applicable, skipped |-> requested \ applicable]
  BY DEF Chosen, selectSuiteTestTypes
<1> HIDE DEF applicable
<1>3. requested \subseteq DOMAIN Registry
  BY <1>1, PresetsAreRegistered DEF RequestedTypes, FilterRegistered
<1> HIDE DEF requested
<1> QED
  BY <1>1, <1>2, <1>3

LEMMA BoundStep ==
  ASSUME CallInv, SampleInv, AuthInv, BoundInv, [Next]_vars
  PROVE  BoundInv'
<1> DEFINE total == deliveries + faults + horizon
           Suite == /\ suite.pc \in {"idle", "sample", "plan", "answered", "failed"}
                    /\ suite.selected \union suite.skipped \subseteq DOMAIN Registry
<1>1. /\ deliveries \in Nat /\ faults \in Nat /\ horizon \in Nat
      /\ total <= MaxEvents /\ MaxEvents \in Nat /\ Suite
  BY TrafficInventoryAssumption DEF CallInv, BoundInv
<1>2. SUFFICES total' <= MaxEvents /\ Suite'
  BY DEF BoundInv
<1>3. ASSUME NEW outcome, Call(outcome), UNCHANGED <<deliveries, horizon>>
      PROVE  total' <= MaxEvents
  <2>1. /\ outcome = "ok" => faults' = faults
        /\ outcome # "ok" => faults' = faults + 1 /\ total < MaxEvents
    BY <1>3, CallFaults DEF Call, MayHappen
  <2>2. CASE outcome = "ok"
    BY <1>1, <1>3, <2>1, <2>2
  <2>3. CASE outcome # "ok"
    BY <1>1, <1>3, <2>1, <2>3
  <2> QED
    BY <2>2, <2>3
<1>4. ASSUME NEW a \in Analyzers, Analyze(a)
      PROVE  total' <= MaxEvents
  <2>1. ASSUME NEW l \in DOMAIN Logs, ProcessLog(a, l)
        PROVE  total' <= MaxEvents
    BY <1>1, <2>1 DEF ProcessLog, MayHappen
  <2>2. ASSUME Crash(a)
        PROVE  total' <= MaxEvents
    BY <1>1, <2>2 DEF Crash, MayHappen
  <2>3. ASSUME NEW coll \in Collections, SkipSample(a, coll)
        PROVE  total' <= MaxEvents
    BY <1>1, <2>3 DEF SkipSample
  <2>4. ASSUME NEW outcome \in Outcomes,
               \/ UpdateInventory(a, outcome)
               \/ \E done : UpsertParameters(a, done, outcome)
               \/ \E coll \in Collections : \/ InsertSample(a, coll, outcome)
                                            \/ FindExcess(a, coll, outcome)
                                            \/ DeleteExcess(a, coll, outcome)
               \/ \E done, call : RecordMetrics(a, done, call, outcome)
        PROVE  total' <= MaxEvents
    <3>1. Call(outcome) /\ UNCHANGED <<deliveries, horizon>>
      BY <2>4 DEF UpdateInventory, UpsertParameters, InsertSample, FindExcess, DeleteExcess,
                  RecordMetrics
    <3> HIDE DEF total
    <3> QED
      BY <1>3, <3>1
  <2> HIDE DEF total
  <2> QED
    BY <1>4, <2>1, <2>2, <2>3, <2>4 DEF Analyze
<1>5. CASE InventoryNext /\ UNCHANGED suite
  <2>1. Suite'
    BY <1>1, <1>5
  <2>2. CASE Expire
    <3>1. total' <= MaxEvents
      BY <1>1, <2>2 DEF Expire, MayHappen
    <3> QED
      BY <2>1, <3>1
  <2> HIDE DEF total, Suite
  <2> QED
    BY <1>4, <1>5, <2>1, <2>2 DEF InventoryNext
<1>6. ASSUME NEW req \in SuiteRequests, NEW fp \in DOMAIN inventory, TriggerSuite(req, fp)
      PROVE  total' <= MaxEvents /\ Suite'
  <2>1. total' = total
    BY <1>6 DEF TriggerSuite, inventoryVars
  <2>2. suite'.pc = "sample" /\ suite'.selected = {} /\ suite'.skipped = {}
    BY <1>6, TriggeredSuite
  <2> QED
    BY <1>1, <2>1, <2>2
<1>7. ASSUME NEW outcome \in Outcomes, ApplyLatestTrafficSample(outcome)
      PROVE  total' <= MaxEvents /\ Suite'
  <2>1. total' <= MaxEvents
    <3>1. Call(outcome) /\ UNCHANGED <<deliveries, horizon>>
      BY <1>7 DEF ApplyLatestTrafficSample, inventoryVars
    <3> HIDE DEF total
    <3> QED
      BY <1>3, <3>1
  <2>2. /\ suite'.pc = "plan"
        /\ suite'.selected = suite.selected /\ suite'.skipped = suite.skipped
    BY <1>7, SampledSuite
  <2> QED
    BY <1>1, <2>1, <2>2
<1>8. ASSUME NEW lost \in SUBSET FailingTypes, NEW misreported \in SUBSET lost,
             EnqueueSuiteJobs(lost, misreported)
      PROVE  total' <= MaxEvents /\ Suite'
  <2>1. /\ faults' = faults + Cardinality(lost) /\ UNCHANGED <<deliveries, horizon>>
        /\ deliveries + faults + horizon + Cardinality(lost) <= MaxEvents
    BY <1>8 DEF EnqueueSuiteJobs, inventoryVars
  <2>2. Cardinality(lost) \in Nat
    BY CatalogAssumption, FS_Subset, FS_CardinalityType
  <2>3. total' <= MaxEvents
    BY <1>1, <2>1, <2>2
  <2>4. /\ suite'.pc \in {"answered", "failed"} /\ suite'.selected = Chosen.selected
        /\ suite'.skipped \subseteq Chosen.skipped \union Chosen.selected
    <3> DEFINE reported == Planned \ lost
    <3>1. /\ suite'.pc = IF reported = {} THEN "failed" ELSE "answered"
          /\ suite'.selected = Chosen.selected
          /\ suite'.skipped = IF reported = {} THEN {}
                              ELSE Chosen.skipped \union (Chosen.selected \ reported)
      BY <1>8, AnsweredSuite
    <3> HIDE DEF reported
    <3> QED
      BY <3>1
  <2>5. Suite'
    BY <2>4, ChosenAreRegistered
  <2> QED
    BY <2>3, <2>5
<1>9. CASE UNCHANGED vars
  <2>1. total' = total /\ suite' = suite
    BY <1>9 DEF vars, inventoryVars
  <2> QED
    BY <1>1, <2>1
<1> QED
  <2> HIDE DEF total, Suite
  <2> QED
    BY <1>5, <1>6, <1>7, <1>8, <1>9 DEF Next

-----------------------------------------------------------------------------
(* The invariant. *)

LEMMA InitCountInv ==
  ASSUME Init
  PROVE  CountInv
<1>1. /\ inventory = << >> /\ parameters = << >> /\ metrics = << >> /\ inserted = {}
      /\ proc = [a \in Analyzers |-> Idle] /\ suite = NoSuite
      /\ deliveries = 0 /\ horizon = 0 /\ faults = 0
  BY DEF Init, InventoryInit
<1>2. \A a \in Analyzers : proc[a].pc = "idle"
  BY <1>1 DEF Idle
<1>3. CoverInv
  BY <1>1, <1>2 DEF CoverInv
<1>4. ParameterInv
  BY <1>1 DEF ParameterInv
<1>5. Cardinality(Active) = 0
  <2>1. Active = {}
    BY <1>2 DEF Active
  <2> QED
    BY <2>1, FS_EmptySet
<1>6. ASSUME NEW fp, NEW g
      PROVE  /\ IsFiniteSet(Counted(fp, g))
             /\ Cardinality(Counted(fp, g)) + Cardinality(Recorded(fp)) <= Requests(fp)
  <2>1. Counted(fp, g) = {} /\ Recorded(fp) = {} /\ Requests(fp) = 0
    BY <1>1, <1>2 DEF Counted, Recorded, Requests
  <2>2. Cardinality({}) = 0 /\ IsFiniteSet({})
    BY FS_EmptySet
  <2> QED
    BY <2>1, <2>2
<1>7. MetricInv
  <2>1. Cardinality(Active) <= deliveries
    BY <1>1, <1>5
  <2>2. DOMAIN metrics = {}
    BY <1>1
  <2> QED
    BY <1>6, <2>1, <2>2 DEF MetricInv
<1>8. BoundInv
  <2>1. deliveries + faults + horizon <= MaxEvents
    BY <1>1, TrafficInventoryAssumption
  <2>2. suite.pc = "idle" /\ suite.selected = {} /\ suite.skipped = {}
    BY <1>1 DEF NoSuite
  <2> QED
    BY <2>1, <2>2 DEF BoundInv
<1> QED
  BY <1>3, <1>4, <1>7, <1>8 DEF CountInv

LEMMA CountInvStep ==
  ASSUME CatalogInv, CatalogInv', CountInv, [Next]_vars
  PROVE  CountInv'
<1>1. /\ CallInv /\ SampleInv /\ AuthInv /\ CoverInv /\ ParameterInv /\ MetricInv /\ BoundInv
  BY DEF CatalogInv, CountInv
<1>2. BoundInv'
  BY <1>1, BoundStep
<1>3. CASE \E a \in Analyzers : Analyze(a)
  <2>1. PICK a \in Analyzers : Analyze(a)
    BY <1>3
  <2>2. CountKind(a)
    BY <1>1, <2>1, CountKindOfStep
  <2>3. CoverInv' /\ ParameterInv' /\ MetricInv'
    BY <1>1, <2>2, CoverStep, ParameterStep, MetricStep
  <2> QED
    BY <1>2, <2>3 DEF CountInv
<1>4. CASE UNCHANGED <<inventory, parameters, metrics, proc, inserted, deliveries>>
  <2>1. CoverInv'
    BY <1>1, <1>4 DEF CoverInv, Covered, Fp
  <2>2. ParameterInv'
    BY <1>1, <1>4 DEF ParameterInv, Observing, Requests, Fp
  <2>3. MetricInv'
    BY <1>1, <1>4 DEF MetricInv, Active, Recorded, Requests, Counted, Fp
  <2> QED
    BY <1>2, <2>1, <2>2, <2>3 DEF CountInv
<1>5. \/ \E a \in Analyzers : Analyze(a)
      \/ UNCHANGED <<inventory, parameters, metrics, proc, inserted, deliveries>>
  BY DEF Next, InventoryNext, Expire, TriggerSuite, ApplyLatestTrafficSample, EnqueueSuiteJobs,
         vars, inventoryVars
<1> QED
  BY <1>3, <1>4, <1>5

\* What the documents of endpoints, parameters, counters and samples have in
\* common between any two calls of the database (ProcessLog).
THEOREM CountInvHolds == Spec => []CountInv
<1>1. Init => CountInv
  BY InitCountInv
<1>2. CatalogInv /\ CatalogInv' /\ CountInv /\ [Next]_vars => CountInv'
  BY CountInvStep
<1> QED
  BY <1>1, <1>2, CatalogInvHolds, PTL DEF Spec

\* However often conversations are delivered again and calls fail, and however
\* many analyzers write at once, no path parameter was observed and no
\* granularity counted more often than the endpoint was requested, and the
\* document of an endpoint covers what its samples say (ProcessLog).
THEOREM CountersAgree == Spec => []CountsWithinRequests
<1>1. ASSUME CountInv
      PROVE  CountsWithinRequests
  <2>1. CoverInv /\ ParameterInv /\ MetricInv
    BY <1>1 DEF CountInv
  <2>2. ASSUME NEW k \in DOMAIN parameters, k[2] = "path"
        PROVE  parameters[k].count <= Requests(k[1])
    <3> DEFINE o == Cardinality(Observing(k[1]))
               r == Requests(k[1])
    <3>1. parameters[k].count \in Nat /\ parameters[k].count + o <= r
      BY <2>1, <2>2 DEF ParameterInv
    <3>2. o \in Nat /\ r \in Nat
      BY <2>1, CallsAreFinite, RequestsIsNat
    <3> HIDE DEF o, r
    <3>3. parameters[k].count <= r
      BY <3>1, <3>2
    <3> QED
      BY <3>3 DEF r
  <2>3. ASSUME NEW k \in DOMAIN metrics
        PROVE  Cardinality(Counted(k.fp, k.granularity)) <= Requests(k.fp)
    <3> DEFINE C == Counted(k.fp, k.granularity)
               d == Cardinality(Recorded(k.fp))
               r == Requests(k.fp)
    <3>1. k.fp \in Range(FingerprintOf) /\ k.granularity \in Range(GranularityOrder)
      BY <2>1 DEF MetricInv
    <3>2. IsFiniteSet(C) /\ Cardinality(C) + d <= r
      BY <2>1, <3>1 DEF MetricInv
    <3>3. Cardinality(C) \in Nat /\ d \in Nat /\ r \in Nat
      BY <2>1, <3>2, CallsAreFinite, RequestsIsNat, FS_CardinalityType
    <3> HIDE DEF C, d, r
    <3>4. Cardinality(C) <= r
      BY <3>2, <3>3
    <3> QED
      BY <3>4 DEF C, r
  <2>4. ASSUME NEW s \in inserted
        PROVE  /\ Requests(s.fp) > 0
               /\ SensitiveData[s.log] \subseteq inventory[s.fp].sensitive
    <3>1. /\ s.fp \in DOMAIN inventory /\ inventory[s.fp] \in Document
          /\ SensitiveData[s.log] \subseteq inventory[s.fp].sensitive
      BY <2>1 DEF CoverInv, Covered
    <3>2. inventory[s.fp].count \in Nat \ {0}
      BY <3>1 DEF Document
    <3>3. Requests(s.fp) \in Nat \ {0}
      BY <3>1, <3>2 DEF Requests
    <3> QED
      BY <3>1, <3>3
  <2> QED
    BY <2>2, <2>3, <2>4 DEF CountsWithinRequests
<1> QED
  BY <1>1, CountInvHolds, PTL

\* Every document, sample and answer is of its type, and the counters stay
\* within their bounds (ProcessLog, handleTriggerSuite).
THEOREM CatalogTypesAreKept == Spec => []TypeOK
<1>1. ASSUME CatalogInv, CountInv
      PROVE  TypeOK
  <2>1. /\ CallInv /\ SampleInv /\ NewestInv /\ AuthInv
        /\ CoverInv /\ ParameterInv /\ MetricInv /\ BoundInv
    BY <1>1 DEF CatalogInv, CountInv
  <2>2. /\ DOMAIN inventory \subseteq Range(FingerprintOf)
        /\ \A fp \in DOMAIN inventory : inventory[fp] \in Document
    BY <2>1 DEF AuthInv, CoverInv
  <2>3. samples \subseteq inserted /\ inserted \subseteq Sample
    BY <2>1 DEF SampleInv
  <2>4. \A k \in DOMAIN parameters : parameters[k].count \in Nat \ {0}
    BY <2>1 DEF ParameterInv
  <2>5. ASSUME NEW k \in DOMAIN metrics
        PROVE  metrics[k] \in 1..deliveries
    <3> DEFINE n == Cardinality(Active)
    <3>1. metrics[k] \in Nat \ {0} /\ metrics[k] + n <= deliveries
      BY <2>1 DEF MetricInv
    <3>2. n \in Nat /\ deliveries \in Nat
      BY <2>1, CallsAreFinite DEF CallInv
    <3> HIDE DEF n
    <3> QED
      BY <3>1, <3>2
  <2>6. ASSUME NEW a \in Analyzers
        PROVE  /\ proc[a].pc \in {"idle", "inventory", "parameters", "find", "delete", "metrics"}
                                   \union Collections
               /\ proc[a].ids \subseteq inserted
    <3>1. proc[a].pc \in Labels
      BY <2>1 DEF CallInv, CallState
    <3>2. proc[a].ids \subseteq inserted
      BY <2>1 DEF NewestInv
    <3> QED
      BY <3>1, <3>2 DEF Labels
  <2>7. deliveries + faults + horizon \in 0..MaxEvents
    <3>1. /\ deliveries \in Nat /\ faults \in Nat /\ horizon \in Nat
          /\ deliveries + faults + horizon <= MaxEvents
      BY <2>1 DEF CallInv, BoundInv
    <3> QED
      BY <3>1, TrafficInventoryAssumption
  <2>8. InventoryTypeOK
    BY <2>2, <2>3, <2>4, <2>5, <2>6, <2>7 DEF InventoryTypeOK
  <2>9. /\ suite.pc \in {"idle", "sample", "plan", "answered", "failed"} /\ suite.req \in SuiteRequests
        /\ suite.selected \union suite.skipped \subseteq DOMAIN Registry
    BY <2>1 DEF BoundInv, AuthInv, SafeSuite
  <2> QED
    BY <2>8, <2>9 DEF TypeOK
<1> QED
  BY <1>1, CatalogInvHolds, CountInvHolds, PTL
=============================================================================
