-------------------------- MODULE TrafficInventory --------------------------
(***************************************************************************)
(* Processor.ProcessLog: what the analyzer writes for one conversation.    *)
(* Several analyzers, or request handlers with an analyzer of their own,   *)
(* process conversations at once, a conversation may be delivered again,   *)
(* and every write is a separate MongoDB call on documents shared by all   *)
(* conversations of an endpoint.                                           *)
(*                                                                         *)
(* The order of the writes and the metric ledger under crashes are also in *)
(* ConversationPipeline; here the documents have their contents.  One step *)
(* is one call, except that the updates of the parameters, which nothing   *)
(* reads, are one step that may stop after any of them, and so are those   *)
(* of the metrics.                                                         *)
(***************************************************************************)
EXTENDS EndpointAnalysis

CONSTANTS
    Analyzers,            \* concurrent calls of ProcessLog
    Logs,                 \* conversation id -> log
    Rules,                \* endpoint rules as configured
    EndpointSampleLimit,  \* samples kept per endpoint and collection
    PushLimit,            \* header samples kept in an endpoint's document
    BucketLength,         \* granularity -> length of its buckets
    MaxEvents             \* bound: calls of ProcessLog, failed calls, crashes
                          \* and passes of the TTL index together

ASSUME TrafficInventoryAssumption ==
    /\ IsFiniteSet(Analyzers)
    /\ DOMAIN Logs # {} /\ \A l \in DOMAIN Logs : Logs[l].at \in Nat
    /\ EndpointSampleLimit \in Nat \ {0} /\ PushLimit \in Nat \ {0}
    /\ MaxEvents \in Nat

VARIABLES
    inventory,   \* api_inventory: fingerprint -> document
    parameters,  \* api_parameters: <<fingerprint, location, name>> -> document
    samples,     \* traffic_samples and sensitive_samples
    ledger,      \* traffic_metric_events
    metrics,     \* traffic_metrics: dimensions -> request_count
    proc,        \* each analyzer's call of ProcessLog
    deliveries,  \* calls so far; also the clock
    horizon,     \* samples captured until then have expired
    inserted,    \* every sample ever inserted
    faults       \* failed calls and crashes so far

inventoryVars == <<inventory, parameters, samples, ledger, metrics, proc,
                   deliveries, horizon, inserted>>

\* What is derived from each log, computed once.
FingerprintOf == [l \in DOMAIN Logs |-> Fingerprint(Logs[l])]
Observations == [l \in DOMAIN Logs |-> parameterObservations(Logs[l])]
SensitiveData == [l \in DOMAIN Logs |-> detectedPII(Logs[l])]
RiskLevel == [l \in DOMAIN Logs |-> riskLevel(Rules, Logs[l])]

\* The request headers of each log by name, as stored; names with a dot or a
\* dollar, which mongoFieldKey changes, are left out.
HeaderNames == {f.name : f \in UNION {Range(FieldsIn(Logs[l], {"header"})) : l \in DOMAIN Logs}}
ReqHeaders ==
    [l \in DOMAIN Logs |-> [name \in HeaderNames |-> HeaderValues(Logs[l], name)]]

Collections == {"traffic_samples", "sensitive_samples"}
GranularityOrder == <<"hour", "day">>

Sample == [id : Nat, coll : Collections, fp : Range(FingerprintOf),
           log : DOMAIN Logs, at : Nat, created : Nat]

\* What an endpoint's document keeps: first and last seen, how often it was
\* requested, the log that wrote it last, and what accumulates.
Document == [path : {Logs[l].path : l \in DOMAIN Logs}, firstSeen : Nat, lastSeen : Nat,
             count : Nat \ {0}, latest : DOMAIN Logs,
             sensitive : SUBSET UNION {SensitiveData[l] : l \in DOMAIN Logs},
             tags : SUBSET UNION {endpointTags(Rules, Logs[l]) : l \in DOMAIN Logs},
             statuses : SUBSET {Logs[l].status : l \in DOMAIN Logs},
             headers : [HeaderNames -> Seq(StoredField)]]

\* Where ProcessLog goes after each of its calls.
After == [traffic_samples |-> "sensitive_samples", sensitive_samples |-> "metrics"]

Idle == [pc |-> "idle", log |-> CHOOSE l \in DOMAIN Logs : TRUE, now |-> 0,
         ids |-> {}, coll |-> ""]

InventoryInit ==
    /\ inventory = << >> /\ parameters = << >> /\ metrics = << >>
    /\ samples = {} /\ ledger = {} /\ inserted = {}
    /\ proc = [a \in Analyzers |-> Idle]
    /\ deliveries = 0 /\ horizon = 0 /\ faults = 0

-----------------------------------------------------------------------------
Log(a) == Logs[proc[a].log]
Fp(a) == FingerprintOf[proc[a].log]

\* A log without a capture time counts as observed when it is processed.
observedAt(a) == IF Log(a).at = 0 THEN proc[a].now ELSE Log(a).at

MayHappen == deliveries + faults + horizon < MaxEvents

\* A call may fail, and may have been applied all the same.
Outcomes == {"ok", "failed", "applied"}
Call(outcome) ==
    /\ outcome # "ok" => MayHappen
    /\ faults' = faults + (IF outcome = "ok" THEN 0 ELSE 1)
Applied(outcome) == outcome # "failed"

Goto(a, pc) == proc' = [proc EXCEPT ![a].pc = pc, ![a].ids = {}]
Return(a) == proc' = [proc EXCEPT ![a] = Idle]

\* ProcessLog is called with a conversation, for the first time or again.
ProcessLog(a, l) ==
    /\ proc[a].pc = "idle"
    /\ MayHappen
    /\ deliveries' = deliveries + 1
    /\ proc' = [proc EXCEPT ![a] = [Idle EXCEPT !.pc = "inventory", !.log = l,
                                                !.now = deliveries']]
    /\ UNCHANGED <<inventory, parameters, samples, ledger, metrics, horizon, inserted, faults>>

\* $push with $slice: the last values pushed.
cappedPush(values, pushed) ==
    LET all == values \o pushed
    IN  SubSeq(all, IF Len(all) > PushLimit THEN Len(all) - PushLimit + 1 ELSE 1, Len(all))

\* $setOnInsert of the endpoint's document.
NewDocument(a) ==
    [path |-> Log(a).path, firstSeen |-> observedAt(a), lastSeen |-> 0,
     count |-> 0, latest |-> proc[a].log, sensitive |-> {}, tags |-> {}, statuses |-> {},
     headers |-> [name \in HeaderNames |-> << >>]]

\* The first value of a header, if it was sent.
firstValue(values) == SubSeq(values, 1, IF values = << >> THEN 0 ELSE 1)

\* The first value of each header that was sent is added to the last ones.
PushedHeaders(a, headers) ==
    [name \in HeaderNames |->
        cappedPush(headers[name], firstValue(ReqHeaders[proc[a].log][name]))]

\* $inc, $set, $addToSet and $push: latest stands for every field that is
\* overwritten with what this log says (bodies, schemas, risk, reasons, auth).
UpdatedDocument(a, doc) ==
    [path |-> doc.path, firstSeen |-> doc.firstSeen,
     lastSeen |-> observedAt(a), count |-> doc.count + 1, latest |-> proc[a].log,
     sensitive |-> doc.sensitive \union SensitiveData[proc[a].log],
     tags |-> doc.tags \union endpointTags(Rules, Log(a)),
     statuses |-> doc.statuses \union {st \in {Log(a).status} : st > 0},
     headers |-> PushedHeaders(a, doc.headers)]

\* ProcessLog gives up when the endpoint's document could not be written.
AfterInventory(outcome) == IF outcome = "ok" THEN "parameters" ELSE "idle"

UpdateInventory(a, outcome) ==
    /\ proc[a].pc = "inventory"
    /\ Call(outcome)
    /\ LET doc == IF Fp(a) \in DOMAIN inventory THEN inventory[Fp(a)] ELSE NewDocument(a)
       IN  inventory' = IF Applied(outcome)
                        THEN [fp \in DOMAIN inventory \union {Fp(a)} |->
                                  IF fp = Fp(a) THEN UpdatedDocument(a, doc) ELSE inventory[fp]]
                        ELSE inventory
    /\ IF AfterInventory(outcome) = "idle" THEN Return(a) ELSE Goto(a, AfterInventory(outcome))
    /\ UNCHANGED <<parameters, samples, ledger, metrics, deliveries, horizon, inserted>>

\* What $inc and $addToSet make of the document of a parameter: observed are
\* the observations written that are of this parameter.
UpsertParameter(key, observations, observed) ==
    LET doc == IF key \in DOMAIN parameters THEN parameters[key]
               ELSE [count |-> 0, sensitive |-> {}]
    IN  [count |-> doc.count + Cardinality(observed),
         sensitive |-> doc.sensitive \union UNION {observations[i].tags : i \in observed}]

\* The parameters are updated one by one until one update fails.
UpsertParameters(a, done, outcome) ==
    LET observations == Observations[proc[a].log]
        Key(i) == <<Fp(a), observations[i].loc, observations[i].name>>
    IN  /\ proc[a].pc = "parameters"
        /\ outcome \in {"ok", "failed"}
        /\ done \in 0..Len(observations)
        /\ outcome = "ok" => done = Len(observations)
        /\ Call(outcome)
        /\ parameters' =
               [k \in DOMAIN parameters \union {Key(i) : i \in 1..done} |->
                   UpsertParameter(k, observations, {i \in 1..done : Key(i) = k})]
        /\ Goto(a, "traffic_samples")
        /\ UNCHANGED <<inventory, samples, ledger, metrics, deliveries, horizon, inserted>>

\* A sensitive sample is stored only for fields with sensitive data.
Stores(a, coll) ==
    coll = "sensitive_samples" => detectSensitiveObservations(Log(a)) # {}

\* Ids grow with the inserts.
NextId == Cardinality(inserted) + 1

InsertSample(a, coll, outcome) ==
    LET sample == [id |-> NextId, coll |-> coll, fp |-> Fp(a), log |-> proc[a].log,
                   at |-> observedAt(a), created |-> proc[a].now]
    IN  /\ proc[a].pc = coll
        /\ Stores(a, coll)
        /\ Call(outcome)
        /\ samples' = IF Applied(outcome) THEN samples \union {sample} ELSE samples
        /\ inserted' = IF Applied(outcome) THEN inserted \union {sample} ELSE inserted
        /\ IF outcome = "ok"
           THEN proc' = [proc EXCEPT ![a].pc = "find", ![a].coll = coll]
           ELSE Goto(a, After[coll])
        /\ UNCHANGED <<inventory, parameters, ledger, metrics, deliveries, horizon>>

SkipSample(a, coll) ==
    /\ proc[a].pc = coll
    /\ ~Stores(a, coll)
    /\ Goto(a, After[coll])
    /\ UNCHANGED <<inventory, parameters, samples, ledger, metrics, deliveries, horizon,
                   inserted, faults>>

\* Mutant: newest by insertion.
NewerById(s, t) == s.id > t.id

\* Newest first: by capture time, then by id.
Newer(s, t) == s.at > t.at \/ (s.at = t.at /\ s.id > t.id)

\* Everything behind the first EndpointSampleLimit samples.
Excess(stored) ==
    {s \in stored : Cardinality({t \in stored : Newer(t, s)}) >= EndpointSampleLimit}

Finish(a, coll) == [proc[a] EXCEPT !.pc = After[coll], !.ids = {}, !.coll = ""]

\* pruneEndpointSamples reads the samples to delete ...
FindExcess(a, coll, outcome) ==
    LET excess == Excess({s \in samples : s.coll = coll /\ s.fp = Fp(a)})
    IN  /\ proc[a].pc = "find" /\ proc[a].coll = coll
        /\ outcome \in {"ok", "failed"}
        /\ Call(outcome)
        /\ proc' = [proc EXCEPT ![a] = IF outcome = "ok" /\ excess # {}
                                       THEN [@ EXCEPT !.pc = "delete", !.ids = excess]
                                       ELSE Finish(a, coll)]
        /\ UNCHANGED <<inventory, parameters, samples, ledger, metrics, deliveries, horizon,
                       inserted>>

\* ... and deletes them by id in another call.
DeleteExcess(a, coll, outcome) ==
    /\ proc[a].pc = "delete" /\ proc[a].coll = coll
    /\ Call(outcome)
    /\ samples' = IF Applied(outcome) THEN samples \ proc[a].ids ELSE samples
    /\ proc' = [proc EXCEPT ![a] = Finish(a, coll)]
    /\ UNCHANGED <<inventory, parameters, ledger, metrics, deliveries, horizon, inserted>>

\* The bucket a time falls into.
metricBucketStart(at, granularity) == at - (at % BucketLength[granularity])

trafficMetricEventKey(a, granularity) ==
    <<proc[a].log, Fp(a), granularity, metricBucketStart(observedAt(a), granularity)>>

\* The counter of one bucket, by the dimensions of its unique index.
trafficMetricUpdate(a, granularity) ==
    [fp |-> Fp(a), granularity |-> granularity,
     start |-> metricBucketStart(observedAt(a), granularity),
     status |-> Log(a).status, auth |-> authObserved(Log(a)), risk |-> RiskLevel[proc[a].log]]

\* The events of the buckets that the ledger does not have yet.
NewBuckets(a, granularities) ==
    {g \in granularities : trafficMetricEventKey(a, g) \notin ledger}

\* recordTrafficMetrics: for each granularity in turn a ledger entry and, if
\* that is new, the counter.  An error of the ledger ends it, and so does one
\* of the counter, after the ledger entry was taken back, the errors of which
\* are not looked at: done buckets were completed, and of the next one the call
\* failed or was applied.
RecordMetrics(a, done, call, outcome) ==
    LET complete == {GranularityOrder[i] : i \in 1..done}
        next == {GranularityOrder[i] : i \in {done + 1} \intersect DOMAIN GranularityOrder}
        applied == IF outcome = "applied" THEN NewBuckets(a, next) ELSE {}
        counted == {trafficMetricUpdate(a, g) :
            g \in NewBuckets(a, complete) \union (IF call = "counter" THEN applied ELSE {})}
        logged == {trafficMetricEventKey(a, g) :
            g \in complete \union (IF call = "ledger" THEN applied ELSE {})}
        undeleted == IF call = "counter"
                       THEN {trafficMetricEventKey(a, g) : g \in NewBuckets(a, next)} ELSE {}
    IN  /\ proc[a].pc = "metrics"
        /\ outcome = "ok" => done = Len(GranularityOrder) /\ call = "ledger"
        /\ outcome # "ok" => next # {} /\ (call = "counter" => NewBuckets(a, next) # {})
        /\ Call(outcome)
        /\ \E left \in {{}, undeleted} : ledger' = ledger \union logged \union left
        /\ metrics' = [k \in DOMAIN metrics \union counted |->
                          (IF k \in DOMAIN metrics THEN metrics[k] ELSE 0)
                              + (IF k \in counted THEN 1 ELSE 0)]
        /\ Return(a)
        /\ UNCHANGED <<inventory, parameters, samples, deliveries, horizon, inserted>>

\* The process dies; its conversation is delivered again or it is not.
Crash(a) ==
    /\ proc[a].pc # "idle"
    /\ MayHappen
    /\ faults' = faults + 1
    /\ Return(a)
    /\ UNCHANGED <<inventory, parameters, samples, ledger, metrics, deliveries, horizon,
                   inserted>>

\* The TTL index removes the samples captured before its horizon.
Expire ==
    /\ MayHappen
    /\ horizon' = horizon + 1
    /\ samples' = {s \in samples : s.at > horizon'}
    /\ UNCHANGED <<inventory, parameters, ledger, metrics, proc, deliveries, inserted, faults>>

Analyze(a) ==
    \/ \E l \in DOMAIN Logs : ProcessLog(a, l)
    \/ \E outcome \in Outcomes :
        \/ UpdateInventory(a, outcome)
        \/ \E done \in 0..Len(Observations[proc[a].log]) : UpsertParameters(a, done, outcome)
        \/ \E coll \in Collections :
            \/ InsertSample(a, coll, outcome)
            \/ FindExcess(a, coll, outcome)
            \/ DeleteExcess(a, coll, outcome)
        \/ \E done \in 0..Len(GranularityOrder), call \in {"ledger", "counter"} :
               RecordMetrics(a, done, call, outcome)
    \/ \E coll \in Collections : SkipSample(a, coll)
    \/ Crash(a)

InventoryNext == Expire \/ \E a \in Analyzers : Analyze(a)

-----------------------------------------------------------------------------
InventoryTypeOK ==
    /\ DOMAIN inventory \subseteq Range(FingerprintOf)
    /\ \A fp \in DOMAIN inventory : inventory[fp] \in Document
    /\ samples \subseteq inserted /\ inserted \subseteq Sample
    /\ \A k \in DOMAIN parameters : parameters[k].count \in Nat \ {0}
    /\ \A k \in DOMAIN metrics : metrics[k] \in 1..deliveries
    /\ \A a \in Analyzers :
        /\ proc[a].pc \in {"idle", "inventory", "parameters", "find", "delete", "metrics"}
                             \union Collections
        /\ proc[a].ids \subseteq inserted
    /\ deliveries + faults + horizon \in 0..MaxEvents

\* README: the analyzer keeps the latest samples of an endpoint.  Whatever
\* order conversations are inserted and pruned in, none of the newest that
\* were ever stored is deleted before it expires, and there are more than
\* the limit only while calls are between insert and prune or after a prune
\* failed (saveTrafficSample, pruneEndpointSamples).
SamplesAreTheNewest ==
    \A coll \in Collections, fp \in DOMAIN inventory :
        LET ever == {s \in inserted : s.coll = coll /\ s.fp = fp}
            stored == ever \intersect samples
            Later(s) == {t \in ever : t.at > s.at \/ (t.at = s.at /\ t.id > s.id)}
            pruning == {a \in Analyzers : proc[a].coll = coll /\ Fp(a) = fp}
        IN  /\ {s \in ever : s.at > horizon /\ Cardinality(Later(s)) < EndpointSampleLimit}
                   \subseteq stored
            /\ Cardinality(stored) <= EndpointSampleLimit + Cardinality(pruning) + faults

\* How often an endpoint was requested.
Requests(fp) == IF fp \in DOMAIN inventory THEN inventory[fp].count ELSE 0

\* The increments of the counters of an endpoint, over all their buckets.
Counted(fp, granularity) ==
    UNION {{k} \X (1..metrics[k]) :
              k \in {m \in DOMAIN metrics : m.fp = fp /\ m.granularity = granularity}}

\* The counters of an endpoint agree with its request_count however often
\* conversations are redelivered and calls fail: a path parameter was not
\* observed, and no granularity counted, more often than the endpoint was
\* requested, and the endpoint's document covers what its samples say
\* (ProcessLog writes it first and gives up without it).
CountsWithinRequests ==
    /\ \A k \in DOMAIN parameters :
           k[2] = "path" => parameters[k].count <= Requests(k[1])
    /\ \A k \in DOMAIN metrics :
           Cardinality(Counted(k.fp, k.granularity)) <= Requests(k.fp)
    /\ \A s \in inserted :
           /\ Requests(s.fp) > 0
           /\ SensitiveData[s.log] \subseteq inventory[s.fp].sensitive
=============================================================================
