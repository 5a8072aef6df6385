------------------------ MODULE ConversationPipeline ------------------------
(***************************************************************************)
(* From a captured HTTP conversation to the inventory: the ingestor stores *)
(* it and publishes a reference event; the runtime analyzer consumes the   *)
(* event, loads the stored log, updates inventory and metrics and commits; *)
(* messages it cannot process go to a second topic, which the dead-letter  *)
(* consumer stores in MongoDB.  Without a broker the request handler runs  *)
(* the analyzer itself.                                                    *)
(*                                                                         *)
(* One step is one call to MongoDB or the broker.  A call may fail, a      *)
(* failed write may have been applied, documents expire and processes die: *)
(* each counts as one of at most MaxFaults faults.  A topic is one         *)
(* partition with one consumer; a consumer that restarts resumes at the    *)
(* committed offset.                                                       *)
(***************************************************************************)
EXTENDS Naturals, Sequences, FiniteSets

CONSTANTS
    Conversations, \* what agents captured, told apart by conversation_hash
    Kind,          \* how the handler's checks judge each conversation
    CapturedAt,    \* captured_at, which becomes created_at of the stored log;
                   \* all different, as (created_at, _id) is in the code
    Sensitive,     \* conversations in which sensitive data is detected
    Requests,      \* deliveries by agents, repeated ones included
    Analyzer,      \* the runtime analyzer process
    NoItem,        \* a process without a conversation
    MaxLogs,       \* LogRetention.MaxEvents, 0 for no limit
    PruneBatch,    \* how many logs one prune deletes at most
    MaxFaults      \* bound: failed calls, crashes and expiries of a behaviour

ASSUME PipelineAssumption ==
    /\ Kind \in [Conversations -> {"valid", "invalid", "mismatch", "noise"}]
    /\ CapturedAt \in [Conversations -> Nat]
    /\ \A c, d \in Conversations : c # d => CapturedAt[c] # CapturedAt[d]
    /\ Sensitive \subseteq Conversations
    /\ Analyzer \notin Requests /\ NoItem \notin Conversations
    /\ MaxLogs \in Nat /\ PruneBatch \in Nat \ {0} /\ MaxFaults \in Nat

VARIABLES
    queue,         \* whether a broker is configured
    \* ingestion requests and the analyzer
    pc,            \* what the process does next
    item,          \* the conversation it handles
    bucket,        \* the metric granularity it counts
    result,        \* the status a request is going to answer
    answer,        \* the status each request answered
    excess,        \* the logs its PruneTrafficLogs is going to delete
    \* MongoDB
    logs,          \* traffic_logs
    conversations, \* traffic_conversations
    stored,        \* what ProcessLog wrote for each conversation
    ledger,        \* traffic_metric_events: conversation and granularity
    metrics,       \* traffic_metrics: how often each ledger key was counted
    deadLetters,   \* ingest_dead_letters: origin and conversation
    \* the broker
    topic,         \* karaxys.http.conversations
    committed,     \* the analyzer group's committed offset
    position,      \* offset of the record the analyzer consumed last
    dlq,           \* karaxys.ingest.dead_letter
    dlqCommitted,  \* the dead-letter group's committed offset
    dlqPosition,   \* offset of the record the dead-letter consumer took last
    dlqPc,         \* what the dead-letter consumer does next
    \* bookkeeping
    fate,          \* how the analyzer ended with each record of topic
    unsure,        \* ledger keys whose count failed although it was applied
    faults         \* failed calls, crashes and expiries so far

reqVars == <<result, answer, excess>>
workVars == <<pc, item, bucket>>
storeVars == <<stored, ledger, metrics, unsure>>
topicVars == <<topic, committed, position, fate>>
dlqVars == <<dlq, dlqCommitted, dlqPosition, dlqPc>>
vars == <<queue, pc, item, bucket, result, answer, excess, logs, conversations, stored,
          ledger, metrics, deadLetters, topic, committed, position, dlq,
          dlqCommitted, dlqPosition, dlqPc, fate, unsure, faults>>

Processes == Requests \union {Analyzer}
Granularities == {"hour", "day"}
Keys == Conversations \X Granularities
Writes == {"inventory", "parameters", "sample", "sensitive"}
Answers == {"accepted", "duplicate", "dropped", "invalid", "mismatch", "failed"}
Labels == {"new", "check", "saveLog", "prune", "delete", "saveConversation", "publish",
           "respond", "done", "idle", "load", "deadLetter", "commit",
           "ledger", "count", "undo"} \union Writes

Init ==
    /\ queue \in BOOLEAN
    /\ pc = [p \in Processes |-> IF p = Analyzer THEN "idle" ELSE "new"]
    /\ item = [p \in Processes |-> NoItem]
    /\ bucket = [p \in Processes |-> "hour"]
    /\ result = [r \in Requests |-> "none"]
    /\ answer = [r \in Requests |-> "none"]
    /\ excess = [r \in Requests |-> {}]
    /\ logs = {} /\ conversations = {}
    /\ stored = {} /\ ledger = {} /\ metrics = [k \in Keys |-> 0]
    /\ deadLetters = {}
    /\ topic = <<>> /\ committed = 0 /\ position = 0
    /\ dlq = <<>> /\ dlqCommitted = 0 /\ dlqPosition = 0 /\ dlqPc = "idle"
    /\ fate = <<>> /\ unsure = {} /\ faults = 0

\* The two ways an external call can end.
Ok  == UNCHANGED faults
Err == faults < MaxFaults /\ faults' = faults + 1

Goto(p, l) == pc' = [pc EXCEPT ![p] = l]

\* The handler has made up its mind: the response comes next.
Answer(r, s) == Goto(r, "respond") /\ result' = [result EXCEPT ![r] = s]
-----------------------------------------------------------------------------
(* The ingestor: HandleConversation and ProcessConversationForTenant *)

\* An authorized request with a readable JSON body arrives.
Receive(r) ==
    /\ pc[r] = "new"
    /\ \E c \in Conversations : item' = [item EXCEPT ![r] = c]
    /\ Goto(r, "check")
    /\ UNCHANGED <<queue, bucket, reqVars, logs, conversations, deadLetters, storeVars,
                   topicVars, dlqVars, faults>>

\* DecodeAndValidateHTTPConversation and bindAgentIdentity.
Validate(r) ==
    /\ pc[r] = "check"
    /\ LET k == Kind[item[r]] IN
        IF k \in {"invalid", "mismatch"}
          THEN Answer(r, k)
          ELSE Goto(r, "saveLog") /\ UNCHANGED result
    /\ UNCHANGED <<queue, item, bucket, answer, excess, logs, conversations, deadLetters,
                   storeVars, topicVars, dlqVars, faults>>

\* SaveLog up to its upsert by conversation_hash, which ConversationHash never
\* leaves empty: the insert of a log without one is for the command line tool.
SaveLog(r) ==
    /\ pc[r] = "saveLog"
    /\ LET c == item[r] IN
        \/ Kind[c] = "noise" /\ Ok /\ Answer(r, "dropped") /\ UNCHANGED logs
        \/ /\ Kind[c] # "noise" /\ c \in logs
           /\ Ok /\ Answer(r, "duplicate") /\ UNCHANGED logs
        \/ /\ Kind[c] # "noise" /\ c \notin logs
           /\ Ok /\ logs' = logs \union {c} /\ Goto(r, "prune") /\ UNCHANGED result
        \/ /\ Kind[c] # "noise"
           /\ Err /\ logs' \in {logs, logs \union {c}} /\ Answer(r, "failed")
    /\ UNCHANGED <<queue, item, bucket, answer, excess, conversations, deadLetters, storeVars,
                   topicVars, dlqVars>>

\* PruneTrafficLogs finds the first PruneBatch logs behind the MaxLogs captured
\* last, which may include the one just inserted, and deletes them by _id.  Its
\* errors are only logged.
Excess ==
    {c \in logs : Cardinality({d \in logs : CapturedAt[d] > CapturedAt[c]})
                     \in MaxLogs..(MaxLogs + PruneBatch - 1)}

FindExcessLogs(r) ==
    /\ pc[r] = "prune"
    /\ \/ /\ Ok /\ MaxLogs > 0 /\ Excess # {}
          /\ excess' = [excess EXCEPT ![r] = Excess] /\ Goto(r, "delete")
       \/ /\ Ok /\ (MaxLogs = 0 \/ Excess = {})
          /\ Goto(r, "saveConversation") /\ UNCHANGED excess
       \/ MaxLogs > 0 /\ Err /\ Goto(r, "saveConversation") /\ UNCHANGED excess
    /\ UNCHANGED <<queue, item, bucket, result, answer, logs, conversations, deadLetters,
                   storeVars, topicVars, dlqVars>>

DeleteExcessLogs(r) ==
    /\ pc[r] = "delete"
    /\ LET pruned == logs \ excess[r] IN
        (Ok /\ logs' = pruned) \/ (Err /\ logs' \in {logs, pruned})
    /\ Goto(r, "saveConversation")
    /\ excess' = [excess EXCEPT ![r] = {}]
    /\ UNCHANGED <<queue, item, bucket, result, answer, conversations, deadLetters,
                   storeVars, topicVars, dlqVars>>

\* SaveConversation: a conversation whose log was pruned is still in
\* traffic_conversations, and its duplicate key is an error to the handler.
SaveConversation(r) ==
    /\ pc[r] = "saveConversation"
    /\ LET c == item[r] IN
        \/ /\ c \notin conversations /\ Ok
           /\ conversations' = conversations \union {c}
           /\ Goto(r, IF queue THEN "publish" ELSE "inventory") /\ UNCHANGED result
        \/ c \in conversations /\ Ok /\ Answer(r, "failed") /\ UNCHANGED conversations
        \/ /\ Err /\ conversations' \in {conversations, conversations \union {c}}
           /\ Answer(r, "failed")
    /\ UNCHANGED <<queue, item, bucket, answer, excess, logs, deadLetters, storeVars, topicVars,
                   dlqVars>>

AppendEvent(c) == topic' = Append(topic, c) /\ fate' = Append(fate, "none")

\* A faulty variant: the error of the producer is not looked at.
PublishIgnoringError(r) ==
    /\ pc[r] = "publish"
    /\ Answer(r, "accepted")
    /\ \/ Ok /\ AppendEvent(item[r])
       \/ Err /\ (AppendEvent(item[r]) \/ UNCHANGED <<topic, fate>>)
    /\ UNCHANGED <<queue, item, bucket, answer, excess, logs, conversations, deadLetters,
                   storeVars, committed, position, dlqVars>>

PublishConversation(r) ==
    /\ pc[r] = "publish"
    /\ \/ Ok /\ AppendEvent(item[r]) /\ Answer(r, "accepted")
       \/ /\ Err /\ Answer(r, "failed")
          /\ AppendEvent(item[r]) \/ UNCHANGED <<topic, fate>>
    /\ UNCHANGED <<queue, item, bucket, answer, excess, logs, conversations, deadLetters,
                   storeVars, committed, position, dlqVars>>

\* recordDeadLetter, whose error is ignored, and the HTTP response.
Respond(r) ==
    /\ pc[r] = "respond"
    /\ LET s == result[r]
           recorded == deadLetters \union {<<s, item[r]>>}
       IN  /\ answer' = [answer EXCEPT ![r] = s]
           /\ IF s \in {"accepted", "duplicate", "dropped"}
                THEN Ok /\ UNCHANGED deadLetters
                ELSE \/ Ok /\ deadLetters' = recorded
                     \/ Err /\ deadLetters' \in {deadLetters, recorded}
    /\ Goto(r, "done")
    /\ UNCHANGED <<queue, item, bucket, result, excess, logs, conversations, storeVars,
                   topicVars, dlqVars>>

\* The process that handles the request dies.
IngestorCrash(r) ==
    /\ pc[r] \notin {"new", "done"}
    /\ Err /\ Goto(r, "done")
    /\ answer' = [answer EXCEPT ![r] = "crashed"]
    /\ UNCHANGED <<queue, item, bucket, result, excess, logs, conversations, deadLetters,
                   storeVars, topicVars, dlqVars>>

\* The TTL indexes on traffic_logs.created_at and
\* traffic_conversations.captured_at, which need not act at the same time.
Expires(c) ==
    /\ \/ c \in logs /\ logs' = logs \ {c} /\ UNCHANGED conversations
       \/ /\ c \in conversations /\ conversations' = conversations \ {c}
          /\ UNCHANGED logs
    /\ Err
    /\ UNCHANGED <<queue, workVars, reqVars, deadLetters, storeVars, topicVars, dlqVars>>
-----------------------------------------------------------------------------
(* Processor.ProcessLog, run by the analyzer or, without a broker, by the   *)
(* request handler.  It reports no error to its caller.                     *)

\* ProcessLog returns to its caller; e says how far it got.
Return(p, e) ==
    IF p = Analyzer
      THEN /\ Goto(p, "commit") /\ fate' = [fate EXCEPT ![position] = e]
           /\ UNCHANGED result
      ELSE Answer(p, "accepted") /\ UNCHANGED fate

\* A faulty variant: a failed inventory update is only logged.
UpdateInventoryAndGoOn(p) ==
    /\ pc[p] = "inventory"
    /\ LET written == stored \union {<<"inventory", item[p]>>} IN
        (Ok /\ stored' = written) \/ (Err /\ stored' \in {stored, written})
    /\ Goto(p, "parameters")
    /\ UNCHANGED <<queue, item, bucket, reqVars, logs, conversations, deadLetters,
                   ledger, metrics, unsure, topicVars, dlqVars>>

\* A failed inventory update ends the analysis; later failures are logged.
UpdateInventory(p) ==
    /\ pc[p] = "inventory"
    /\ LET written == stored \union {<<"inventory", item[p]>>} IN
        \/ /\ Ok /\ stored' = written /\ Goto(p, "parameters")
           /\ UNCHANGED <<result, fate>>
        \/ Err /\ stored' \in {stored, written} /\ Return(p, "abandoned")
    /\ UNCHANGED <<queue, item, bucket, answer, excess, logs, conversations, deadLetters,
                   ledger, metrics, unsure, topic, committed, position, dlqVars>>

\* upsertParameters, saveTrafficSample and, when there is sensitive data,
\* saveSensitiveSample: one after the other, whether they succeed or not.
After == [parameters |-> "sample", sample |-> "sensitive", sensitive |-> "ledger"]

SaveObservation(p) ==
    /\ pc[p] \in DOMAIN After
    /\ LET w == pc[p]
           due == w = "sensitive" => item[p] \in Sensitive
           written == IF due THEN stored \union {<<w, item[p]>>} ELSE stored
       IN  (Ok /\ stored' = written) \/ (due /\ Err /\ stored' \in {stored, written})
    /\ Goto(p, After[pc[p]])
    /\ bucket' = [bucket EXCEPT ![p] = "hour"]
    /\ UNCHANGED <<queue, item, reqVars, logs, conversations, deadLetters, ledger,
                   metrics, unsure, topicVars, dlqVars>>

Key(p) == <<item[p], bucket[p]>>

\* The next granularity of recordTrafficMetrics, or its end.
NextBucket(p) ==
    IF bucket[p] = "hour"
      THEN /\ bucket' = [bucket EXCEPT ![p] = "day"] /\ Goto(p, "ledger")
           /\ UNCHANGED <<result, fate>>
      ELSE Return(p, "analyzed") /\ UNCHANGED bucket

\* A faulty variant: a duplicate ledger key does not stop the count.
CountDespiteDuplicate(p) ==
    /\ pc[p] = "ledger"
    /\ Ok /\ ledger' = ledger \union {Key(p)}
    /\ Goto(p, "count")
    /\ UNCHANGED <<queue, item, bucket, reqVars, logs, conversations, deadLetters, stored,
                   metrics, unsure, topicVars, dlqVars>>

\* The insert into traffic_metric_events; a duplicate was counted before.
InsertMetricEvent(p) ==
    /\ pc[p] = "ledger"
    /\ \/ Key(p) \in ledger /\ Ok /\ NextBucket(p) /\ UNCHANGED ledger
       \/ /\ Key(p) \notin ledger /\ Ok /\ ledger' = ledger \union {Key(p)}
          /\ Goto(p, "count") /\ UNCHANGED <<bucket, result, fate>>
       \/ /\ Err /\ ledger' \in {ledger, ledger \union {Key(p)}}
          /\ Return(p, "analyzed") /\ UNCHANGED bucket
    /\ UNCHANGED <<queue, item, answer, excess, logs, conversations, deadLetters, stored,
                   metrics, unsure, topic, committed, position, dlqVars>>

CountMetric(p) ==
    /\ pc[p] = "count"
    /\ LET counted == [metrics EXCEPT ![Key(p)] = @ + 1] IN
        \/ Ok /\ metrics' = counted /\ NextBucket(p) /\ UNCHANGED unsure
        \/ /\ Err /\ Goto(p, "undo") /\ UNCHANGED <<bucket, result, fate>>
           /\ \/ UNCHANGED <<metrics, unsure>>
              \/ metrics' = counted /\ unsure' = unsure \union {Key(p)}
    /\ UNCHANGED <<queue, item, answer, excess, logs, conversations, deadLetters, stored,
                   ledger, topic, committed, position, dlqVars>>

\* The ledger entry of a failed count is deleted, without looking at errors.
DeleteMetricEvent(p) ==
    /\ pc[p] = "undo"
    /\ LET deleted == ledger \ {Key(p)} IN
        (Ok /\ ledger' = deleted) \/ (Err /\ ledger' \in {ledger, deleted})
    /\ Return(p, "analyzed")
    /\ UNCHANGED <<queue, item, bucket, answer, excess, logs, conversations, deadLetters,
                   stored, metrics, unsure, topic, committed, position, dlqVars>>
-----------------------------------------------------------------------------
(* The runtime analyzer: Worker.ProcessOne *)

\* The next turn of the loop.
Idle ==
    /\ Goto(Analyzer, "idle")
    /\ item' = [item EXCEPT ![Analyzer] = NoItem]
    /\ bucket' = [bucket EXCEPT ![Analyzer] = "hour"]

\* A faulty variant: the client commits what it hands out.
ConsumeWithAutoCommit ==
    /\ pc[Analyzer] = "idle" /\ position < Len(topic)
    /\ position' = position + 1 /\ committed' = position + 1
    /\ item' = [item EXCEPT ![Analyzer] = topic[position + 1]]
    /\ Goto(Analyzer, "load")
    /\ UNCHANGED <<queue, bucket, reqVars, logs, conversations, deadLetters, storeVars,
                   topic, fate, dlqVars, faults>>

Consume ==
    /\ pc[Analyzer] = "idle" /\ position < Len(topic)
    /\ position' = position + 1
    /\ item' = [item EXCEPT ![Analyzer] = topic[position + 1]]
    /\ Goto(Analyzer, "load")
    /\ UNCHANGED <<queue, bucket, reqVars, logs, conversations, deadLetters, storeVars,
                   topic, committed, fate, dlqVars, faults>>

\* processMessage: the log may be gone, or cannot be read.
GetTrafficLogByConversationID ==
    /\ pc[Analyzer] = "load"
    /\ \/ Ok /\ Goto(Analyzer, IF item[Analyzer] \in logs THEN "inventory" ELSE "deadLetter")
       \/ Err /\ Goto(Analyzer, "deadLetter")
    /\ UNCHANGED <<queue, item, bucket, reqVars, logs, conversations, deadLetters,
                   storeVars, topicVars, dlqVars>>

\* When the dead letter cannot be published, ProcessOne returns without a
\* commit and the loop goes on with the next record.
publishDeadLetter ==
    /\ pc[Analyzer] = "deadLetter"
    /\ LET published == Append(dlq, item[Analyzer]) IN
        \/ /\ Ok /\ dlq' = published /\ Goto(Analyzer, "commit")
           /\ fate' = [fate EXCEPT ![position] = "dead"] /\ UNCHANGED <<item, bucket>>
        \/ /\ Err /\ dlq' \in {dlq, published} /\ Idle
           /\ fate' = [fate EXCEPT ![position] = "skipped"]
    /\ UNCHANGED <<queue, reqVars, logs, conversations, deadLetters,
                   storeVars, topic, committed, position, dlqCommitted, dlqPosition,
                   dlqPc>>

\* A faulty variant: the offset after the next record is committed.
CommitAhead ==
    /\ pc[Analyzer] = "commit"
    /\ Ok /\ committed' = position + 1
    /\ Idle
    /\ UNCHANGED <<queue, reqVars, logs, conversations, deadLetters, storeVars, topic,
                   position, fate, dlqVars>>

\* CommitRecords commits the offset of this record, hence all before it.
Commit ==
    /\ pc[Analyzer] = "commit"
    /\ (Ok /\ committed' = position) \/ (Err /\ committed' \in {committed, position})
    /\ Idle
    /\ UNCHANGED <<queue, reqVars, logs, conversations, deadLetters, storeVars, topic,
                   position, fate, dlqVars>>

\* The analyzer dies and is restarted; its consumer resumes after the
\* committed offset.
AnalyzerCrash ==
    /\ pc[Analyzer] # "idle" \/ position # committed
    /\ Err
    /\ Idle /\ position' = committed
    /\ UNCHANGED <<queue, reqVars, logs, conversations, deadLetters, storeVars, topic,
                   committed, fate, dlqVars>>
-----------------------------------------------------------------------------
(* The dead-letter consumer: Consumer.ProcessOne and Run *)

ConsumeDeadLetter ==
    /\ dlqPc = "idle" /\ dlqPosition < Len(dlq)
    /\ dlqPosition' = dlqPosition + 1 /\ dlqPc' = "save"
    /\ UNCHANGED <<queue, workVars, reqVars, logs, conversations, deadLetters, storeVars,
                   topicVars, dlq, dlqCommitted, faults>>

\* Run returns the error, the process exits and is restarted.
Restart(offset) == dlqPc' = "idle" /\ dlqPosition' = offset /\ dlqCommitted' = offset

\* A faulty variant: a dead letter that cannot be stored is committed.
SaveDeadLetterIgnoringError ==
    /\ dlqPc = "save" /\ dlqPc' = "commit"
    /\ \/ Ok /\ deadLetters' = deadLetters \union {<<"analyzer", dlq[dlqPosition]>>}
       \/ Err /\ UNCHANGED deadLetters
    /\ UNCHANGED <<queue, workVars, reqVars, logs, conversations, storeVars, topicVars,
                   dlq, dlqCommitted, dlqPosition>>

\* A faulty variant: after an error the loop goes on with the next dead letter.
SaveDeadLetterOrSkip ==
    /\ dlqPc = "save"
    /\ \/ /\ Ok /\ deadLetters' = deadLetters \union {<<"analyzer", dlq[dlqPosition]>>}
          /\ dlqPc' = "commit"
       \/ Err /\ UNCHANGED deadLetters /\ dlqPc' = "idle"
    /\ UNCHANGED <<queue, workVars, reqVars, logs, conversations, storeVars, topicVars,
                   dlq, dlqCommitted, dlqPosition>>

SaveIngestDeadLetter ==
    /\ dlqPc = "save"
    /\ LET saved == deadLetters \union {<<"analyzer", dlq[dlqPosition]>>} IN
        \/ /\ Ok /\ deadLetters' = saved /\ dlqPc' = "commit"
           /\ UNCHANGED <<dlqPosition, dlqCommitted>>
        \/ Err /\ deadLetters' \in {deadLetters, saved} /\ Restart(dlqCommitted)
    /\ UNCHANGED <<queue, workVars, reqVars, logs, conversations, storeVars, topicVars,
                   dlq>>

CommitDeadLetter ==
    /\ dlqPc = "commit"
    /\ \/ Ok /\ dlqCommitted' = dlqPosition /\ dlqPc' = "idle" /\ UNCHANGED dlqPosition
       \/ Err /\ (Restart(dlqCommitted) \/ Restart(dlqPosition))
    /\ UNCHANGED <<queue, workVars, reqVars, logs, conversations, deadLetters, storeVars,
                   topicVars, dlq>>

DeadLetterCrash ==
    /\ dlqPc # "idle"
    /\ Err /\ Restart(dlqCommitted)
    /\ UNCHANGED <<queue, workVars, reqVars, logs, conversations, deadLetters, storeVars,
                   topicVars, dlq>>
-----------------------------------------------------------------------------
ProcessLog(p) ==
    \/ UpdateInventory(p) \/ SaveObservation(p) \/ InsertMetricEvent(p)
    \/ CountMetric(p) \/ DeleteMetricEvent(p)

Request(r) ==
    \/ Validate(r) \/ SaveLog(r) \/ FindExcessLogs(r) \/ DeleteExcessLogs(r)
    \/ SaveConversation(r) \/ PublishConversation(r) \/ ProcessLog(r) \/ Respond(r)

RuntimeAnalyzer ==
    \/ Consume \/ GetTrafficLogByConversationID \/ ProcessLog(Analyzer)
    \/ publishDeadLetter \/ Commit

DeadLetterConsumer == ConsumeDeadLetter \/ SaveIngestDeadLetter \/ CommitDeadLetter

Next ==
    \/ \E r \in Requests : Receive(r) \/ Request(r) \/ IngestorCrash(r)
    \/ \E c \in Conversations : Expires(c)
    \/ RuntimeAnalyzer \/ AnalyzerCrash
    \/ DeadLetterConsumer \/ DeadLetterCrash

Spec == Init /\ [][Next]_vars

\* Handlers run to their end and both consumers keep looping.
Fairness ==
    /\ \A r \in Requests : WF_vars(Request(r))
    /\ WF_vars(RuntimeAnalyzer)
    /\ WF_vars(DeadLetterConsumer)

FairSpec == Spec /\ Fairness
-----------------------------------------------------------------------------
(* Properties *)

Fates == {"none", "analyzed", "abandoned", "dead", "skipped"}

\* The types of all variables; offsets never run ahead of what they index.
TypeOK ==
    /\ queue \in BOOLEAN
    /\ pc \in [Processes -> Labels]
    /\ item \in [Processes -> Conversations \union {NoItem}]
    /\ bucket \in [Processes -> Granularities]
    /\ result \in [Requests -> Answers \union {"none"}]
    /\ answer \in [Requests -> Answers \union {"none", "crashed"}]
    /\ excess \in [Requests -> SUBSET Conversations]
    /\ logs \subseteq Conversations /\ conversations \subseteq Conversations
    /\ stored \subseteq Writes \X Conversations
    /\ ledger \subseteq Keys /\ unsure \subseteq Keys
    /\ metrics \in [Keys -> Nat]
    /\ deadLetters \subseteq (Answers \union {"analyzer"}) \X Conversations
    /\ topic \in Seq(Conversations) /\ fate \in Seq(Fates) /\ Len(fate) = Len(topic)
    /\ committed \in 0..position /\ position \in 0..Len(topic)
    /\ dlq \in Seq(Conversations) /\ dlqPc \in {"idle", "save", "commit"}
    /\ dlqCommitted \in 0..dlqPosition /\ dlqPosition \in 0..Len(dlq)
    /\ faults \in 0..MaxFaults

\* Some record of the topic refers to c.
Published(c) == \E i \in 1..Len(topic) : topic[i] = c

\* A request for c is between its arrival and its answer.
InFlight(c) == \E r \in Requests : item[r] = c /\ pc[r] \notin {"new", "done"}

\* "Transient persistence errors are also surfaced to the client so it can
\* retry rather than silently losing data": when one request for a conversation
\* was answered with an error and another one with 202, as accepted or as a
\* duplicate, the conversation is in the topic.
RetriedIsPublished ==
    queue => \A q, r \in Requests :
        /\ item[q] = item[r] /\ ~InFlight(item[r])
        /\ answer[q] = "failed" /\ answer[r] \in {"accepted", "duplicate"}
        => Published(item[r])

\* What is stored but never published was refused or lost in a crash at least
\* once, and was never answered as accepted (HandleConversation).
UnpublishedWasRefused ==
    queue => \A c \in conversations :
        ~InFlight(c) /\ ~Published(c) =>
            /\ \E r \in Requests : item[r] = c /\ answer[r] \in {"failed", "crashed"}
            /\ \A r \in Requests : item[r] = c => answer[r] # "accepted"

\* A record whose offset is committed although its endpoint is not in the
\* inventory and no dead letter tells of it.
Lost(i) ==
    /\ <<"inventory", topic[i]>> \notin stored
    /\ \A k \in 1..Len(dlq) : dlq[k] # topic[i]

\* Each failed call costs the analyzer at most one record: the other records up
\* to the committed offset are in the inventory or among the dead letters, also
\* those a later commit covered and those processed again after a crash
\* (ProcessOne, CommitRecords).
CommittedWasProcessed == Cardinality({i \in 1..committed : Lost(i)}) <= faults

\* "Malformed or unprocessable messages are published to
\* karaxys.ingest.dead_letter before being committed".
CommittedIsDeadLettered ==
    \A i \in 1..committed :
        fate[i] \in {"dead", "skipped"} => \E k \in 1..Len(dlq) : dlq[k] = topic[i]

\* "a replayed eBPF conversation does not double-increment hourly or daily
\* metrics", however often its record is redelivered while the ledger keeps its
\* entry (the TTL of its index), unless the update that counted it reported an error
\* (recordTrafficMetrics).
MetricsCountedOnce == \A k \in Keys \ unsure : metrics[k] <= 1

\* A conversation is counted only after its endpoint is in the inventory.
CountedIsInventoried ==
    \A k \in Keys : metrics[k] > 0 => <<"inventory", k[1]>> \in stored

\* The dead-letter consumer commits only what it stored: unlike the analyzer
\* it stops at the first error, so no later commit passes over a record.
CommittedDeadLetterIsStored ==
    \A i \in 1..dlqCommitted : <<"analyzer", dlq[i]>> \in deadLetters

\* The analyzer catches up: again and again every published conversation has
\* been processed to an end, although processes crash and calls fail, so no
\* record is left behind by a restart (Worker.Run).
AnalyzerCatchesUp == []<>(\A i \in 1..Len(topic) : fate[i] # "none")

\* The dead-letter consumer catches up: every dead letter of the analyzer is
\* eventually stored, although the consumer stops at each error (Consumer.Run).
DeadLettersCatchUp ==
    []<>(\A i \in 1..Len(dlq) : <<"analyzer", dlq[i]>> \in deadLetters)
=============================================================================
