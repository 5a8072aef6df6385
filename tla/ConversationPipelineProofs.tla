--------------------- MODULE ConversationPipelineProofs ---------------------
(***************************************************************************)
(* Theorems about ConversationPipeline for every set of conversations and  *)
(* requests, every retention limit and every number of faults.             *)
(*                                                                         *)
(* WorkInv says where each process can be and what it holds there.  On it  *)
(* rest independent invariants: FateInv for the analyzer's offsets,        *)
(* DeadLetterInv for those of the dead-letter consumer, LedgerInv for the  *)
(* metrics, InventoryInv for the order of the analysis, LossInv for the    *)
(* records it loses and PublishInv for the answers of the ingestor.        *)
(***************************************************************************)
EXTENDS ConversationPipeline, FiniteSetTheorems, SequenceTheorems, TLAPS

\* Where a request and the analyzer can be.
Analysis == Writes \union {"ledger", "count", "undo"}
RequestLabels ==
    {"new", "check", "saveLog", "prune", "delete", "saveConversation", "publish", "respond",
     "done"} \union Analysis
AnalyzerLabels == {"idle", "load", "deadLetter", "commit"} \union Analysis

\* A process at work has a conversation; requests do not analyze when there is a
\* broker, and are over once they are answered.
WorkInv ==
    /\ \A r \in Requests : pc[r] \in RequestLabels /\ (queue => pc[r] \notin Analysis)
    /\ \A r \in Requests : pc[r] # "new" => item[r] \in Conversations
    /\ \A r \in Requests : pc[r] = "respond" => result[r] \in Answers
    /\ \A r \in Requests : answer[r] # "none" => pc[r] = "done"
    /\ pc[Analyzer] \in AnalyzerLabels
    /\ pc[Analyzer] # "idle" => item[Analyzer] \in Conversations /\ position > 0

\* Records before the analyzer's position have a fate, and so has the one at it
\* unless it is being processed, which then is not committed.
FateInv ==
    /\ \A i \in 1..position :
         i < position \/ pc[Analyzer] \in {"idle", "commit"} => fate[i] # "none"
    /\ pc[Analyzer] \notin {"idle", "commit"} => committed < position

\* The dead-letter consumer is at most one record ahead of its commits.
DeadLetterInv ==
    /\ dlqPosition = (IF dlqPc = "idle" THEN dlqCommitted ELSE dlqCommitted + 1)
    /\ \A i \in 1..dlqCommitted : <<"analyzer", dlq[i]>> \in deadLetters
    /\ dlqPc = "commit" => <<"analyzer", dlq[dlqPosition]>> \in deadLetters

\* A key is in the ledger while a process counts it, and afterwards unless the
\* count failed; one process at a time counts it.
LedgerInv ==
    /\ \A p \in Processes : pc[p] \in {"count", "undo"} =>
         Key(p) \in ledger /\ (metrics[Key(p)] = 0 \/ Key(p) \in unsure)
    /\ \A p, q \in Processes :
         pc[p] \in {"count", "undo"} /\ pc[q] \in {"count", "undo"} /\ Key(p) = Key(q) => p = q
    /\ \A k \in Keys \ unsure : metrics[k] <= 1 /\ (metrics[k] > 0 => k \in ledger)

\* Once the inventory has a conversation, the rest of its analysis follows.
InventoryInv ==
    /\ \A p \in Processes :
         pc[p] \in Analysis \ {"inventory"} => <<"inventory", item[p]>> \in stored
    /\ CountedIsInventoried

\* What was accepted is in the topic; for what is stored and not in the topic a
\* request is about to publish it or was refused.
Owes(r) ==
    \/ pc[r] = "publish"
    \/ pc[r] = "respond" /\ result[r] = "failed"
    \/ answer[r] \in {"failed", "crashed"}
PublishInv ==
    queue =>
      /\ \A r \in Requests :
           (pc[r] = "respond" /\ result[r] = "accepted") \/ answer[r] = "accepted"
           => Published(item[r])
      /\ \A c \in conversations : Published(c) \/ \E r \in Requests : item[r] = c /\ Owes(r)

\* The records on which a call failed before they were in the inventory or among
\* the dead letters are no more than the failed calls; the analyzer works on the
\* record at its position.
Failed == {i \in 1..Len(fate) : fate[i] \in {"abandoned", "skipped"}}
LossInv ==
    /\ \A i \in 1..Len(fate) : fate[i] = "analyzed" => <<"inventory", topic[i]>> \in stored
    /\ \A i \in 1..Len(fate) :
         fate[i] = "dead" => \E k \in 1..Len(dlq) : dlq[k] = topic[i]
    /\ pc[Analyzer] # "idle" => item[Analyzer] = topic[position]
    /\ Cardinality(Failed) <= faults

\* The conjunction that every step preserves.
PipelineInv ==
    /\ TypeOK /\ WorkInv /\ FateInv /\ DeadLetterInv /\ LedgerInv /\ InventoryInv /\ LossInv
    /\ PublishInv

\* What a step means to WorkInv: a request that goes on, or the analyzer.
Works(r) ==
    /\ pc[r] # "done" /\ UNCHANGED position
    /\ \/ pc[r] # "new" /\ UNCHANGED item
       \/ \E c \in Conversations : item' = [item EXCEPT ![r] = c]
    /\ \E l \in RequestLabels \ {"new"} :
         /\ Goto(r, l) /\ (queue => l \notin Analysis)
         /\ \/ l # "respond" /\ UNCHANGED result
            \/ \E s \in Answers : l = "respond" /\ result' = [result EXCEPT ![r] = s]
         /\ \/ UNCHANGED answer
            \/ \E s \in Answers \union {"crashed"} :
                 l = "done" /\ answer' = [answer EXCEPT ![r] = s]
AnalyzerWorks ==
    /\ UNCHANGED <<result, answer>>
    /\ \E l \in AnalyzerLabels, c \in Conversations \union {NoItem} :
         /\ Goto(Analyzer, l) /\ item' = [item EXCEPT ![Analyzer] = c]
         /\ l # "idle" => c \in Conversations /\ position' > 0

\* What a step of its analysis means to FateInv.
Analyzes ==
    /\ pc[Analyzer] \in Analysis /\ UNCHANGED <<committed, position>>
    /\ \/ pc'[Analyzer] \in Analysis /\ UNCHANGED fate
       \/ /\ pc'[Analyzer] = "commit"
          /\ \E e \in Fates \ {"none"} : fate' = [fate EXCEPT ![position] = e]
-----------------------------------------------------------------------------
(* Types and places *)

\* Each call succeeds or counts as a fault.
LEMMA OkOrErr ==
  ASSUME [Next]_vars
  PROVE  Ok \/ Err
<1> USE DEF Ok
<1> DEFINE Effect ==
      Ok \/ Err
           Keeps == Ok \/ Err
<1>1. ASSUME NEW r \in Requests,
       \/ Receive(r) \/ Validate(r) \/ SaveLog(r) \/ FindExcessLogs(r)
       \/ DeleteExcessLogs(r) \/ SaveConversation(r)
     PROVE  Keeps
  BY <1>1 DEF reqVars, storeVars, topicVars, dlqVars, workVars, Receive, Goto,
     Validate, Answer, SaveLog, FindExcessLogs, DeleteExcessLogs, SaveConversation
<1>2. ASSUME NEW r \in Requests,
       \/ PublishConversation(r) \/ Respond(r) \/ IngestorCrash(r)
     PROVE  Keeps
  BY <1>2 DEF reqVars, storeVars, topicVars, dlqVars, workVars, PublishConversation,
     Goto, Answer, AppendEvent, Respond, IngestorCrash
<1>3. ASSUME NEW p \in Processes,
       \/ UpdateInventory(p) \/ SaveObservation(p) \/ InsertMetricEvent(p)
       \/ CountMetric(p) \/ DeleteMetricEvent(p)
     PROVE  Keeps
  BY <1>3 DEF reqVars, storeVars, topicVars, dlqVars, workVars, UpdateInventory,
     Goto, Return, Answer, SaveObservation, InsertMetricEvent, NextBucket,
     CountMetric, DeleteMetricEvent
<1>4. ASSUME NEW c \in Conversations, Expires(c)
     PROVE  Keeps
  BY <1>4 DEF reqVars, storeVars, topicVars, dlqVars, workVars, Expires
<1>5. ASSUME
       \/ Consume \/ GetTrafficLogByConversationID \/ publishDeadLetter \/ Commit
       \/ AnalyzerCrash \/ ConsumeDeadLetter
     PROVE  Keeps
  BY <1>5 DEF reqVars, storeVars, topicVars, dlqVars, workVars, Consume, Goto,
     GetTrafficLogByConversationID, publishDeadLetter, Idle, Commit, AnalyzerCrash,
     ConsumeDeadLetter
<1>6. ASSUME
       \/ SaveIngestDeadLetter \/ CommitDeadLetter \/ DeadLetterCrash
     PROVE  Keeps
  BY <1>6 DEF reqVars, storeVars, topicVars, dlqVars, workVars,
     SaveIngestDeadLetter, Restart, CommitDeadLetter, DeadLetterCrash
<1>7. ASSUME UNCHANGED vars PROVE Keeps
  BY <1>7 DEF vars, reqVars, storeVars, topicVars, dlqVars
<1>8. ASSUME Keeps PROVE Effect
  BY <1>8
<1> HIDE DEF Effect, Keeps
<1>q. Effect
  BY <1>1, <1>2, <1>3, <1>4, <1>5, <1>6, <1>7, <1>8 DEF Next, Request, ProcessLog,
     RuntimeAnalyzer, DeadLetterConsumer, Processes
<1> QED
  BY <1>q DEF Effect

\* A process that works on something has a conversation and a key to count.
LEMMA WorkingKey ==
  ASSUME TypeOK, WorkInv, NEW p \in Processes, pc[p] \notin {"new", "idle"}
  PROVE  item[p] \in Conversations /\ Key(p) \in Keys
  BY DEF TypeOK, WorkInv, Key, Keys, Processes

\* Writing the end of a record's processing changes its entry alone.
LEMMA FateSet ==
  ASSUME TypeOK, NEW e \in Fates, fate' = [fate EXCEPT ![position] = e]
  PROVE  /\ fate' \in Seq(Fates) /\ Len(fate') = Len(fate)
         /\ \A i \in 1..Len(fate) : fate'[i] = IF i = position THEN e ELSE fate[i]
<1>1. fate \in [1..Len(fate) -> Fates] /\ Len(fate) \in Nat
  BY DEF TypeOK
<1>2. fate' \in [1..Len(fate) -> Fates]
  BY <1>1
<1>3. fate' \in Seq(Fates)
  BY <1>1, <1>2, SeqDef
<1>4. Len(fate') = Len(fate)
  BY <1>1, <1>2, <1>3, LenProperties
<1> QED
  BY <1>1, <1>3, <1>4

\* An analysis that returns ends the analyzer's record or answers a request.
LEMMA ReturnMove ==
  ASSUME NEW p \in Processes, NEW e, Return(p, e)
  PROVE  \/ /\ p = Analyzer /\ Goto(p, "commit")
            /\ fate' = [fate EXCEPT ![position] = e] /\ UNCHANGED result
         \/ p # Analyzer /\ p \in Requests /\ Answer(p, "accepted") /\ UNCHANGED fate
  BY DEF Return, Processes

\* Processes stay within the program.
LEMMA WorkTypes ==
  ASSUME TypeOK, [Next]_vars
  PROVE  /\ pc' \in [Processes -> Labels]
         /\ item' \in [Processes -> Conversations \union {NoItem}]
         /\ bucket' \in [Processes -> Granularities]
<1> USE DEF TypeOK, Processes, Labels, Granularities
<1> DEFINE Effect ==
      /\ pc' \in [Processes -> Labels]
      /\ item' \in [Processes -> Conversations \union {NoItem}]
      /\ bucket' \in [Processes -> Granularities]
           Keeps == UNCHANGED <<pc, item, bucket>>
<1>1. ASSUME NEW r \in Requests, Receive(r) PROVE Effect
  BY <1>1 DEF Receive, Goto, reqVars, storeVars, topicVars, dlqVars, workVars, Writes
<1>2. ASSUME NEW r \in Requests, Validate(r) PROVE Effect
  <2>1. Goto(r, "respond") \/ Goto(r, "saveLog")
    BY <1>2 DEF Validate, Answer
  <2>2. UNCHANGED <<item, bucket>>
    BY <1>2 DEF Validate
  <2> QED
    BY <2>1, <2>2 DEF Goto
<1>3. ASSUME NEW r \in Requests, SaveLog(r) PROVE Effect
  <2>1. Goto(r, "respond") \/ Goto(r, "prune")
    BY <1>3 DEF SaveLog, Answer
  <2>2. UNCHANGED <<item, bucket>>
    BY <1>3 DEF SaveLog
  <2> QED
    BY <2>1, <2>2 DEF Goto
<1>4. ASSUME NEW r \in Requests, FindExcessLogs(r) PROVE Effect
  BY <1>4 DEF FindExcessLogs, Goto, Excess, reqVars, storeVars, topicVars, dlqVars,
     workVars, Writes
<1>5. ASSUME NEW r \in Requests, DeleteExcessLogs(r) PROVE Effect
  BY <1>5 DEF DeleteExcessLogs, Goto, reqVars, storeVars, topicVars, dlqVars,
     workVars, Writes
<1>6. ASSUME NEW r \in Requests, SaveConversation(r) PROVE Effect
  <2>1. Goto(r, "respond") \/ Goto(r, "publish") \/ Goto(r, "inventory")
    BY <1>6 DEF SaveConversation, Answer
  <2>2. UNCHANGED <<item, bucket>>
    BY <1>6 DEF SaveConversation
  <2> QED
    BY <2>1, <2>2 DEF Goto, Writes
<1>7. ASSUME NEW r \in Requests, PublishConversation(r) PROVE Effect
  BY <1>7 DEF PublishConversation, Goto, Answer, AppendEvent, reqVars, storeVars,
     topicVars, dlqVars, workVars, Writes
<1>8. ASSUME NEW r \in Requests, Respond(r) PROVE Effect
  BY <1>8 DEF Respond, Goto, reqVars, storeVars, topicVars, dlqVars, workVars, Writes
<1>9. ASSUME NEW r \in Requests, IngestorCrash(r) PROVE Effect
  BY <1>9 DEF IngestorCrash, Goto, reqVars, storeVars, topicVars, dlqVars, workVars,
     Writes
<1>10. ASSUME NEW p \in Processes, UpdateInventory(p) PROVE Effect
  BY <1>10 DEF UpdateInventory, Goto, Return, Answer, reqVars, storeVars, topicVars,
     dlqVars, workVars, Writes
<1>11. ASSUME NEW p \in Processes, SaveObservation(p) PROVE Effect
  BY <1>11 DEF SaveObservation, Goto, After, reqVars, storeVars, topicVars, dlqVars,
     workVars, Writes
<1>12. ASSUME NEW p \in Processes, InsertMetricEvent(p) PROVE Effect
  BY <1>12 DEF InsertMetricEvent, Goto, Return, Answer, NextBucket, Key, reqVars,
     storeVars, topicVars, dlqVars, workVars, Writes
<1>13. ASSUME NEW p \in Processes, CountMetric(p) PROVE Effect
  BY <1>13 DEF CountMetric, Goto, Return, Answer, NextBucket, Key, reqVars, storeVars,
     topicVars, dlqVars, workVars, Writes
<1>14. ASSUME NEW p \in Processes, DeleteMetricEvent(p) PROVE Effect
  BY <1>14 DEF DeleteMetricEvent, Goto, Return, Answer, Key, reqVars, storeVars,
     topicVars, dlqVars, workVars, Writes
<1>15. ASSUME Consume PROVE Effect
  BY <1>15 DEF Consume, Goto, reqVars, storeVars, topicVars, dlqVars, workVars, Writes
<1>16. ASSUME GetTrafficLogByConversationID PROVE Effect
  BY <1>16 DEF GetTrafficLogByConversationID, Goto, reqVars, storeVars, topicVars,
     dlqVars, workVars, Writes
<1>17. ASSUME publishDeadLetter PROVE Effect
  BY <1>17 DEF publishDeadLetter, Goto, Idle, reqVars, storeVars, topicVars, dlqVars,
     workVars, Writes
<1>18. ASSUME Commit PROVE Effect
  BY <1>18 DEF Commit, Goto, Idle, reqVars, storeVars, topicVars, dlqVars, workVars,
     Writes
<1>19. ASSUME AnalyzerCrash PROVE Effect
  BY <1>19 DEF AnalyzerCrash, Goto, Idle, reqVars, storeVars, topicVars, dlqVars,
     workVars, Writes
<1>20. ASSUME NEW c \in Conversations, Expires(c)
     PROVE  Keeps
  BY <1>20 DEF reqVars, storeVars, topicVars, dlqVars, workVars, Expires
<1>21. ASSUME
       \/ ConsumeDeadLetter \/ SaveIngestDeadLetter \/ CommitDeadLetter
       \/ DeadLetterCrash
     PROVE  Keeps
  BY <1>21 DEF reqVars, storeVars, topicVars, dlqVars, workVars, ConsumeDeadLetter,
     SaveIngestDeadLetter, Restart, CommitDeadLetter, DeadLetterCrash
<1>22. ASSUME UNCHANGED vars PROVE Keeps
  BY <1>22 DEF vars, reqVars, storeVars, topicVars, dlqVars
<1>23. ASSUME Keeps PROVE Effect
  BY <1>23
<1> HIDE DEF Effect, Keeps
<1>q. Effect
  BY <1>1, <1>2, <1>3, <1>4, <1>5, <1>6, <1>7, <1>8, <1>9, <1>10, <1>11, <1>12,
     <1>13, <1>14, <1>15, <1>16, <1>17, <1>18, <1>19, <1>20, <1>21, <1>22, <1>23 DEF
     Next, Request, ProcessLog, RuntimeAnalyzer, DeadLetterConsumer, Processes
<1> QED
  BY <1>q DEF Effect

\* Answers and pruned logs stay in their types.
LEMMA AnswerTypes ==
  ASSUME TypeOK, WorkInv, [Next]_vars
  PROVE  /\ result' \in [Requests -> Answers \union {"none"}]
         /\ answer' \in [Requests -> Answers \union {"none", "crashed"}]
         /\ excess' \in [Requests -> SUBSET Conversations]
<1> USE DEF TypeOK, Processes
<1> DEFINE Effect ==
      /\ result' \in [Requests -> Answers \union {"none"}]
      /\ answer' \in [Requests -> Answers \union {"none", "crashed"}]
      /\ excess' \in [Requests -> SUBSET Conversations]
           Keeps == UNCHANGED reqVars
<1>1. ASSUME NEW r \in Requests, Validate(r) PROVE Effect
  <2>1. UNCHANGED result \/ \E s \in {"invalid", "mismatch"} : Answer(r, s)
    BY <1>1 DEF Validate
  <2> QED
    BY <1>1, <2>1 DEF Validate, Answer, Answers
<1>2. ASSUME NEW r \in Requests, SaveLog(r) PROVE Effect
  BY <1>2 DEF SaveLog, Goto, Answer, reqVars, storeVars, topicVars, dlqVars,
     workVars, Answers
<1>3. ASSUME NEW r \in Requests, FindExcessLogs(r) PROVE Effect
  BY <1>3 DEF FindExcessLogs, Goto, Excess, reqVars, storeVars, topicVars, dlqVars,
     workVars, Answers
<1>4. ASSUME NEW r \in Requests, DeleteExcessLogs(r) PROVE Effect
  BY <1>4 DEF DeleteExcessLogs, Goto, reqVars, storeVars, topicVars, dlqVars,
     workVars, Answers
<1>5. ASSUME NEW r \in Requests, SaveConversation(r) PROVE Effect
  BY <1>5 DEF SaveConversation, Goto, Answer, reqVars, storeVars, topicVars, dlqVars,
     workVars, Answers
<1>6. ASSUME NEW r \in Requests, PublishConversation(r) PROVE Effect
  BY <1>6 DEF PublishConversation, Goto, Answer, AppendEvent, reqVars, storeVars,
     topicVars, dlqVars, workVars, Answers
<1>7. ASSUME NEW r \in Requests, Respond(r) PROVE Effect
  BY <1>7 DEF Respond, Goto, reqVars, storeVars, topicVars, dlqVars, workVars,
     Answers
<1>8. ASSUME NEW r \in Requests, IngestorCrash(r) PROVE Effect
  BY <1>8 DEF IngestorCrash, Goto, reqVars, storeVars, topicVars, dlqVars, workVars,
     Answers
<1>9. ASSUME NEW p \in Processes, UpdateInventory(p) PROVE Effect
  BY <1>9 DEF UpdateInventory, Goto, Return, Answer, reqVars, storeVars, topicVars,
     dlqVars, workVars, Answers
<1>10. ASSUME NEW p \in Processes, InsertMetricEvent(p) PROVE Effect
  BY <1>10 DEF InsertMetricEvent, Goto, Return, Answer, NextBucket, Key, reqVars,
     storeVars, topicVars, dlqVars, workVars, Answers
<1>11. ASSUME NEW p \in Processes, CountMetric(p) PROVE Effect
  BY <1>11 DEF CountMetric, Goto, Return, Answer, NextBucket, Key, reqVars, storeVars,
     topicVars, dlqVars, workVars, Answers
<1>12. ASSUME NEW p \in Processes, DeleteMetricEvent(p) PROVE Effect
  BY <1>12 DEF DeleteMetricEvent, Goto, Return, Answer, Key, reqVars, storeVars,
     topicVars, dlqVars, workVars, Answers
<1>13. ASSUME NEW r \in Requests, Receive(r)
     PROVE  Keeps
  BY <1>13 DEF reqVars, storeVars, topicVars, dlqVars, workVars, Receive, Goto
<1>14. ASSUME NEW p \in Processes, SaveObservation(p)
     PROVE  Keeps
  BY <1>14 DEF reqVars, storeVars, topicVars, dlqVars, workVars, SaveObservation,
     Goto
<1>15. ASSUME NEW c \in Conversations, Expires(c)
     PROVE  Keeps
  BY <1>15 DEF reqVars, storeVars, topicVars, dlqVars, workVars, Expires
<1>16. ASSUME
       \/ Consume \/ GetTrafficLogByConversationID \/ publishDeadLetter \/ Commit
       \/ AnalyzerCrash \/ ConsumeDeadLetter
     PROVE  Keeps
  BY <1>16 DEF reqVars, storeVars, topicVars, dlqVars, workVars, Consume, Goto,
     GetTrafficLogByConversationID, publishDeadLetter, Idle, Commit, AnalyzerCrash,
     ConsumeDeadLetter
<1>17. ASSUME
       \/ SaveIngestDeadLetter \/ CommitDeadLetter \/ DeadLetterCrash
     PROVE  Keeps
  BY <1>17 DEF reqVars, storeVars, topicVars, dlqVars, workVars,
     SaveIngestDeadLetter, Restart, CommitDeadLetter, DeadLetterCrash
<1>18. ASSUME UNCHANGED vars PROVE Keeps
  BY <1>18 DEF vars, reqVars, storeVars, topicVars, dlqVars
<1>19. ASSUME Keeps PROVE Effect
  BY <1>19 DEF reqVars
<1> HIDE DEF Effect, Keeps
<1>q. Effect
  BY <1>1, <1>2, <1>3, <1>4, <1>5, <1>6, <1>7, <1>8, <1>9, <1>10, <1>11, <1>12,
     <1>13, <1>14, <1>15, <1>16, <1>17, <1>18, <1>19 DEF Next, Request, ProcessLog,
     RuntimeAnalyzer, DeadLetterConsumer, Processes
<1> QED
  BY <1>q DEF Effect

\* The stored logs, conversations and dead letters stay in their types.
LEMMA StoreTypes ==
  ASSUME TypeOK, WorkInv, DeadLetterInv, [Next]_vars
  PROVE  /\ logs' \subseteq Conversations /\ conversations' \subseteq Conversations
         /\ deadLetters' \subseteq (Answers \union {"analyzer"}) \X Conversations
<1> USE DEF TypeOK, WorkInv
<1> DEFINE Effect ==
      /\ logs' \subseteq Conversations /\ conversations' \subseteq Conversations
      /\ deadLetters' \subseteq (Answers \union {"analyzer"}) \X Conversations
           Keeps == UNCHANGED <<logs, conversations, deadLetters>>
<1>1. ASSUME NEW r \in Requests, SaveLog(r) PROVE Effect
  BY <1>1 DEF SaveLog, Goto, Answer, reqVars, storeVars, topicVars, dlqVars, workVars
<1>2. ASSUME NEW r \in Requests, DeleteExcessLogs(r) PROVE Effect
  BY <1>2 DEF DeleteExcessLogs, Goto, reqVars, storeVars, topicVars, dlqVars,
     workVars
<1>3. ASSUME NEW r \in Requests, SaveConversation(r) PROVE Effect
  BY <1>3 DEF SaveConversation, Goto, Answer, reqVars, storeVars, topicVars, dlqVars,
     workVars
<1>4. ASSUME NEW r \in Requests, Respond(r) PROVE Effect
  BY <1>4 DEF Respond, Goto, reqVars, storeVars, topicVars, dlqVars, workVars
<1>5. ASSUME NEW c \in Conversations, Expires(c) PROVE Effect
  BY <1>5 DEF Expires, reqVars, storeVars, topicVars, dlqVars, workVars
<1>6. ASSUME SaveIngestDeadLetter PROVE Effect
  <2>1. dlqPosition \in 1..Len(dlq)
    BY <1>6 DEF SaveIngestDeadLetter, DeadLetterInv
  <2>2. dlq[dlqPosition] \in Conversations
    BY <2>1
  <2> QED
    BY <1>6, <2>2 DEF SaveIngestDeadLetter
<1>7. ASSUME NEW r \in Requests,
       \/ Receive(r) \/ Validate(r) \/ FindExcessLogs(r) \/ PublishConversation(r)
       \/ IngestorCrash(r)
     PROVE  Keeps
  BY <1>7 DEF reqVars, storeVars, topicVars, dlqVars, workVars, Receive, Goto,
     Validate, Answer, FindExcessLogs, PublishConversation, AppendEvent,
     IngestorCrash
<1>8. ASSUME NEW p \in Processes,
       \/ UpdateInventory(p) \/ SaveObservation(p) \/ InsertMetricEvent(p)
       \/ CountMetric(p) \/ DeleteMetricEvent(p)
     PROVE  Keeps
  BY <1>8 DEF reqVars, storeVars, topicVars, dlqVars, workVars, UpdateInventory,
     Goto, Return, Answer, SaveObservation, InsertMetricEvent, NextBucket,
     CountMetric, DeleteMetricEvent
<1>9. ASSUME
       \/ Consume \/ GetTrafficLogByConversationID \/ publishDeadLetter \/ Commit
       \/ AnalyzerCrash \/ ConsumeDeadLetter
     PROVE  Keeps
  BY <1>9 DEF reqVars, storeVars, topicVars, dlqVars, workVars, Consume, Goto,
     GetTrafficLogByConversationID, publishDeadLetter, Idle, Commit, AnalyzerCrash,
     ConsumeDeadLetter
<1>10. ASSUME
       \/ CommitDeadLetter \/ DeadLetterCrash
     PROVE  Keeps
  BY <1>10 DEF reqVars, storeVars, topicVars, dlqVars, workVars, CommitDeadLetter,
     Restart, DeadLetterCrash
<1>11. ASSUME UNCHANGED vars PROVE Keeps
  BY <1>11 DEF vars, reqVars, storeVars, topicVars, dlqVars
<1>12. ASSUME Keeps PROVE Effect
  BY <1>12
<1> HIDE DEF Effect, Keeps
<1>q. Effect
  BY <1>1, <1>2, <1>3, <1>4, <1>5, <1>6, <1>7, <1>8, <1>9, <1>10, <1>11, <1>12 DEF
     Next, Request, ProcessLog, RuntimeAnalyzer, DeadLetterConsumer, Processes
<1> QED
  BY <1>q DEF Effect

\* What the analysis writes stays in its types.
LEMMA AnalysisTypes ==
  ASSUME TypeOK, WorkInv, [Next]_vars
  PROVE  /\ stored' \subseteq Writes \X Conversations
         /\ ledger' \subseteq Keys /\ unsure' \subseteq Keys /\ metrics' \in [Keys -> Nat]
<1> DEFINE Effect ==
      /\ stored' \subseteq Writes \X Conversations
      /\ ledger' \subseteq Keys /\ unsure' \subseteq Keys /\ metrics' \in [Keys -> Nat]
           Keeps == UNCHANGED storeVars
<1>1. ASSUME NEW p \in Processes, UpdateInventory(p) PROVE Effect
  <2>1. item[p] \in Conversations /\ Key(p) \in Keys
    BY <1>1, WorkingKey DEF UpdateInventory
  <2> QED
    BY <1>1, <2>1 DEF TypeOK, UpdateInventory, Writes
<1>2. ASSUME NEW p \in Processes, SaveObservation(p) PROVE Effect
  <2>1. item[p] \in Conversations /\ Key(p) \in Keys
    BY <1>2, WorkingKey DEF SaveObservation, After
  <2>2. pc[p] \in Writes
    BY <1>2 DEF SaveObservation, After, Writes
  <2>3. stored' \in {stored, stored \union {<<pc[p], item[p]>>}}
    BY <1>2 DEF SaveObservation
  <2> QED
    BY <1>2, <2>1, <2>2, <2>3 DEF TypeOK, SaveObservation
<1>3. ASSUME NEW p \in Processes, InsertMetricEvent(p) PROVE Effect
  <2>1. item[p] \in Conversations /\ Key(p) \in Keys
    BY <1>3, WorkingKey DEF InsertMetricEvent
  <2> QED
    BY <1>3, <2>1 DEF TypeOK, InsertMetricEvent
<1>4. ASSUME NEW p \in Processes, CountMetric(p) PROVE Effect
  <2>1. item[p] \in Conversations /\ Key(p) \in Keys
    BY <1>4, WorkingKey DEF CountMetric
  <2>2. metrics' \in {metrics, [metrics EXCEPT ![Key(p)] = @ + 1]}
    BY <1>4 DEF CountMetric
  <2>3. unsure' \in {unsure, unsure \union {Key(p)}} /\ UNCHANGED <<stored, ledger>>
    BY <1>4 DEF CountMetric
  <2> QED
    BY <2>1, <2>2, <2>3 DEF TypeOK
<1>5. ASSUME NEW p \in Processes, DeleteMetricEvent(p) PROVE Effect
  <2>1. item[p] \in Conversations /\ Key(p) \in Keys
    BY <1>5, WorkingKey DEF DeleteMetricEvent
  <2> QED
    BY <1>5, <2>1 DEF TypeOK, DeleteMetricEvent
<1>6. ASSUME NEW r \in Requests,
       \/ Receive(r) \/ Validate(r) \/ SaveLog(r) \/ FindExcessLogs(r)
       \/ DeleteExcessLogs(r) \/ SaveConversation(r)
     PROVE  Keeps
  BY <1>6 DEF reqVars, storeVars, topicVars, dlqVars, workVars, Receive, Goto,
     Validate, Answer, SaveLog, FindExcessLogs, DeleteExcessLogs, SaveConversation
<1>7. ASSUME NEW r \in Requests,
       \/ PublishConversation(r) \/ Respond(r) \/ IngestorCrash(r)
     PROVE  Keeps
  BY <1>7 DEF reqVars, storeVars, topicVars, dlqVars, workVars, PublishConversation,
     Goto, Answer, AppendEvent, Respond, IngestorCrash
<1>8. ASSUME NEW c \in Conversations, Expires(c)
     PROVE  Keeps
  BY <1>8 DEF reqVars, storeVars, topicVars, dlqVars, workVars, Expires
<1>9. ASSUME
       \/ Consume \/ GetTrafficLogByConversationID \/ publishDeadLetter \/ Commit
       \/ AnalyzerCrash \/ ConsumeDeadLetter
     PROVE  Keeps
  BY <1>9 DEF reqVars, storeVars, topicVars, dlqVars, workVars, Consume, Goto,
     GetTrafficLogByConversationID, publishDeadLetter, Idle, Commit, AnalyzerCrash,
     ConsumeDeadLetter
<1>10. ASSUME
       \/ SaveIngestDeadLetter \/ CommitDeadLetter \/ DeadLetterCrash
     PROVE  Keeps
  BY <1>10 DEF reqVars, storeVars, topicVars, dlqVars, workVars,
     SaveIngestDeadLetter, Restart, CommitDeadLetter, DeadLetterCrash
<1>11. ASSUME UNCHANGED vars PROVE Keeps
  BY <1>11 DEF vars, reqVars, storeVars, topicVars, dlqVars
<1>12. ASSUME Keeps PROVE Effect
  BY <1>12 DEF storeVars, TypeOK
<1> HIDE DEF Effect, Keeps
<1>q. Effect
  BY <1>1, <1>2, <1>3, <1>4, <1>5, <1>6, <1>7, <1>8, <1>9, <1>10, <1>11, <1>12 DEF
     Next, Request, ProcessLog, RuntimeAnalyzer, DeadLetterConsumer, Processes
<1> QED
  BY <1>q DEF Effect

\* The topic and the analyzer's offsets stay in their types.
LEMMA TopicTypes ==
  ASSUME TypeOK, WorkInv, [Next]_vars
  PROVE  /\ topic' \in Seq(Conversations) /\ fate' \in Seq(Fates) /\ Len(fate') = Len(topic')
         /\ committed' \in 0..position' /\ position' \in 0..Len(topic')
<1> USE DEF TypeOK
<1> DEFINE Effect ==
      /\ topic' \in Seq(Conversations) /\ fate' \in Seq(Fates) /\ Len(fate') = Len(topic')
      /\ committed' \in 0..position' /\ position' \in 0..Len(topic')
           Keeps == UNCHANGED topicVars
<1>1. ASSUME NEW r \in Requests, PublishConversation(r) PROVE Effect
  <2>1. item[r] \in Conversations
    BY <1>1 DEF PublishConversation, WorkInv
  <2>2. AppendEvent(item[r]) \/ UNCHANGED <<topic, fate>>
    BY <1>1 DEF PublishConversation
  <2>3. UNCHANGED <<committed, position>>
    BY <1>1 DEF PublishConversation
  <2>4. /\ Append(topic, item[r]) \in Seq(Conversations)
        /\ Len(Append(topic, item[r])) = Len(topic) + 1
    BY <2>1
  <2>5. "none" \in Fates
    BY DEF Fates
  <2>6. /\ Append(fate, "none") \in Seq(Fates)
        /\ Len(Append(fate, "none")) = Len(fate) + 1
    BY <2>5
  <2>7. topic' \in Seq(Conversations) /\ fate' \in Seq(Fates) /\ Len(fate') = Len(topic')
    BY <2>2, <2>4, <2>6 DEF AppendEvent
  <2>8. Len(topic') \in {Len(topic), Len(topic) + 1}
    BY <2>2, <2>4 DEF AppendEvent
  <2>9. Len(topic) \in Nat /\ committed' \in 0..position' /\ position' \in 0..Len(topic)
    BY <2>3
  <2> QED
    BY <2>7, <2>8, <2>9
<1>2. ASSUME NEW p \in Processes, UpdateInventory(p) PROVE Effect
  <2>1. UNCHANGED fate \/ \E e \in Fates : fate' = [fate EXCEPT ![position] = e]
    BY <1>2 DEF UpdateInventory, Return, Fates
  <2>2. fate' \in Seq(Fates) /\ Len(fate') = Len(fate)
    BY <2>1, FateSet
  <2> QED
    BY <1>2, <2>2 DEF UpdateInventory
<1>3. ASSUME NEW p \in Processes, InsertMetricEvent(p) PROVE Effect
  <2>1. UNCHANGED fate \/ \E e \in Fates : fate' = [fate EXCEPT ![position] = e]
    BY <1>3 DEF InsertMetricEvent, Return, NextBucket, Fates
  <2>2. fate' \in Seq(Fates) /\ Len(fate') = Len(fate)
    BY <2>1, FateSet
  <2> QED
    BY <1>3, <2>2 DEF InsertMetricEvent
<1>4. ASSUME NEW p \in Processes, CountMetric(p) PROVE Effect
  <2>1. UNCHANGED fate \/ \E e \in Fates : fate' = [fate EXCEPT ![position] = e]
    BY <1>4 DEF CountMetric, Return, NextBucket, Fates
  <2>2. fate' \in Seq(Fates) /\ Len(fate') = Len(fate)
    BY <2>1, FateSet
  <2> QED
    BY <1>4, <2>2 DEF CountMetric
<1>5. ASSUME NEW p \in Processes, DeleteMetricEvent(p) PROVE Effect
  <2>1. UNCHANGED fate \/ \E e \in Fates : fate' = [fate EXCEPT ![position] = e]
    BY <1>5 DEF DeleteMetricEvent, Return, Fates
  <2>2. fate' \in Seq(Fates) /\ Len(fate') = Len(fate)
    BY <2>1, FateSet
  <2> QED
    BY <1>5, <2>2 DEF DeleteMetricEvent
<1>6. ASSUME Consume PROVE Effect
  BY <1>6 DEF Consume, Goto, reqVars, storeVars, topicVars, dlqVars, workVars
<1>7. ASSUME publishDeadLetter PROVE Effect
  <2>1. UNCHANGED fate \/ \E e \in Fates : fate' = [fate EXCEPT ![position] = e]
    BY <1>7 DEF publishDeadLetter, Fates
  <2>2. fate' \in Seq(Fates) /\ Len(fate') = Len(fate)
    BY <2>1, FateSet
  <2> QED
    BY <1>7, <2>2 DEF publishDeadLetter
<1>8. ASSUME Commit PROVE Effect
  BY <1>8 DEF Commit, Goto, Idle, reqVars, storeVars, topicVars, dlqVars, workVars
<1>9. ASSUME AnalyzerCrash PROVE Effect
  BY <1>9 DEF AnalyzerCrash, Goto, Idle, reqVars, storeVars, topicVars, dlqVars,
     workVars
<1>10. ASSUME NEW r \in Requests,
       \/ Receive(r) \/ Validate(r) \/ SaveLog(r) \/ FindExcessLogs(r)
       \/ DeleteExcessLogs(r) \/ SaveConversation(r)
     PROVE  Keeps
  BY <1>10 DEF reqVars, storeVars, topicVars, dlqVars, workVars, Receive, Goto,
     Validate, Answer, SaveLog, FindExcessLogs, DeleteExcessLogs, SaveConversation
<1>11. ASSUME NEW r \in Requests,
       \/ Respond(r) \/ IngestorCrash(r)
     PROVE  Keeps
  BY <1>11 DEF reqVars, storeVars, topicVars, dlqVars, workVars, Respond, Goto,
     IngestorCrash
<1>12. ASSUME NEW p \in Processes, SaveObservation(p)
     PROVE  Keeps
  BY <1>12 DEF reqVars, storeVars, topicVars, dlqVars, workVars, SaveObservation,
     Goto
<1>13. ASSUME NEW c \in Conversations, Expires(c)
     PROVE  Keeps
  BY <1>13 DEF reqVars, storeVars, topicVars, dlqVars, workVars, Expires
<1>14. ASSUME
       \/ GetTrafficLogByConversationID \/ ConsumeDeadLetter
       \/ SaveIngestDeadLetter \/ CommitDeadLetter \/ DeadLetterCrash
     PROVE  Keeps
  BY <1>14 DEF reqVars, storeVars, topicVars, dlqVars, workVars,
     GetTrafficLogByConversationID, Goto, ConsumeDeadLetter, SaveIngestDeadLetter,
     Restart, CommitDeadLetter, DeadLetterCrash
<1>15. ASSUME UNCHANGED vars PROVE Keeps
  BY <1>15 DEF vars, reqVars, storeVars, topicVars, dlqVars
<1>16. ASSUME Keeps PROVE Effect
  BY <1>16 DEF topicVars
<1> HIDE DEF Effect, Keeps
<1>q. Effect
  BY <1>1, <1>2, <1>3, <1>4, <1>5, <1>6, <1>7, <1>8, <1>9, <1>10, <1>11, <1>12,
     <1>13, <1>14, <1>15, <1>16 DEF Next, Request, ProcessLog, RuntimeAnalyzer,
     DeadLetterConsumer, Processes
<1> QED
  BY <1>q DEF Effect

\* The dead-letter topic and its consumer's offsets stay in their types.
LEMMA DeadLetterTypes ==
  ASSUME TypeOK, WorkInv, [Next]_vars
  PROVE  /\ dlq' \in Seq(Conversations) /\ dlqPc' \in {"idle", "save", "commit"}
         /\ dlqCommitted' \in 0..dlqPosition' /\ dlqPosition' \in 0..Len(dlq')
<1> USE DEF TypeOK
<1> DEFINE Effect ==
      /\ dlq' \in Seq(Conversations) /\ dlqPc' \in {"idle", "save", "commit"}
      /\ dlqCommitted' \in 0..dlqPosition' /\ dlqPosition' \in 0..Len(dlq')
           Keeps == UNCHANGED dlqVars
<1>1. ASSUME publishDeadLetter PROVE Effect
  <2>1. item[Analyzer] \in Conversations
    BY <1>1 DEF publishDeadLetter, WorkInv
  <2>2. /\ dlq' \in {dlq, Append(dlq, item[Analyzer])}
        /\ UNCHANGED <<dlqCommitted, dlqPosition, dlqPc>>
    BY <1>1 DEF publishDeadLetter
  <2>3. /\ Append(dlq, item[Analyzer]) \in Seq(Conversations)
        /\ Len(Append(dlq, item[Analyzer])) = Len(dlq) + 1
    BY <2>1
  <2>4. dlq' \in Seq(Conversations) /\ Len(dlq') \in {Len(dlq), Len(dlq) + 1}
    BY <2>2, <2>3
  <2>5. Len(dlq) \in Nat
    OBVIOUS
  <2> QED
    BY <2>2, <2>4, <2>5
<1>2. ASSUME ConsumeDeadLetter PROVE Effect
  BY <1>2 DEF ConsumeDeadLetter, reqVars, storeVars, topicVars, dlqVars, workVars
<1>3. ASSUME SaveIngestDeadLetter PROVE Effect
  BY <1>3 DEF SaveIngestDeadLetter, Restart, reqVars, storeVars, topicVars, dlqVars,
     workVars
<1>4. ASSUME CommitDeadLetter PROVE Effect
  BY <1>4 DEF CommitDeadLetter, Restart, reqVars, storeVars, topicVars, dlqVars,
     workVars
<1>5. ASSUME DeadLetterCrash PROVE Effect
  BY <1>5 DEF DeadLetterCrash, Restart, reqVars, storeVars, topicVars, dlqVars,
     workVars
<1>6. ASSUME NEW r \in Requests,
       \/ Receive(r) \/ Validate(r) \/ SaveLog(r) \/ FindExcessLogs(r)
       \/ DeleteExcessLogs(r) \/ SaveConversation(r)
     PROVE  Keeps
  BY <1>6 DEF reqVars, storeVars, topicVars, dlqVars, workVars, Receive, Goto,
     Validate, Answer, SaveLog, FindExcessLogs, DeleteExcessLogs, SaveConversation
<1>7. ASSUME NEW r \in Requests,
       \/ PublishConversation(r) \/ Respond(r) \/ IngestorCrash(r)
     PROVE  Keeps
  BY <1>7 DEF reqVars, storeVars, topicVars, dlqVars, workVars, PublishConversation,
     Goto, Answer, AppendEvent, Respond, IngestorCrash
<1>8. ASSUME NEW p \in Processes,
       \/ UpdateInventory(p) \/ SaveObservation(p) \/ InsertMetricEvent(p)
       \/ CountMetric(p) \/ DeleteMetricEvent(p)
     PROVE  Keeps
  BY <1>8 DEF reqVars, storeVars, topicVars, dlqVars, workVars, UpdateInventory,
     Goto, Return, Answer, SaveObservation, InsertMetricEvent, NextBucket,
     CountMetric, DeleteMetricEvent
<1>9. ASSUME NEW c \in Conversations, Expires(c)
     PROVE  Keeps
  BY <1>9 DEF reqVars, storeVars, topicVars, dlqVars, workVars, Expires
<1>10. ASSUME
       \/ Consume \/ GetTrafficLogByConversationID \/ Commit \/ AnalyzerCrash
     PROVE  Keeps
  BY <1>10 DEF reqVars, storeVars, topicVars, dlqVars, workVars, Consume, Goto,
     GetTrafficLogByConversationID, Commit, Idle, AnalyzerCrash
<1>11. ASSUME UNCHANGED vars PROVE Keeps
  BY <1>11 DEF vars, reqVars, storeVars, topicVars, dlqVars
<1>12. ASSUME Keeps PROVE Effect
  BY <1>12 DEF dlqVars
<1> HIDE DEF Effect, Keeps
<1>q. Effect
  BY <1>1, <1>2, <1>3, <1>4, <1>5, <1>6, <1>7, <1>8, <1>9, <1>10, <1>11, <1>12 DEF
     Next, Request, ProcessLog, RuntimeAnalyzer, DeadLetterConsumer, Processes
<1> QED
  BY <1>q DEF Effect

\* A step moves one request, the analyzer or none of them.
LEMMA WorkMove ==
  ASSUME TypeOK, WorkInv, [Next]_vars
  PROVE  \/ \E r \in Requests : Works(r)
         \/ AnalyzerWorks
         \/ UNCHANGED <<pc, item, result, answer, position>>
<1> USE PipelineAssumption DEF TypeOK, WorkInv
<1> DEFINE Effect ==
      \/ \E r \in Requests : Works(r)
      \/ AnalyzerWorks
      \/ UNCHANGED <<pc, item, result, answer, position>>
           Keeps == UNCHANGED <<pc, item, result, answer, position>>
<1>1. ASSUME NEW r \in Requests, Receive(r) PROVE Effect
  <2>1. Works(r)
    BY <1>1 DEF Receive, topicVars, reqVars, Works, RequestLabels, Analysis, Writes,
       Answers
  <2> QED
    BY <2>1
<1>2. ASSUME NEW r \in Requests, Validate(r) PROVE Effect
  <2>1. Works(r)
    BY <1>2 DEF Validate, Answer, topicVars, reqVars, Works, RequestLabels, Analysis,
       Writes, Answers
  <2> QED
    BY <2>1
<1>3. ASSUME NEW r \in Requests, SaveLog(r) PROVE Effect
  <2>1. Works(r)
    BY <1>3 DEF SaveLog, Answer, topicVars, reqVars, Works, RequestLabels, Analysis,
       Writes, Answers
  <2> QED
    BY <2>1
<1>4. ASSUME NEW r \in Requests, FindExcessLogs(r) PROVE Effect
  <2>1. Works(r)
    BY <1>4 DEF FindExcessLogs, topicVars, reqVars, Works, RequestLabels, Analysis,
       Writes, Answers
  <2> QED
    BY <2>1
<1>5. ASSUME NEW r \in Requests, DeleteExcessLogs(r) PROVE Effect
  <2>1. Works(r)
    BY <1>5 DEF DeleteExcessLogs, topicVars, reqVars, Works, RequestLabels, Analysis,
       Writes, Answers
  <2> QED
    BY <2>1
<1>6. ASSUME NEW r \in Requests, SaveConversation(r) PROVE Effect
  <2>1. Works(r)
    BY <1>6 DEF SaveConversation, Answer, topicVars, reqVars, Works, RequestLabels,
       Analysis, Writes, Answers
  <2> QED
    BY <2>1
<1>7. ASSUME NEW r \in Requests, PublishConversation(r) PROVE Effect
  <2>1. Works(r)
    BY <1>7 DEF PublishConversation, Answer, topicVars, reqVars, Works,
       RequestLabels, Analysis, Writes, Answers
  <2> QED
    BY <2>1
<1>8. ASSUME NEW r \in Requests, Respond(r) PROVE Effect
  <2>1. Works(r)
    BY <1>8 DEF Respond, topicVars, reqVars, Works, RequestLabels, Analysis, Writes,
       Answers
  <2> QED
    BY <2>1
<1>9. ASSUME NEW r \in Requests, IngestorCrash(r) PROVE Effect
  <2>1. Works(r)
    BY <1>9 DEF IngestorCrash, topicVars, reqVars, Works, RequestLabels, Analysis,
       Writes, Answers
  <2> QED
    BY <2>1
<1>10. ASSUME NEW p \in Processes, UpdateInventory(p) PROVE Effect
  <2>1. CASE p = Analyzer
    <3>1. AnalyzerWorks
      BY <1>10, <2>1 DEF UpdateInventory, Return, Answer, topicVars, reqVars,
         AnalyzerWorks, AnalyzerLabels, Analysis, Writes
    <3> QED
      BY <3>1
  <2>2. CASE p # Analyzer /\ p \in Requests
    <3>1. Works(p)
      BY <1>10, <2>2 DEF UpdateInventory, Return, Answer, topicVars, reqVars, Works,
         RequestLabels, Analysis, Writes, Answers
    <3> QED
      BY <2>2, <3>1
  <2> QED
    BY <2>1, <2>2 DEF Processes
<1>11. ASSUME NEW p \in Processes, SaveObservation(p) PROVE Effect
  <2>1. CASE p = Analyzer
    <3>1. AnalyzerWorks
      BY <1>11, <2>1 DEF SaveObservation, After, topicVars, reqVars, AnalyzerWorks,
         AnalyzerLabels, Analysis, Writes
    <3> QED
      BY <3>1
  <2>2. CASE p # Analyzer /\ p \in Requests
    <3>1. Works(p)
      BY <1>11, <2>2 DEF SaveObservation, After, topicVars, reqVars, Works,
         RequestLabels, Analysis, Writes, Answers
    <3> QED
      BY <2>2, <3>1
  <2> QED
    BY <2>1, <2>2 DEF Processes
<1>12. ASSUME NEW p \in Processes, InsertMetricEvent(p) PROVE Effect
  <2>1. CASE p = Analyzer
    <3>1. AnalyzerWorks
      BY <1>12, <2>1 DEF InsertMetricEvent, Return, Answer, NextBucket, topicVars,
         reqVars, AnalyzerWorks, AnalyzerLabels, Analysis, Writes
    <3> QED
      BY <3>1
  <2>2. CASE p # Analyzer /\ p \in Requests
    <3>1. Works(p)
      BY <1>12, <2>2 DEF InsertMetricEvent, Return, Answer, NextBucket, topicVars,
         reqVars, Works, RequestLabels, Analysis, Writes, Answers
    <3> QED
      BY <2>2, <3>1
  <2> QED
    BY <2>1, <2>2 DEF Processes
<1>13. ASSUME NEW p \in Processes, CountMetric(p) PROVE Effect
  <2>1. CASE p = Analyzer
    <3>1. AnalyzerWorks
      BY <1>13, <2>1 DEF CountMetric, Return, Answer, NextBucket, topicVars, reqVars,
         AnalyzerWorks, AnalyzerLabels, Analysis, Writes
    <3> QED
      BY <3>1
  <2>2. CASE p # Analyzer /\ p \in Requests
    <3>1. Works(p)
      BY <1>13, <2>2 DEF CountMetric, Return, Answer, NextBucket, topicVars, reqVars,
         Works, RequestLabels, Analysis, Writes, Answers
    <3> QED
      BY <2>2, <3>1
  <2> QED
    BY <2>1, <2>2 DEF Processes
<1>14. ASSUME NEW p \in Processes, DeleteMetricEvent(p) PROVE Effect
  <2>1. CASE p = Analyzer
    <3>1. AnalyzerWorks
      BY <1>14, <2>1 DEF DeleteMetricEvent, Return, Answer, topicVars, reqVars,
         AnalyzerWorks, AnalyzerLabels, Analysis, Writes
    <3> QED
      BY <3>1
  <2>2. CASE p # Analyzer /\ p \in Requests
    <3>1. Works(p)
      BY <1>14, <2>2 DEF DeleteMetricEvent, Return, Answer, topicVars, reqVars, Works,
         RequestLabels, Analysis, Writes, Answers
    <3> QED
      BY <2>2, <3>1
  <2> QED
    BY <2>1, <2>2 DEF Processes
<1>15. ASSUME Consume PROVE Effect
  <2>1. position + 1 \in 1..Len(topic)
    BY <1>15 DEF Consume
  <2>2. topic[position + 1] \in Conversations
    BY <2>1
  <2>3. /\ Goto(Analyzer, "load") /\ UNCHANGED <<result, answer>> /\ position' > 0
        /\ item' = [item EXCEPT ![Analyzer] = topic[position + 1]]
    BY <1>15, <2>1 DEF Consume, reqVars
  <2>4. AnalyzerWorks
    BY <2>2, <2>3 DEF AnalyzerWorks, AnalyzerLabels
  <2> QED
    BY <2>4
<1>16. ASSUME GetTrafficLogByConversationID PROVE Effect
  <2>1. AnalyzerWorks
    BY <1>16 DEF GetTrafficLogByConversationID, topicVars, reqVars, AnalyzerWorks,
       AnalyzerLabels, Analysis, Writes
  <2> QED
    BY <2>1
<1>17. ASSUME publishDeadLetter PROVE Effect
  <2>1. AnalyzerWorks
    BY <1>17 DEF publishDeadLetter, Idle, topicVars, reqVars, AnalyzerWorks,
       AnalyzerLabels, Analysis, Writes
  <2> QED
    BY <2>1
<1>18. ASSUME Commit PROVE Effect
  <2>1. AnalyzerWorks
    BY <1>18 DEF Commit, Idle, topicVars, reqVars, AnalyzerWorks, AnalyzerLabels,
       Analysis, Writes
  <2> QED
    BY <2>1
<1>19. ASSUME AnalyzerCrash PROVE Effect
  <2>1. AnalyzerWorks
    BY <1>19 DEF AnalyzerCrash, Idle, topicVars, reqVars, AnalyzerWorks,
       AnalyzerLabels, Analysis, Writes
  <2> QED
    BY <2>1
<1>20. ASSUME NEW c \in Conversations, Expires(c)
     PROVE  Keeps
  BY <1>20 DEF reqVars, storeVars, topicVars, dlqVars, workVars, Expires
<1>21. ASSUME
       \/ ConsumeDeadLetter \/ SaveIngestDeadLetter \/ CommitDeadLetter
       \/ DeadLetterCrash
     PROVE  Keeps
  BY <1>21 DEF reqVars, storeVars, topicVars, dlqVars, workVars, ConsumeDeadLetter,
     SaveIngestDeadLetter, Restart, CommitDeadLetter, DeadLetterCrash
<1>22. ASSUME UNCHANGED vars PROVE Keeps
  BY <1>22 DEF vars, reqVars, storeVars, topicVars, dlqVars
<1>23. ASSUME Keeps PROVE Effect
  BY <1>23
<1> HIDE DEF Effect, Keeps
<1>q. Effect
  BY <1>1, <1>2, <1>3, <1>4, <1>5, <1>6, <1>7, <1>8, <1>9, <1>10, <1>11, <1>12,
     <1>13, <1>14, <1>15, <1>16, <1>17, <1>18, <1>19, <1>20, <1>21, <1>22, <1>23 DEF
     Next, Request, ProcessLog, RuntimeAnalyzer, DeadLetterConsumer, Processes
<1> QED
  BY <1>q DEF Effect

\* The broker is configured once.
LEMMA QueueFixed ==
  ASSUME [Next]_vars
  PROVE  queue' = queue
<1> DEFINE Effect ==
      queue' = queue
           Keeps == queue' = queue
<1>1. ASSUME NEW r \in Requests,
       \/ Receive(r) \/ Validate(r) \/ SaveLog(r) \/ FindExcessLogs(r)
       \/ DeleteExcessLogs(r) \/ SaveConversation(r)
     PROVE  Keeps
  BY <1>1 DEF reqVars, storeVars, topicVars, dlqVars, workVars, Receive, Goto,
     Validate, Answer, SaveLog, FindExcessLogs, DeleteExcessLogs, SaveConversation
<1>2. ASSUME NEW r \in Requests,
       \/ PublishConversation(r) \/ Respond(r) \/ IngestorCrash(r)
     PROVE  Keeps
  BY <1>2 DEF reqVars, storeVars, topicVars, dlqVars, workVars, PublishConversation,
     Goto, Answer, AppendEvent, Respond, IngestorCrash
<1>3. ASSUME NEW p \in Processes,
       \/ UpdateInventory(p) \/ SaveObservation(p) \/ InsertMetricEvent(p)
       \/ CountMetric(p) \/ DeleteMetricEvent(p)
     PROVE  Keeps
  BY <1>3 DEF reqVars, storeVars, topicVars, dlqVars, workVars, UpdateInventory,
     Goto, Return, Answer, SaveObservation, InsertMetricEvent, NextBucket,
     CountMetric, DeleteMetricEvent
<1>4. ASSUME NEW c \in Conversations, Expires(c)
     PROVE  Keeps
  BY <1>4 DEF reqVars, storeVars, topicVars, dlqVars, workVars, Expires
<1>5. ASSUME
       \/ Consume \/ GetTrafficLogByConversationID \/ publishDeadLetter \/ Commit
       \/ AnalyzerCrash \/ ConsumeDeadLetter
     PROVE  Keeps
  BY <1>5 DEF reqVars, storeVars, topicVars, dlqVars, workVars, Consume, Goto,
     GetTrafficLogByConversationID, publishDeadLetter, Idle, Commit, AnalyzerCrash,
     ConsumeDeadLetter
<1>6. ASSUME
       \/ SaveIngestDeadLetter \/ CommitDeadLetter \/ DeadLetterCrash
     PROVE  Keeps
  BY <1>6 DEF reqVars, storeVars, topicVars, dlqVars, workVars,
     SaveIngestDeadLetter, Restart, CommitDeadLetter, DeadLetterCrash
<1>7. ASSUME UNCHANGED vars PROVE Keeps
  BY <1>7 DEF vars, reqVars, storeVars, topicVars, dlqVars
<1>8. ASSUME Keeps PROVE Effect
  BY <1>8
<1> HIDE DEF Effect, Keeps
<1>q. Effect
  BY <1>1, <1>2, <1>3, <1>4, <1>5, <1>6, <1>7, <1>8 DEF Next, Request, ProcessLog,
     RuntimeAnalyzer, DeadLetterConsumer, Processes
<1> QED
  BY <1>q DEF Effect

\* Steps keep requests and the analyzer where WorkInv says.
LEMMA WorkInvStep ==
  ASSUME TypeOK, WorkInv, [Next]_vars
  PROVE  WorkInv'
<1>1. queue' = queue
  BY QueueFixed
<1>2. CASE UNCHANGED <<pc, item, result, answer, position>>
  BY <1>1, <1>2 DEF WorkInv
<1>3. CASE AnalyzerWorks
  <2>1. /\ \A r \in Requests : pc'[r] = pc[r] /\ item'[r] = item[r]
        /\ UNCHANGED <<result, answer>>
    BY <1>3, PipelineAssumption DEF AnalyzerWorks, Goto, TypeOK, Processes
  <2>2. /\ pc'[Analyzer] \in AnalyzerLabels
        /\ pc'[Analyzer] # "idle" => item'[Analyzer] \in Conversations /\ position' > 0
    BY <1>3 DEF AnalyzerWorks, Goto, TypeOK, Processes
  <2> QED
    BY <1>1, <2>1, <2>2 DEF WorkInv
<1>4. ASSUME NEW r \in Requests, Works(r) PROVE WorkInv'
  <2>1. /\ \A q \in Processes \ {r} : pc'[q] = pc[q] /\ item'[q] = item[q]
        /\ \A q \in Requests \ {r} : result'[q] = result[q] /\ answer'[q] = answer[q]
        /\ UNCHANGED position
    BY <1>4 DEF Works, Goto, TypeOK, Processes
  <2>2. /\ pc'[r] \in RequestLabels \ {"new"} /\ (queue => pc'[r] \notin Analysis)
        /\ item'[r] \in Conversations
    BY <1>4 DEF Works, Goto, TypeOK, Processes, WorkInv
  <2>3. pc'[r] = "respond" => result'[r] \in Answers
    BY <1>4 DEF Works, Goto, TypeOK, Processes
  <2>4. answer'[r] # "none" => pc'[r] = "done"
    BY <1>4 DEF Works, Goto, TypeOK, Processes, WorkInv
  <2>5. Analyzer \in Processes \ {r}
    BY PipelineAssumption DEF Processes
  <2> QED
    BY <1>1, <2>1, <2>2, <2>3, <2>4, <2>5 DEF WorkInv, Processes
<1> QED
  BY <1>2, <1>3, <1>4, WorkMove

-----------------------------------------------------------------------------
(* The analyzer's offsets and the dead-letter consumer's *)

\* An analysis of the analyzer's goes on, or gives its record a fate.
LEMMA EndOfAnalysis ==
  ASSUME TypeOK, FateInv, Analyzes
  PROVE  FateInv'
<1>1. pc[Analyzer] \notin {"idle", "commit"}
  BY DEF Analyzes, Analysis, Writes
<1>2. CASE pc'[Analyzer] \in Analysis /\ UNCHANGED fate
  BY <1>1, <1>2 DEF FateInv, Analyzes, Analysis, Writes
<1>3. ASSUME NEW e \in Fates \ {"none"}, fate' = [fate EXCEPT ![position] = e],
             pc'[Analyzer] = "commit"
      PROVE  FateInv'
  <2>1. \A i \in 1..position : fate'[i] = IF i = position THEN e ELSE fate[i]
    BY <1>3, FateSet DEF TypeOK
  <2> QED
    BY <1>1, <1>3, <2>1 DEF FateInv, Analyzes, TypeOK
<1> QED
  BY <1>2, <1>3 DEF Analyzes

\* A step that leaves the analyzer and the fates up to its offset alone.
LEMMA FateKept ==
  ASSUME TypeOK, FateInv,
         pc'[Analyzer] = pc[Analyzer], UNCHANGED <<committed, position>>,
         \A i \in 1..position : fate'[i] = fate[i]
  PROVE  FateInv'
  BY DEF FateInv, TypeOK

\* Steps keep the fates that FateInv promises.
LEMMA FateInvStep ==
  ASSUME TypeOK, WorkInv, FateInv, [Next]_vars
  PROVE  FateInv'
<1> USE PipelineAssumption DEF Processes, TypeOK
<1> DEFINE Effect ==
      FateInv'
           Keeps == /\ pc'[Analyzer] = pc[Analyzer] /\ UNCHANGED <<committed, position>>
                    /\ \A i \in 1..position : fate'[i] = fate[i]
<1>1. ASSUME NEW r \in Requests, PublishConversation(r) PROVE Effect
  <2>1. AppendEvent(item[r]) \/ UNCHANGED fate
    BY <1>1 DEF PublishConversation
  <2>2. /\ fate \in Seq(Fates) /\ position \in 0..Len(fate) /\ Len(fate) \in Nat
        /\ fate' \in {fate, Append(fate, "none")}
    BY <2>1 DEF AppendEvent, TypeOK
  <2>3. \A i \in 1..Len(fate) : Append(fate, "none")[i] = fate[i]
    BY <2>2, AppendProperties, "none" \in Fates DEF Fates
  <2>4. ASSUME NEW i \in 1..position PROVE fate'[i] = fate[i]
    <3>1. i \in 1..Len(fate)
      BY <2>2
    <3> QED
      BY <2>2, <2>3, <3>1
  <2>5. pc'[Analyzer] = pc[Analyzer] /\ UNCHANGED <<committed, position>>
    BY <1>1 DEF PublishConversation, Answer, Goto, TypeOK, Processes
  <2> QED
    BY <2>4, <2>5, FateKept
<1>2. ASSUME NEW p \in Processes, UpdateInventory(p) PROVE Effect
  <2>1. CASE p = Analyzer
    <3>1. Analyzes
      BY <1>2, <2>1 DEF UpdateInventory, Goto, Return, Answer, topicVars, Analyzes,
         Analysis, Writes, Fates, TypeOK
    <3> QED
      BY <3>1, EndOfAnalysis
  <2>2. CASE p # Analyzer /\ p \in Requests
    <3>1. Keeps
      BY <1>2, <2>2 DEF UpdateInventory, Goto, Return, Answer, topicVars, TypeOK
    <3> QED
      BY <3>1, FateKept
  <2> QED
    BY <2>1, <2>2 DEF Processes
<1>3. ASSUME NEW p \in Processes, SaveObservation(p) PROVE Effect
  <2>1. CASE p = Analyzer
    <3>1. Analyzes
      BY <1>3, <2>1 DEF SaveObservation, Goto, After, topicVars, Analyzes, Analysis,
         Writes, Fates, TypeOK
    <3> QED
      BY <3>1, EndOfAnalysis
  <2>2. CASE p # Analyzer /\ p \in Requests
    <3>1. Keeps
      BY <1>3, <2>2 DEF SaveObservation, Goto, After, topicVars, TypeOK
    <3> QED
      BY <3>1, FateKept
  <2> QED
    BY <2>1, <2>2 DEF Processes
<1>4. ASSUME NEW p \in Processes, InsertMetricEvent(p) PROVE Effect
  <2>1. CASE p = Analyzer
    <3>1. Analyzes
      BY <1>4, <2>1 DEF InsertMetricEvent, Goto, Return, Answer, NextBucket,
         topicVars, Analyzes, Analysis, Writes, Fates, TypeOK
    <3> QED
      BY <3>1, EndOfAnalysis
  <2>2. CASE p # Analyzer /\ p \in Requests
    <3>1. Keeps
      BY <1>4, <2>2 DEF InsertMetricEvent, Goto, Return, Answer, NextBucket,
         topicVars, TypeOK
    <3> QED
      BY <3>1, FateKept
  <2> QED
    BY <2>1, <2>2 DEF Processes
<1>5. ASSUME NEW p \in Processes, CountMetric(p) PROVE Effect
  <2>1. CASE p = Analyzer
    <3>1. Analyzes
      BY <1>5, <2>1 DEF CountMetric, Goto, Return, Answer, NextBucket, topicVars,
         Analyzes, Analysis, Writes, Fates, TypeOK
    <3> QED
      BY <3>1, EndOfAnalysis
  <2>2. CASE p # Analyzer /\ p \in Requests
    <3>1. Keeps
      BY <1>5, <2>2 DEF CountMetric, Goto, Return, Answer, NextBucket, topicVars,
         TypeOK
    <3> QED
      BY <3>1, FateKept
  <2> QED
    BY <2>1, <2>2 DEF Processes
<1>6. ASSUME NEW p \in Processes, DeleteMetricEvent(p) PROVE Effect
  <2>1. CASE p = Analyzer
    <3>1. Analyzes
      BY <1>6, <2>1 DEF DeleteMetricEvent, Goto, Return, Answer, topicVars, Analyzes,
         Analysis, Writes, Fates, TypeOK
    <3> QED
      BY <3>1, EndOfAnalysis
  <2>2. CASE p # Analyzer /\ p \in Requests
    <3>1. Keeps
      BY <1>6, <2>2 DEF DeleteMetricEvent, Goto, Return, Answer, topicVars, TypeOK
    <3> QED
      BY <3>1, FateKept
  <2> QED
    BY <2>1, <2>2 DEF Processes
<1>7. ASSUME Consume PROVE Effect
  <2>1. /\ pc[Analyzer] = "idle" /\ pc'[Analyzer] = "load" /\ position' = position + 1
        /\ UNCHANGED <<committed, fate>>
    BY <1>7 DEF Consume, Goto, TypeOK, Processes
  <2> QED
    BY <2>1 DEF FateInv, TypeOK
<1>8. ASSUME GetTrafficLogByConversationID PROVE Effect
  <2>1. /\ pc[Analyzer] = "load" /\ pc'[Analyzer] \notin {"idle", "commit"}
        /\ UNCHANGED <<committed, position, fate>>
    BY <1>8 DEF GetTrafficLogByConversationID, topicVars, Goto, TypeOK, Processes
  <2> QED
    BY <2>1 DEF FateInv, TypeOK
<1>9. ASSUME publishDeadLetter PROVE Effect
  <2>1. /\ pc[Analyzer] = "deadLetter" /\ UNCHANGED <<committed, position>>
        /\ \E e \in Fates \ {"none"} : fate' = [fate EXCEPT ![position] = e]
    BY <1>9 DEF publishDeadLetter, Fates
  <2>2. pc'[Analyzer] \in {"idle", "commit"}
    BY <1>9 DEF publishDeadLetter, Idle, Goto, TypeOK, Processes
  <2>3. PICK e \in Fates \ {"none"} : fate' = [fate EXCEPT ![position] = e]
    BY <2>1
  <2>4. \A i \in 1..Len(fate) : fate'[i] = IF i = position THEN e ELSE fate[i]
    BY <2>3, FateSet
  <2>5. /\ position \in 0..Len(fate) /\ Len(fate) \in Nat
        /\ \A i \in 1..position : i < position => fate[i] # "none"
    BY DEF TypeOK, FateInv
  <2>6. ASSUME NEW i \in 1..position PROVE fate'[i] # "none"
    <3>1. i \in 1..Len(fate) /\ (i = position \/ i < position)
      BY <2>5
    <3>2. CASE i = position
      BY <2>4, <3>1, <3>2
    <3>3. CASE i < position
      BY <2>4, <2>5, <3>1, <3>3
    <3> QED
      BY <3>1, <3>2, <3>3
  <2> QED
    BY <2>1, <2>2, <2>6 DEF FateInv
<1>10. ASSUME Commit PROVE Effect
  <2>1. /\ pc[Analyzer] = "commit" /\ pc'[Analyzer] = "idle" /\ UNCHANGED <<position, fate>>
        /\ committed' \in {committed, position}
    BY <1>10 DEF Commit, Idle, Goto, TypeOK, Processes
  <2> QED
    BY <2>1 DEF FateInv, TypeOK
<1>11. ASSUME AnalyzerCrash PROVE Effect
  <2>1. /\ pc'[Analyzer] = "idle" /\ UNCHANGED <<committed, fate>> /\ position' = committed
    BY <1>11 DEF AnalyzerCrash, Idle, Goto, TypeOK, Processes
  <2> QED
    BY <2>1 DEF FateInv, TypeOK
<1>12. ASSUME NEW r \in Requests,
       \/ Receive(r) \/ Validate(r) \/ SaveLog(r) \/ FindExcessLogs(r)
       \/ DeleteExcessLogs(r) \/ SaveConversation(r)
     PROVE  Keeps
  BY <1>12 DEF reqVars, storeVars, topicVars, dlqVars, workVars, Receive, Goto,
     Validate, Answer, SaveLog, FindExcessLogs, DeleteExcessLogs, SaveConversation
<1>13. ASSUME NEW r \in Requests,
       \/ Respond(r) \/ IngestorCrash(r)
     PROVE  Keeps
  BY <1>13 DEF reqVars, storeVars, topicVars, dlqVars, workVars, Respond, Goto,
     IngestorCrash
<1>14. ASSUME NEW c \in Conversations, Expires(c)
     PROVE  Keeps
  BY <1>14 DEF reqVars, storeVars, topicVars, dlqVars, workVars, Expires
<1>15. ASSUME
       \/ ConsumeDeadLetter \/ SaveIngestDeadLetter \/ CommitDeadLetter
       \/ DeadLetterCrash
     PROVE  Keeps
  BY <1>15 DEF reqVars, storeVars, topicVars, dlqVars, workVars, ConsumeDeadLetter,
     SaveIngestDeadLetter, Restart, CommitDeadLetter, DeadLetterCrash
<1>16. ASSUME UNCHANGED vars PROVE Keeps
  BY <1>16 DEF vars, reqVars, storeVars, topicVars, dlqVars
<1>17. ASSUME Keeps PROVE Effect
  BY <1>17, FateKept
<1> HIDE DEF Effect, Keeps
<1>q. Effect
  BY <1>1, <1>2, <1>3, <1>4, <1>5, <1>6, <1>7, <1>8, <1>9, <1>10, <1>11, <1>12,
     <1>13, <1>14, <1>15, <1>16, <1>17 DEF Next, Request, ProcessLog,
     RuntimeAnalyzer, DeadLetterConsumer, Processes
<1> QED
  BY <1>q DEF Effect

\* Steps keep the dead-letter consumer where DeadLetterInv says.
LEMMA DeadLetterInvStep ==
  ASSUME TypeOK, WorkInv, DeadLetterInv, [Next]_vars
  PROVE  DeadLetterInv'
<1> DEFINE Effect ==
      DeadLetterInv'
           Keeps == UNCHANGED dlqVars /\ deadLetters \subseteq deadLetters'
<1>1. ASSUME publishDeadLetter PROVE Effect
  <2>1. item[Analyzer] \in Conversations
    BY <1>1 DEF publishDeadLetter, WorkInv
  <2>2. /\ dlq' \in {dlq, Append(dlq, item[Analyzer])}
        /\ UNCHANGED <<deadLetters, dlqCommitted, dlqPosition, dlqPc>>
    BY <1>1 DEF publishDeadLetter
  <2>3. /\ dlq \in Seq(Conversations) /\ Len(dlq) \in Nat
        /\ dlqCommitted \in 0..dlqPosition /\ dlqPosition \in 0..Len(dlq)
    BY DEF TypeOK
  <2>4. \A i \in 1..Len(dlq) : dlq'[i] = dlq[i]
    BY <2>1, <2>2, <2>3, AppendProperties
  <2>5. \A i \in 1..dlqPosition : i \in 1..Len(dlq)
    BY <2>3
  <2>6. dlqPc = "commit" => dlqPosition \in 1..dlqPosition
    BY <2>3 DEF DeadLetterInv
  <2>7. \A i \in 1..dlqCommitted : i \in 1..dlqPosition
    BY <2>3
  <2> QED
    BY <2>2, <2>4, <2>5, <2>6, <2>7 DEF DeadLetterInv
<1>2. ASSUME ConsumeDeadLetter PROVE Effect
  BY <1>2 DEF ConsumeDeadLetter, DeadLetterInv, TypeOK
<1>3. ASSUME SaveIngestDeadLetter PROVE Effect
  <2>1. /\ dlqPc = "save" /\ UNCHANGED dlq /\ deadLetters \subseteq deadLetters'
        /\ \/ /\ dlqPc' = "commit" /\ UNCHANGED <<dlqPosition, dlqCommitted>>
              /\ <<"analyzer", dlq[dlqPosition]>> \in deadLetters'
           \/ Restart(dlqCommitted)
    BY <1>3 DEF SaveIngestDeadLetter
  <2> QED
    BY <2>1 DEF Restart, DeadLetterInv, TypeOK
<1>4. ASSUME CommitDeadLetter PROVE Effect
  <2>1. /\ dlqPc = "commit" /\ UNCHANGED <<dlq, deadLetters>> /\ dlqPc' = "idle"
        /\ dlqCommitted' \in {dlqCommitted, dlqPosition} /\ dlqPosition' = dlqCommitted'
    BY <1>4 DEF CommitDeadLetter, Restart, DeadLetterInv
  <2>2. dlqCommitted \in Nat /\ dlqPosition = dlqCommitted + 1
    BY <2>1 DEF DeadLetterInv, TypeOK
  <2>3. \A i \in 1..dlqPosition : i \in 1..dlqCommitted \/ i = dlqPosition
    BY <2>2
  <2>4. \A i \in 1..dlqPosition : <<"analyzer", dlq[i]>> \in deadLetters
    BY <2>1, <2>3 DEF DeadLetterInv
  <2>5. \A i \in 1..dlqCommitted : i \in 1..dlqPosition
    BY <2>2
  <2> QED
    BY <2>1, <2>4, <2>5 DEF DeadLetterInv
<1>5. ASSUME DeadLetterCrash PROVE Effect
  BY <1>5 DEF DeadLetterCrash, Restart, DeadLetterInv, TypeOK
<1>6. ASSUME NEW r \in Requests,
       \/ Receive(r) \/ Validate(r) \/ SaveLog(r) \/ FindExcessLogs(r)
       \/ DeleteExcessLogs(r) \/ SaveConversation(r)
     PROVE  Keeps
  BY <1>6 DEF reqVars, storeVars, topicVars, dlqVars, workVars, Receive, Goto,
     Validate, Answer, SaveLog, FindExcessLogs, DeleteExcessLogs, SaveConversation
<1>7. ASSUME NEW r \in Requests,
       \/ PublishConversation(r) \/ Respond(r) \/ IngestorCrash(r)
     PROVE  Keeps
  BY <1>7 DEF reqVars, storeVars, topicVars, dlqVars, workVars, PublishConversation,
     Goto, Answer, AppendEvent, Respond, IngestorCrash
<1>8. ASSUME NEW p \in Processes,
       \/ UpdateInventory(p) \/ SaveObservation(p) \/ InsertMetricEvent(p)
       \/ CountMetric(p) \/ DeleteMetricEvent(p)
     PROVE  Keeps
  BY <1>8 DEF reqVars, storeVars, topicVars, dlqVars, workVars, UpdateInventory,
     Goto, Return, Answer, SaveObservation, InsertMetricEvent, NextBucket,
     CountMetric, DeleteMetricEvent
<1>9. ASSUME NEW c \in Conversations, Expires(c)
     PROVE  Keeps
  BY <1>9 DEF reqVars, storeVars, topicVars, dlqVars, workVars, Expires
<1>10. ASSUME
       \/ Consume \/ GetTrafficLogByConversationID \/ Commit \/ AnalyzerCrash
     PROVE  Keeps
  BY <1>10 DEF reqVars, storeVars, topicVars, dlqVars, workVars, Consume, Goto,
     GetTrafficLogByConversationID, Commit, Idle, AnalyzerCrash
<1>11. ASSUME UNCHANGED vars PROVE Keeps
  BY <1>11 DEF vars, reqVars, storeVars, topicVars, dlqVars
<1>12. ASSUME Keeps PROVE Effect
  BY <1>12 DEF dlqVars, DeadLetterInv
<1> HIDE DEF Effect, Keeps
<1>q. Effect
  BY <1>1, <1>2, <1>3, <1>4, <1>5, <1>6, <1>7, <1>8, <1>9, <1>10, <1>11, <1>12 DEF
     Next, Request, ProcessLog, RuntimeAnalyzer, DeadLetterConsumer, Processes
<1> QED
  BY <1>q DEF Effect

-----------------------------------------------------------------------------
(* The metrics and the inventory *)

\* A step without effect on the ledger that lets no process begin to count.
LEMMA LedgerKept ==
  ASSUME LedgerInv, UNCHANGED <<ledger, metrics, unsure>>,
         \A p \in Processes : pc'[p] \in {"count", "undo"} =>
           pc'[p] = pc[p] /\ item'[p] = item[p] /\ bucket'[p] = bucket[p]
  PROVE  LedgerInv'
  BY DEF LedgerInv, Key

\* Steps keep the ledger as LedgerInv says.
LEMMA LedgerInvStep ==
  ASSUME TypeOK, WorkInv, LedgerInv, [Next]_vars
  PROVE  LedgerInv'
<1> USE DEF Processes
<1> DEFINE Effect ==
      LedgerInv'
           Keeps == /\ UNCHANGED <<ledger, metrics, unsure>>
                    /\ \A p \in Processes : pc'[p] \in {"count", "undo"} =>
                         /\ pc'[p] = pc[p] /\ item'[p] = item[p] /\ bucket'[p] = bucket[p]
<1>1. ASSUME NEW r \in Requests, Receive(r) PROVE Effect
  <2>1. Keeps
    BY <1>1 DEF Receive, Goto, storeVars, TypeOK
  <2> QED
    BY <2>1, LedgerKept
<1>2. ASSUME NEW r \in Requests, Validate(r) PROVE Effect
  <2>1. Keeps
    BY <1>2 DEF Validate, Goto, Answer, storeVars, TypeOK
  <2> QED
    BY <2>1, LedgerKept
<1>3. ASSUME NEW r \in Requests, SaveLog(r) PROVE Effect
  <2>1. Keeps
    BY <1>3 DEF SaveLog, Goto, Answer, storeVars, TypeOK
  <2> QED
    BY <2>1, LedgerKept
<1>4. ASSUME NEW r \in Requests, FindExcessLogs(r) PROVE Effect
  <2>1. Keeps
    BY <1>4 DEF FindExcessLogs, Goto, storeVars, TypeOK
  <2> QED
    BY <2>1, LedgerKept
<1>5. ASSUME NEW r \in Requests, DeleteExcessLogs(r) PROVE Effect
  <2>1. Keeps
    BY <1>5 DEF DeleteExcessLogs, Goto, storeVars, TypeOK
  <2> QED
    BY <2>1, LedgerKept
<1>6. ASSUME NEW r \in Requests, SaveConversation(r) PROVE Effect
  <2>1. Keeps
    BY <1>6 DEF SaveConversation, Goto, Answer, storeVars, TypeOK
  <2> QED
    BY <2>1, LedgerKept
<1>7. ASSUME NEW r \in Requests, PublishConversation(r) PROVE Effect
  <2>1. Keeps
    BY <1>7 DEF PublishConversation, Goto, Answer, storeVars, TypeOK
  <2> QED
    BY <2>1, LedgerKept
<1>8. ASSUME NEW r \in Requests, Respond(r) PROVE Effect
  <2>1. Keeps
    BY <1>8 DEF Respond, Goto, storeVars, TypeOK
  <2> QED
    BY <2>1, LedgerKept
<1>9. ASSUME NEW r \in Requests, IngestorCrash(r) PROVE Effect
  <2>1. Keeps
    BY <1>9 DEF IngestorCrash, Goto, storeVars, TypeOK
  <2> QED
    BY <2>1, LedgerKept
<1>10. ASSUME NEW p \in Processes, UpdateInventory(p) PROVE Effect
  <2>1. Keeps
    BY <1>10 DEF UpdateInventory, Goto, Return, Answer, storeVars, TypeOK
  <2> QED
    BY <2>1, LedgerKept
<1>11. ASSUME NEW p \in Processes, SaveObservation(p) PROVE Effect
  <2>1. Keeps
    BY <1>11 DEF SaveObservation, Goto, After, storeVars, TypeOK
  <2> QED
    BY <2>1, LedgerKept
<1>12. ASSUME NEW p \in Processes, InsertMetricEvent(p) PROVE Effect
  <2>1. /\ \A q \in Processes \ {p} :
             pc'[q] = pc[q] /\ item'[q] = item[q] /\ bucket'[q] = bucket[q]
        /\ UNCHANGED item
    BY <1>12 DEF InsertMetricEvent, Goto, Return, Answer, NextBucket, TypeOK
  <2>2. pc[p] = "ledger" /\ UNCHANGED <<metrics, unsure>>
    BY <1>12 DEF InsertMetricEvent
  <2>3. \/ ledger \subseteq ledger' /\ pc'[p] \notin {"count", "undo"}
        \/ /\ Key(p) \notin ledger /\ ledger' = ledger \union {Key(p)}
           /\ pc'[p] = "count" /\ UNCHANGED bucket
    BY <1>12 DEF InsertMetricEvent, Return, Answer, NextBucket, Goto, TypeOK
  <2>4. Key(p) \in Keys
    BY <2>2, WorkingKey
  <2> HIDE DEF Processes
  <2>5. CASE ledger \subseteq ledger' /\ pc'[p] \notin {"count", "undo"}
    BY <2>1, <2>2, <2>5 DEF LedgerInv, Key
  <2>6. CASE /\ Key(p) \notin ledger /\ ledger' = ledger \union {Key(p)}
             /\ pc'[p] = "count" /\ UNCHANGED bucket
    <3>1. metrics[Key(p)] = 0 \/ Key(p) \in unsure
      BY <2>4, <2>6 DEF LedgerInv, TypeOK
    <3>2. \A q \in Processes \ {p} : pc[q] \in {"count", "undo"} => Key(q) # Key(p)
      BY <2>6 DEF LedgerInv
    <3>3. \A q \in Processes : Key(q)' = Key(q)
      BY <2>1, <2>6 DEF Key
    <3> QED
      BY <2>1, <2>2, <2>6, <3>1, <3>2, <3>3 DEF LedgerInv
  <2> QED
    BY <2>3, <2>5, <2>6
<1>13. ASSUME NEW p \in Processes, CountMetric(p) PROVE Effect
  <2>1. /\ \A q \in Processes \ {p} :
             pc'[q] = pc[q] /\ item'[q] = item[q] /\ bucket'[q] = bucket[q]
        /\ UNCHANGED item
    BY <1>13 DEF CountMetric, Goto, Return, Answer, NextBucket, TypeOK
  <2>2. pc[p] = "count" /\ UNCHANGED ledger
    BY <1>13 DEF CountMetric
  <2>3. \/ /\ metrics' = [metrics EXCEPT ![Key(p)] = @ + 1]
           /\ unsure' = unsure /\ pc'[p] \notin {"count", "undo"}
        \/ /\ metrics' \in {metrics, [metrics EXCEPT ![Key(p)] = @ + 1]}
           /\ (metrics' = metrics /\ unsure' = unsure) \/ unsure' = unsure \union {Key(p)}
           /\ pc'[p] = "undo" /\ UNCHANGED bucket
    BY <1>13 DEF CountMetric, Return, Answer, NextBucket, Goto, TypeOK
  <2>4. Key(p) \in Keys /\ Key(p) \in ledger /\ (metrics[Key(p)] = 0 \/ Key(p) \in unsure)
    BY <2>2, WorkingKey DEF LedgerInv
  <2>5. \A k \in Keys \ {Key(p)} : metrics'[k] = metrics[k]
    BY <2>3 DEF TypeOK
  <2>6. \A q \in Processes \ {p} : pc[q] \in {"count", "undo"} => Key(q) # Key(p) /\ Key(q) \in Keys
    BY <2>2, WorkingKey DEF LedgerInv
  <2>7. \A q \in Processes \ {p} : Key(q)' = Key(q)
    BY <2>1 DEF Key
  <2>8. metrics' = [metrics EXCEPT ![Key(p)] = @ + 1] => metrics'[Key(p)] = metrics[Key(p)] + 1
    BY <2>4 DEF TypeOK
  <2> HIDE DEF Processes
  <2>9. \A k \in Keys \ unsure' : metrics'[k] <= 1 /\ (metrics'[k] > 0 => k \in ledger')
    BY <2>2, <2>3, <2>4, <2>5, <2>8 DEF LedgerInv, TypeOK
  <2>10. CASE pc'[p] \notin {"count", "undo"} /\ unsure' = unsure
    BY <2>1, <2>2, <2>5, <2>6, <2>7, <2>9, <2>10 DEF LedgerInv
  <2>11. CASE /\ pc'[p] = "undo" /\ UNCHANGED bucket
              /\ (metrics' = metrics /\ unsure' = unsure) \/ unsure' = unsure \union {Key(p)}
    <3>1. Key(p)' = Key(p)
      BY <2>1, <2>11 DEF Key
    <3> QED
      BY <2>1, <2>2, <2>4, <2>5, <2>6, <2>7, <2>9, <2>11, <3>1 DEF LedgerInv
  <2> QED
    BY <2>3, <2>10, <2>11
<1>14. ASSUME NEW p \in Processes, DeleteMetricEvent(p) PROVE Effect
  <2>1. /\ \A q \in Processes \ {p} :
             pc'[q] = pc[q] /\ item'[q] = item[q] /\ bucket'[q] = bucket[q]
        /\ UNCHANGED item
    BY <1>14 DEF DeleteMetricEvent, Goto, Return, Answer, TypeOK
  <2>2. pc[p] = "undo" /\ pc'[p] \notin {"count", "undo"} /\ UNCHANGED <<metrics, unsure, bucket>>
    BY <1>14 DEF DeleteMetricEvent, Return, Answer, Goto, TypeOK
  <2>3. ledger' \in {ledger, ledger \ {Key(p)}}
    BY <1>14 DEF DeleteMetricEvent
  <2>4. Key(p) \in Keys /\ (metrics[Key(p)] = 0 \/ Key(p) \in unsure)
    BY <2>2, WorkingKey DEF LedgerInv
  <2>5. \A q \in Processes \ {p} : pc[q] \in {"count", "undo"} => Key(q) # Key(p)
    BY <2>2 DEF LedgerInv
  <2>6. \A q \in Processes : Key(q)' = Key(q)
    BY <2>1, <2>2 DEF Key
  <2> HIDE DEF Processes
  <2> QED
    BY <2>1, <2>2, <2>3, <2>4, <2>5, <2>6 DEF LedgerInv, TypeOK
<1>15. ASSUME Consume PROVE Effect
  <2>1. Keeps
    BY <1>15 DEF Consume, Goto, storeVars, TypeOK
  <2> QED
    BY <2>1, LedgerKept
<1>16. ASSUME GetTrafficLogByConversationID PROVE Effect
  <2>1. Keeps
    BY <1>16 DEF GetTrafficLogByConversationID, Goto, storeVars, TypeOK
  <2> QED
    BY <2>1, LedgerKept
<1>17. ASSUME publishDeadLetter PROVE Effect
  <2>1. Keeps
    BY <1>17 DEF publishDeadLetter, Goto, Idle, storeVars, TypeOK
  <2> QED
    BY <2>1, LedgerKept
<1>18. ASSUME Commit PROVE Effect
  <2>1. Keeps
    BY <1>18 DEF Commit, Goto, Idle, storeVars, TypeOK
  <2> QED
    BY <2>1, LedgerKept
<1>19. ASSUME AnalyzerCrash PROVE Effect
  <2>1. Keeps
    BY <1>19 DEF AnalyzerCrash, Goto, Idle, storeVars, TypeOK
  <2> QED
    BY <2>1, LedgerKept
<1>20. ASSUME NEW c \in Conversations, Expires(c)
     PROVE  Keeps
  BY <1>20 DEF reqVars, storeVars, topicVars, dlqVars, workVars, Expires
<1>21. ASSUME
       \/ ConsumeDeadLetter \/ SaveIngestDeadLetter \/ CommitDeadLetter
       \/ DeadLetterCrash
     PROVE  Keeps
  BY <1>21 DEF reqVars, storeVars, topicVars, dlqVars, workVars, ConsumeDeadLetter,
     SaveIngestDeadLetter, Restart, CommitDeadLetter, DeadLetterCrash
<1>22. ASSUME UNCHANGED vars PROVE Keeps
  BY <1>22 DEF vars, reqVars, storeVars, topicVars, dlqVars
<1>23. ASSUME Keeps PROVE Effect
  BY <1>23, LedgerKept
<1> HIDE DEF Effect, Keeps
<1>q. Effect
  BY <1>1, <1>2, <1>3, <1>4, <1>5, <1>6, <1>7, <1>8, <1>9, <1>10, <1>11, <1>12,
     <1>13, <1>14, <1>15, <1>16, <1>17, <1>18, <1>19, <1>20, <1>21, <1>22, <1>23 DEF
     Next, Request, ProcessLog, RuntimeAnalyzer, DeadLetterConsumer, Processes
<1> QED
  BY <1>q DEF Effect

\* A step that stores no less and counts no more, and lets no process get past
\* the inventory.
LEMMA InventoryKept ==
  ASSUME InventoryInv, stored \subseteq stored', UNCHANGED metrics,
         \A p \in Processes : pc'[p] \in Analysis \ {"inventory"} =>
           pc[p] \in Analysis \ {"inventory"} /\ item'[p] = item[p]
  PROVE  InventoryInv'
  BY DEF InventoryInv, CountedIsInventoried

\* Steps keep the inventory ahead of the rest of the analysis.
LEMMA InventoryInvStep ==
  ASSUME TypeOK, InventoryInv, [Next]_vars
  PROVE  InventoryInv'
<1> USE DEF Processes
<1> DEFINE Effect ==
      InventoryInv'
           Keeps == /\ stored \subseteq stored' /\ UNCHANGED metrics
                    /\ \A p \in Processes : pc'[p] \in Analysis \ {"inventory"} =>
                         pc[p] \in Analysis \ {"inventory"} /\ item'[p] = item[p]
<1>1. ASSUME NEW r \in Requests, Receive(r) PROVE Effect
  <2>1. Keeps
    BY <1>1 DEF Receive, Goto, storeVars, TypeOK, Analysis, Writes
  <2> QED
    BY <2>1, InventoryKept
<1>2. ASSUME NEW r \in Requests, Validate(r) PROVE Effect
  <2>1. Keeps
    BY <1>2 DEF Validate, Goto, Answer, storeVars, TypeOK, Analysis, Writes
  <2> QED
    BY <2>1, InventoryKept
<1>3. ASSUME NEW r \in Requests, SaveLog(r) PROVE Effect
  <2>1. Keeps
    BY <1>3 DEF SaveLog, Goto, Answer, storeVars, TypeOK, Analysis, Writes
  <2> QED
    BY <2>1, InventoryKept
<1>4. ASSUME NEW r \in Requests, FindExcessLogs(r) PROVE Effect
  <2>1. Keeps
    BY <1>4 DEF FindExcessLogs, Goto, storeVars, TypeOK, Analysis, Writes
  <2> QED
    BY <2>1, InventoryKept
<1>5. ASSUME NEW r \in Requests, DeleteExcessLogs(r) PROVE Effect
  <2>1. Keeps
    BY <1>5 DEF DeleteExcessLogs, Goto, storeVars, TypeOK, Analysis, Writes
  <2> QED
    BY <2>1, InventoryKept
<1>6. ASSUME NEW r \in Requests, SaveConversation(r) PROVE Effect
  <2>1. Keeps
    BY <1>6 DEF SaveConversation, Goto, Answer, storeVars, TypeOK, Analysis, Writes
  <2> QED
    BY <2>1, InventoryKept
<1>7. ASSUME NEW r \in Requests, PublishConversation(r) PROVE Effect
  <2>1. Keeps
    BY <1>7 DEF PublishConversation, Goto, Answer, storeVars, TypeOK, Analysis,
       Writes
  <2> QED
    BY <2>1, InventoryKept
<1>8. ASSUME NEW r \in Requests, Respond(r) PROVE Effect
  <2>1. Keeps
    BY <1>8 DEF Respond, Goto, storeVars, TypeOK, Analysis, Writes
  <2> QED
    BY <2>1, InventoryKept
<1>9. ASSUME NEW r \in Requests, IngestorCrash(r) PROVE Effect
  <2>1. Keeps
    BY <1>9 DEF IngestorCrash, Goto, storeVars, TypeOK, Analysis, Writes
  <2> QED
    BY <2>1, InventoryKept
<1>10. ASSUME NEW p \in Processes, UpdateInventory(p) PROVE Effect
  <2>1. /\ stored \subseteq stored' /\ UNCHANGED <<metrics, item>>
        /\ pc'[p] \in Analysis => <<"inventory", item[p]>> \in stored'
    BY <1>10 DEF UpdateInventory, Return, Answer, Goto, TypeOK, Analysis, Writes
  <2>2. \A q \in Processes \ {p} : pc'[q] = pc[q]
    BY <1>10 DEF UpdateInventory, Return, Answer, Goto, TypeOK
  <2> QED
    BY <2>1, <2>2 DEF InventoryInv, CountedIsInventoried
<1>11. ASSUME NEW p \in Processes, SaveObservation(p) PROVE Effect
  <2>1. Keeps
    BY <1>11 DEF SaveObservation, Goto, After, storeVars, TypeOK, Analysis, Writes
  <2> QED
    BY <2>1, InventoryKept
<1>12. ASSUME NEW p \in Processes, InsertMetricEvent(p) PROVE Effect
  <2>1. Keeps
    BY <1>12 DEF InsertMetricEvent, Goto, Return, Answer, NextBucket, storeVars,
       TypeOK, Analysis, Writes
  <2> QED
    BY <2>1, InventoryKept
<1>13. ASSUME NEW p \in Processes, CountMetric(p) PROVE Effect
  <2>1. /\ pc[p] = "count" /\ UNCHANGED <<stored, item>>
        /\ metrics' \in {metrics, [metrics EXCEPT ![Key(p)] = @ + 1]}
    BY <1>13 DEF CountMetric
  <2>2. \A q \in Processes : pc'[q] \in Analysis \ {"inventory"} => pc[q] \in Analysis \ {"inventory"}
    BY <1>13 DEF CountMetric, Return, Answer, NextBucket, Goto, TypeOK, Analysis, Writes
  <2>3. \A k \in Keys : metrics'[k] = metrics[k] \/ k = Key(p)
    BY <2>1 DEF TypeOK
  <2>4. <<"inventory", item[p]>> \in stored /\ Key(p)[1] = item[p]
    BY <2>1 DEF InventoryInv, Analysis, Key
  <2> QED
    BY <2>1, <2>2, <2>3, <2>4 DEF InventoryInv, CountedIsInventoried
<1>14. ASSUME NEW p \in Processes, DeleteMetricEvent(p) PROVE Effect
  <2>1. Keeps
    BY <1>14 DEF DeleteMetricEvent, Goto, Return, Answer, storeVars, TypeOK, Analysis,
       Writes
  <2> QED
    BY <2>1, InventoryKept
<1>15. ASSUME Consume PROVE Effect
  <2>1. Keeps
    BY <1>15 DEF Consume, Goto, storeVars, TypeOK, Analysis, Writes
  <2> QED
    BY <2>1, InventoryKept
<1>16. ASSUME GetTrafficLogByConversationID PROVE Effect
  <2>1. Keeps
    BY <1>16 DEF GetTrafficLogByConversationID, Goto, storeVars, TypeOK, Analysis,
       Writes
  <2> QED
    BY <2>1, InventoryKept
<1>17. ASSUME publishDeadLetter PROVE Effect
  <2>1. Keeps
    BY <1>17 DEF publishDeadLetter, Goto, Idle, storeVars, TypeOK, Analysis, Writes
  <2> QED
    BY <2>1, InventoryKept
<1>18. ASSUME Commit PROVE Effect
  <2>1. Keeps
    BY <1>18 DEF Commit, Goto, Idle, storeVars, TypeOK, Analysis, Writes
  <2> QED
    BY <2>1, InventoryKept
<1>19. ASSUME AnalyzerCrash PROVE Effect
  <2>1. Keeps
    BY <1>19 DEF AnalyzerCrash, Goto, Idle, storeVars, TypeOK, Analysis, Writes
  <2> QED
    BY <2>1, InventoryKept
<1>20. ASSUME NEW c \in Conversations, Expires(c)
     PROVE  Keeps
  BY <1>20 DEF reqVars, storeVars, topicVars, dlqVars, workVars, Expires
<1>21. ASSUME
       \/ ConsumeDeadLetter \/ SaveIngestDeadLetter \/ CommitDeadLetter
       \/ DeadLetterCrash
     PROVE  Keeps
  BY <1>21 DEF reqVars, storeVars, topicVars, dlqVars, workVars, ConsumeDeadLetter,
     SaveIngestDeadLetter, Restart, CommitDeadLetter, DeadLetterCrash
<1>22. ASSUME UNCHANGED vars PROVE Keeps
  BY <1>22 DEF vars, reqVars, storeVars, topicVars, dlqVars
<1>23. ASSUME Keeps PROVE Effect
  BY <1>23, InventoryKept
<1> HIDE DEF Effect, Keeps
<1>q. Effect
  BY <1>1, <1>2, <1>3, <1>4, <1>5, <1>6, <1>7, <1>8, <1>9, <1>10, <1>11, <1>12,
     <1>13, <1>14, <1>15, <1>16, <1>17, <1>18, <1>19, <1>20, <1>21, <1>22, <1>23 DEF
     Next, Request, ProcessLog, RuntimeAnalyzer, DeadLetterConsumer, Processes
<1> QED
  BY <1>q DEF Effect

-----------------------------------------------------------------------------
(* What the analyzer loses *)

\* The failed records are finitely many.
LEMMA FailedIsFinite ==
  ASSUME TypeOK
  PROVE  IsFiniteSet(Failed) /\ Cardinality(Failed) \in Nat
<1>1. Len(fate) \in Nat
  BY DEF TypeOK
<1>2. IsFiniteSet(1..Len(fate)) /\ Failed \subseteq 1..Len(fate)
  BY <1>1, FS_Interval DEF Failed
<1> QED
  BY <1>2, FS_Subset, FS_CardinalityType

\* A dead letter is appended or the topic stays as it is.
Mourns == dlq' = dlq \/ \E c \in Conversations : dlq' = Append(dlq, c)

\* What is among the dead letters stays there.
LEMMA DeadLettersStay ==
  ASSUME TypeOK, Mourns, NEW c, NEW k \in 1..Len(dlq), dlq[k] = c
  PROVE  \E l \in 1..Len(dlq') : dlq'[l] = c
<1>1. CASE dlq' = dlq
  BY <1>1
<1>2. ASSUME NEW d \in Conversations, dlq' = Append(dlq, d)
      PROVE  \E l \in 1..Len(dlq') : dlq'[l] = c
  <2>1. dlq \in Seq(Conversations) /\ Len(dlq) \in Nat
    BY DEF TypeOK
  <2>2. Len(dlq') = Len(dlq) + 1 /\ dlq'[k] = dlq[k]
    BY <1>2, <2>1, AppendProperties
  <2>3. k \in 1..Len(dlq')
    BY <2>1, <2>2
  <2> QED
    BY <2>2, <2>3
<1> QED
  BY <1>1, <1>2 DEF Mourns

\* A step that gives no record a fate and does not start on one.
Spares ==
    /\ UNCHANGED <<topic, fate>> /\ stored \subseteq stored' /\ Mourns
    /\ pc'[Analyzer] # "idle" =>
         pc[Analyzer] # "idle" /\ item'[Analyzer] = item[Analyzer] /\ UNCHANGED position

LEMMA LossSpared ==
  ASSUME TypeOK, LossInv, Spares, Ok \/ Err
  PROVE  LossInv'
<1>1. faults <= faults' /\ faults \in Nat /\ faults' \in Nat
  BY PipelineAssumption DEF Ok, Err, TypeOK
<1>2. UNCHANGED Failed
  BY DEF Spares, Failed
<1>3. Cardinality(Failed)' <= faults'
  BY <1>1, <1>2, FailedIsFinite DEF LossInv
<1>4. ASSUME NEW i \in 1..Len(fate'), fate'[i] = "dead"
      PROVE  \E k \in 1..Len(dlq') : dlq'[k] = topic'[i]
  <2>1. PICK n \in 1..Len(dlq) : dlq[n] = topic[i]
    BY <1>4 DEF Spares, LossInv
  <2>2. \E k \in 1..Len(dlq') : dlq'[k] = topic[i]
    BY <2>1, DeadLettersStay DEF Spares
  <2> QED
    BY <2>2 DEF Spares
<1>5. \A i \in 1..Len(fate') : fate'[i] = "analyzed" => <<"inventory", topic'[i]>> \in stored'
  BY DEF Spares, LossInv
<1>6. pc'[Analyzer] # "idle" => item'[Analyzer] = topic'[position']
  BY DEF Spares, LossInv
<1> QED
  BY <1>3, <1>4, <1>5, <1>6 DEF LossInv

\* A step that gives the record at the position its fate e: as analyzed once it
\* is in the inventory, as dead with a dead letter, or by a call that failed.
Ends(e) ==
    /\ pc[Analyzer] # "idle" /\ UNCHANGED <<topic, position>>
    /\ fate' = [fate EXCEPT ![position] = e]
    /\ stored \subseteq stored' /\ Mourns
    /\ pc'[Analyzer] # "idle" => item'[Analyzer] = item[Analyzer]
    /\ e = "analyzed" => <<"inventory", item[Analyzer]>> \in stored'
    /\ e = "dead" => dlq' = Append(dlq, item[Analyzer])
    /\ e \in {"abandoned", "skipped"} => faults' = faults + 1

LEMMA LossEnds ==
  ASSUME TypeOK, WorkInv, LossInv, Ok \/ Err, NEW e \in Fates \ {"none"}, Ends(e)
  PROVE  LossInv'
<1>1. faults <= faults' /\ faults \in Nat /\ faults' \in Nat
  BY PipelineAssumption DEF Ok, Err, TypeOK
<1>2. /\ Len(fate) \in Nat /\ Len(fate') = Len(fate)
      /\ \A i \in 1..Len(fate) : fate'[i] = IF i = position THEN e ELSE fate[i]
  BY FateSet DEF TypeOK, Ends
<1>3. position \in 1..Len(fate) /\ item[Analyzer] = topic[position]
  BY DEF TypeOK, WorkInv, LossInv, Ends
<1>4. ASSUME NEW i \in 1..Len(fate'), fate'[i] = "dead"
      PROVE  \E k \in 1..Len(dlq') : dlq'[k] = topic'[i]
  <2>1. CASE i # position
    <3>1. fate[i] = "dead" /\ i \in 1..Len(fate)
      BY <1>2, <1>4, <2>1
    <3>2. PICK n \in 1..Len(dlq) : dlq[n] = topic[i]
      BY <3>1 DEF LossInv
    <3>3. \E k \in 1..Len(dlq') : dlq'[k] = topic[i]
      BY <3>2, DeadLettersStay DEF Ends
    <3> QED
      BY <3>3 DEF Ends
  <2>2. CASE i = position
    <3>1. dlq' = Append(dlq, item[Analyzer])
      BY <1>2, <1>4, <2>2 DEF Ends
    <3>2. dlq \in Seq(Conversations) /\ Len(dlq) \in Nat /\ item[Analyzer] \in Conversations
      BY DEF TypeOK, WorkInv, Ends
    <3>3. Len(dlq') = Len(dlq) + 1 /\ dlq'[Len(dlq) + 1] = item[Analyzer]
      BY <3>1, <3>2, AppendProperties
    <3>4. Len(dlq) + 1 \in 1..Len(dlq')
      BY <3>2, <3>3
    <3> QED
      BY <1>3, <2>2, <3>3, <3>4 DEF Ends
  <2> QED
    BY <2>1, <2>2
<1>5. \A i \in 1..Len(fate') : fate'[i] = "analyzed" => <<"inventory", topic'[i]>> \in stored'
  BY <1>2, <1>3 DEF Ends, LossInv
<1>6. pc'[Analyzer] # "idle" => item'[Analyzer] = topic'[position']
  BY <1>3 DEF Ends
<1>7. Cardinality(Failed)' <= faults'
  <2>1. IsFiniteSet(Failed) /\ Cardinality(Failed) \in Nat /\ Cardinality(Failed) <= faults
    BY FailedIsFinite DEF LossInv
  <2>2. CASE e \in {"abandoned", "skipped"}
    <3>1. Failed' \subseteq Failed \union {position}
      BY <1>2 DEF Failed
    <3>2. /\ IsFiniteSet(Failed \union {position})
          /\ Cardinality(Failed \union {position}) \in {Cardinality(Failed), Cardinality(Failed) + 1}
      BY <2>1, FS_AddElement
    <3>3. /\ Cardinality(Failed') <= Cardinality(Failed \union {position})
          /\ Cardinality(Failed') \in Nat
      BY <3>1, <3>2, FS_Subset, FS_CardinalityType
    <3>4. faults' = faults + 1
      BY <2>2 DEF Ends
    <3> QED
      BY <1>1, <2>1, <3>2, <3>3, <3>4
  <2>3. CASE e \notin {"abandoned", "skipped"}
    <3>1. Failed' \subseteq Failed
      BY <1>2, <2>3 DEF Failed
    <3>2. Cardinality(Failed') <= Cardinality(Failed) /\ Cardinality(Failed') \in Nat
      BY <2>1, <3>1, FS_Subset, FS_CardinalityType
    <3> QED
      BY <1>1, <2>1, <3>2
  <2> QED
    BY <2>2, <2>3
<1> QED
  BY <1>4, <1>5, <1>6, <1>7 DEF LossInv

\* Steps lose no record but to a failed call.
LEMMA LossInvStep ==
  ASSUME TypeOK, WorkInv, InventoryInv, LossInv, [Next]_vars
  PROVE  LossInv'
<1> USE PipelineAssumption DEF Processes
<1> DEFINE Effect == LossInv'
<1>1. ASSUME NEW r \in Requests,
             \/ Receive(r) \/ Validate(r) \/ SaveLog(r) \/ FindExcessLogs(r)
             \/ DeleteExcessLogs(r) \/ SaveConversation(r)
      PROVE  Spares
  BY <1>1 DEF reqVars, storeVars, topicVars, dlqVars, workVars, Receive, Goto, Validate, Answer,
     SaveLog, FindExcessLogs, DeleteExcessLogs, SaveConversation, TypeOK, Spares, Mourns
<1>2. ASSUME NEW r \in Requests, Respond(r) \/ IngestorCrash(r)
      PROVE  Spares
  BY <1>2 DEF reqVars, storeVars, topicVars, dlqVars, workVars, Respond, Goto, IngestorCrash,
     TypeOK, Spares, Mourns
<1>3. ASSUME NEW r \in Requests, PublishConversation(r) PROVE Effect
  <2>1. CASE UNCHANGED <<topic, fate>>
    <3>1. Spares
      BY <1>3, <2>1 DEF PublishConversation, Goto, Answer, storeVars, dlqVars, TypeOK, Spares,
         Mourns
    <3> QED
      BY <3>1, LossSpared, OkOrErr
  <2>2. CASE AppendEvent(item[r])
    <3>1. /\ topic' = Append(topic, item[r]) /\ fate' = Append(fate, "none")
          /\ UNCHANGED <<stored, dlq, position>> /\ pc'[Analyzer] = pc[Analyzer]
          /\ item'[Analyzer] = item[Analyzer] /\ pc[r] = "publish"
      BY <1>3, <2>2 DEF PublishConversation, AppendEvent, Goto, Answer, storeVars, dlqVars, TypeOK
    <3>2. item[r] \in Conversations
      BY <3>1 DEF WorkInv
    <3>3. /\ Len(fate) \in Nat /\ Len(fate') = Len(fate) + 1 /\ fate'[Len(fate) + 1] = "none"
          /\ \A i \in 1..Len(fate) : fate'[i] = fate[i]
      BY <3>1, AppendProperties, "none" \in Fates DEF TypeOK, Fates
    <3>4. \A i \in 1..Len(fate) : topic'[i] = topic[i]
      BY <3>1, <3>2, AppendProperties DEF TypeOK
    <3>5. Failed' = Failed
      BY <3>3 DEF Failed
    <3>6. Cardinality(Failed)' <= faults'
      <4>1. faults <= faults' /\ faults \in Nat /\ faults' \in Nat
        BY OkOrErr DEF Ok, Err, TypeOK
      <4> QED
        BY <3>5, <4>1, FailedIsFinite DEF LossInv
    <3>7. /\ \A i \in 1..Len(fate') :
               fate'[i] = "analyzed" => <<"inventory", topic'[i]>> \in stored'
          /\ \A i \in 1..Len(fate') :
               fate'[i] = "dead" => \E k \in 1..Len(dlq') : dlq'[k] = topic'[i]
      <4> SUFFICES ASSUME NEW i \in 1..Len(fate'), fate'[i] \in {"analyzed", "dead"}
                   PROVE  /\ fate'[i] = "analyzed" => <<"inventory", topic'[i]>> \in stored'
                          /\ fate'[i] = "dead" => \E k \in 1..Len(dlq') : dlq'[k] = topic'[i]
        OBVIOUS
      <4>1. i \in 1..Len(fate)
        BY <3>3
      <4>2. fate'[i] = fate[i] /\ topic'[i] = topic[i]
        BY <3>3, <3>4, <4>1
      <4>3. UNCHANGED <<stored, dlq>>
        BY <3>1
      <4> QED
        BY <4>1, <4>2, <4>3 DEF LossInv
    <3>8. pc'[Analyzer] # "idle" => item'[Analyzer] = topic'[position']
      <4> SUFFICES ASSUME pc[Analyzer] # "idle" PROVE item[Analyzer] = topic'[position]
        BY <3>1
      <4>1. position \in 1..Len(fate)
        BY DEF WorkInv, TypeOK
      <4> QED
        BY <3>4, <4>1 DEF LossInv
    <3> QED
      BY <3>6, <3>7, <3>8 DEF LossInv
  <2> QED
    BY <1>3, <2>1, <2>2 DEF PublishConversation
<1>4. ASSUME NEW p \in Processes, UpdateInventory(p) PROVE Effect
  <2>1. CASE p = Analyzer
    <3>1. Spares \/ \E e \in Fates \ {"none"} : Ends(e)
      BY <1>4, <2>1 DEF UpdateInventory, Goto, Return, Answer, storeVars, topicVars,
         dlqVars, TypeOK, InventoryInv, Analysis, Writes, Fates, Spares, Ends, Mourns, Err
    <3> QED
      BY <3>1, LossSpared, LossEnds, OkOrErr
  <2>2. CASE p # Analyzer /\ p \in Requests
    <3>1. Spares
      BY <1>4, <2>2 DEF UpdateInventory, Goto, Return, Answer, storeVars, topicVars,
         dlqVars, TypeOK, Spares, Mourns
    <3> QED
      BY <3>1, LossSpared, OkOrErr
  <2> QED
    BY <2>1, <2>2 DEF Processes
<1>5. ASSUME NEW p \in Processes, SaveObservation(p) PROVE Effect
  <2>1. CASE p = Analyzer
    <3>1. Spares \/ \E e \in Fates \ {"none"} : Ends(e)
      BY <1>5, <2>1 DEF SaveObservation, Goto, Return, Answer, After, storeVars, topicVars,
         dlqVars, TypeOK, InventoryInv, Analysis, Writes, Fates, Spares, Ends, Mourns, Err
    <3> QED
      BY <3>1, LossSpared, LossEnds, OkOrErr
  <2>2. CASE p # Analyzer /\ p \in Requests
    <3>1. Spares
      BY <1>5, <2>2 DEF SaveObservation, Goto, Return, Answer, After, storeVars, topicVars,
         dlqVars, TypeOK, Spares, Mourns
    <3> QED
      BY <3>1, LossSpared, OkOrErr
  <2> QED
    BY <2>1, <2>2 DEF Processes
<1>6. ASSUME NEW p \in Processes, InsertMetricEvent(p) PROVE Effect
  <2>1. CASE p = Analyzer
    <3>1. pc[Analyzer] \in Analysis \ {"inventory", "idle"}
      BY <1>6, <2>1 DEF InsertMetricEvent, Analysis, Writes
    <3>2. <<"inventory", item[Analyzer]>> \in stored
      BY <3>1 DEF InventoryInv
    <3>3. UNCHANGED <<stored, dlq, topic, item, position>>
      BY <1>6 DEF InsertMetricEvent, dlqVars
    <3>4. UNCHANGED fate \/ fate' = [fate EXCEPT ![position] = "analyzed"]
      BY <1>6, <2>1 DEF InsertMetricEvent, Return, NextBucket
    <3>5. Spares \/ Ends("analyzed")
      BY <3>1, <3>2, <3>3, <3>4 DEF Spares, Ends, Mourns
    <3>6. "analyzed" \in Fates \ {"none"}
      BY DEF Fates
    <3> QED
      BY <3>5, <3>6, LossSpared, LossEnds, OkOrErr
  <2>2. CASE p # Analyzer /\ p \in Requests
    <3>1. Spares
      BY <1>6, <2>2 DEF InsertMetricEvent, Goto, Return, Answer, NextBucket, storeVars, topicVars,
         dlqVars, TypeOK, Spares, Mourns
    <3> QED
      BY <3>1, LossSpared, OkOrErr
  <2> QED
    BY <2>1, <2>2 DEF Processes
<1>7. ASSUME NEW p \in Processes, CountMetric(p) PROVE Effect
  <2>1. CASE p = Analyzer
    <3>1. pc[Analyzer] \in Analysis \ {"inventory", "idle"}
      BY <1>7, <2>1 DEF CountMetric, Analysis, Writes
    <3>2. <<"inventory", item[Analyzer]>> \in stored
      BY <3>1 DEF InventoryInv
    <3>3. UNCHANGED <<stored, dlq, topic, item, position>>
      BY <1>7 DEF CountMetric, dlqVars
    <3>4. UNCHANGED fate \/ fate' = [fate EXCEPT ![position] = "analyzed"]
      BY <1>7, <2>1 DEF CountMetric, Return, NextBucket
    <3>5. Spares \/ Ends("analyzed")
      BY <3>1, <3>2, <3>3, <3>4 DEF Spares, Ends, Mourns
    <3>6. "analyzed" \in Fates \ {"none"}
      BY DEF Fates
    <3> QED
      BY <3>5, <3>6, LossSpared, LossEnds, OkOrErr
  <2>2. CASE p # Analyzer /\ p \in Requests
    <3>1. Spares
      BY <1>7, <2>2 DEF CountMetric, Goto, Return, Answer, NextBucket, storeVars, topicVars,
         dlqVars, TypeOK, Spares, Mourns
    <3> QED
      BY <3>1, LossSpared, OkOrErr
  <2> QED
    BY <2>1, <2>2 DEF Processes
<1>8. ASSUME NEW p \in Processes, DeleteMetricEvent(p) PROVE Effect
  <2>1. CASE p = Analyzer
    <3>1. Spares \/ \E e \in Fates \ {"none"} : Ends(e)
      BY <1>8, <2>1 DEF DeleteMetricEvent, Goto, Return, Answer, storeVars, topicVars,
         dlqVars, TypeOK, InventoryInv, Analysis, Writes, Fates, Spares, Ends, Mourns, Err
    <3> QED
      BY <3>1, LossSpared, LossEnds, OkOrErr
  <2>2. CASE p # Analyzer /\ p \in Requests
    <3>1. Spares
      BY <1>8, <2>2 DEF DeleteMetricEvent, Goto, Return, Answer, storeVars, topicVars,
         dlqVars, TypeOK, Spares, Mourns
    <3> QED
      BY <3>1, LossSpared, OkOrErr
  <2> QED
    BY <2>1, <2>2 DEF Processes
<1>9. ASSUME NEW c \in Conversations, Expires(c)
      PROVE  Spares
  BY <1>9 DEF reqVars, storeVars, topicVars, dlqVars, workVars, Expires, TypeOK, Spares, Mourns
<1>10. ASSUME Consume PROVE Effect
  <2>1. /\ UNCHANGED <<topic, fate, stored, dlq, faults>> /\ position' = position + 1
        /\ item'[Analyzer] = topic[position + 1]
    BY <1>10 DEF Consume, storeVars, dlqVars, TypeOK
  <2>2. UNCHANGED Failed
    BY <2>1 DEF Failed
  <2> QED
    BY <2>1, <2>2 DEF LossInv
<1>11. ASSUME GetTrafficLogByConversationID \/ Commit \/ AnalyzerCrash
       PROVE  Spares
  BY <1>11 DEF reqVars, storeVars, topicVars, dlqVars, workVars, GetTrafficLogByConversationID,
     Goto, Commit, AnalyzerCrash, Idle, TypeOK, Spares, Mourns
<1>12. ASSUME publishDeadLetter PROVE Effect
  <2>1. item[Analyzer] \in Conversations
    BY <1>12 DEF publishDeadLetter, WorkInv
  <2>2. Mourns
    BY <1>12, <2>1 DEF publishDeadLetter, Mourns
  <2>3. Ends("dead") \/ Ends("skipped")
    BY <1>12, <2>2 DEF publishDeadLetter, Goto, Idle, storeVars, TypeOK, Ends, Err
  <2>4. {"dead", "skipped"} \subseteq Fates \ {"none"}
    BY DEF Fates
  <2> QED
    BY <2>3, <2>4, LossEnds, OkOrErr
<1>13. ASSUME \/ ConsumeDeadLetter \/ SaveIngestDeadLetter \/ CommitDeadLetter
              \/ DeadLetterCrash
       PROVE  Spares
  BY <1>13 DEF reqVars, storeVars, topicVars, dlqVars, workVars, ConsumeDeadLetter,
     SaveIngestDeadLetter, Restart, CommitDeadLetter, DeadLetterCrash, Spares, Mourns
<1>14. ASSUME UNCHANGED vars PROVE Spares
  BY <1>14 DEF vars, reqVars, storeVars, topicVars, dlqVars, Spares, Mourns
<1>15. ASSUME Spares PROVE Effect
  BY <1>15, LossSpared, OkOrErr
<1> HIDE DEF Effect
<1>q. Effect
  BY <1>1, <1>2, <1>3, <1>4, <1>5, <1>6, <1>7, <1>8, <1>9, <1>10, <1>11, <1>12, <1>13, <1>14,
     <1>15 DEF Next, Request, ProcessLog, RuntimeAnalyzer, DeadLetterConsumer, Processes
<1> QED
  BY <1>q DEF Effect

-----------------------------------------------------------------------------
(* What the ingestor answers *)

\* Without a broker there is nothing to show.
LEMMA PublishWithoutQueue ==
  ASSUME [Next]_vars, ~queue
  PROVE  PublishInv'
  BY QueueFixed DEF PublishInv

\* A published conversation stays published.
LEMMA StaysPublished ==
  ASSUME TypeOK, NEW d \in Conversations, topic' = topic \/ topic' = Append(topic, d),
         NEW c, Published(c)
  PROVE  Published(c)'
<1>1. PICK i \in 1..Len(topic) : topic[i] = c
  BY DEF Published
<1>2. CASE topic' = topic
  BY <1>2 DEF Published
<1>3. CASE topic' = Append(topic, d)
  <2>1. Len(topic) \in Nat /\ topic \in Seq(Conversations)
    BY DEF TypeOK
  <2>2. topic'[i] = c /\ Len(topic') = Len(topic) + 1
    BY <1>1, <1>3, <2>1, AppendProperties
  <2>3. i \in 1..Len(topic')
    BY <2>1, <2>2
  <2> QED
    BY <2>2, <2>3 DEF Published
<1> QED
  BY <1>2, <1>3

\* An event appended to the topic publishes its conversation.
LEMMA AppendPublishes ==
  ASSUME TypeOK, NEW c \in Conversations, AppendEvent(c)
  PROVE  Published(c)'
<1>1. Len(topic) \in Nat /\ topic \in Seq(Conversations) /\ topic' = Append(topic, c)
  BY DEF TypeOK, AppendEvent
<1>2. topic'[Len(topic) + 1] = c /\ Len(topic') = Len(topic) + 1
  BY <1>1, AppendProperties
<1>3. Len(topic) + 1 \in 1..Len(topic')
  BY <1>1, <1>2
<1> QED
  BY <1>2, <1>3 DEF Published

\* PublishInv after a step of one request: everything published stays so, and
\* the request answers for the conversations it stores and those it owed.
LEMMA PublishByOne ==
  ASSUME PublishInv, queue' = queue, queue, NEW r \in Requests,
         \A q \in Requests \ {r} :
           /\ pc'[q] = pc[q] /\ item'[q] = item[q]
           /\ result'[q] = result[q] /\ answer'[q] = answer[q],
         \A c : Published(c) => Published(c)',
         (pc'[r] = "respond" /\ result'[r] = "accepted") \/ answer'[r] = "accepted"
           => Published(item[r])',
         \A c \in conversations : item[r] = c /\ Owes(r) =>
           Published(c)' \/ (item'[r] = c /\ Owes(r)'),
         \A c \in conversations' \ conversations : item'[r] = c /\ Owes(r)'
  PROVE  PublishInv'
<1>1. \A q \in Requests :
        (pc'[q] = "respond" /\ result'[q] = "accepted") \/ answer'[q] = "accepted"
        => Published(item[q])'
  <2>1. ASSUME NEW q \in Requests \ {r},
               (pc'[q] = "respond" /\ result'[q] = "accepted") \/ answer'[q] = "accepted"
        PROVE  Published(item[q])'
    <3>1. Published(item[q]) /\ item'[q] = item[q]
      BY <2>1 DEF PublishInv
    <3>2. DEFINE c == item[q]
    <3>3. Published(c)'
      BY <3>1
    <3> QED
      BY <3>1, <3>3 DEF Published
  <2> QED
    BY <2>1
<1>2. ASSUME NEW c \in conversations'
      PROVE  Published(c)' \/ \E q \in Requests : item'[q] = c /\ Owes(q)'
  <2>1. CASE c \notin conversations
    BY <2>1
  <2>2. CASE c \in conversations
    <3>1. CASE Published(c)
      BY <3>1
    <3>2. ASSUME NEW q \in Requests, item[q] = c, Owes(q)
          PROVE  Published(c)' \/ \E p \in Requests : item'[p] = c /\ Owes(p)'
      <4>1. CASE q = r
        BY <2>2, <3>2, <4>1
      <4>2. CASE q # r
        <5>1. item'[q] = c /\ Owes(q)'
          BY <3>2, <4>2 DEF Owes
        <5> QED
          BY <5>1
      <4> QED
        BY <4>1, <4>2
    <3> QED
      BY <2>2, <3>1, <3>2 DEF PublishInv
  <2> QED
    BY <2>1, <2>2
<1> QED
  BY <1>1, <1>2 DEF PublishInv

\* A step that changes no request and no topic and stores no conversation.
LEMMA PublishKept ==
  ASSUME PublishInv, queue' = queue,
         \A r \in Requests :
           /\ pc'[r] = pc[r] /\ item'[r] = item[r]
           /\ result'[r] = result[r] /\ answer'[r] = answer[r],
         topic' = topic, conversations' \subseteq conversations
  PROVE  PublishInv'
  BY DEF PublishInv, Owes, Published

\* Steps keep what PublishInv says of answers and the topic.
LEMMA PublishInvStep ==
  ASSUME TypeOK, WorkInv, PublishInv, [Next]_vars
  PROVE  PublishInv'
<1> USE PipelineAssumption DEF Processes
<1> DEFINE Effect ==
      PublishInv'
           Keeps == /\ topic' = topic /\ conversations' \subseteq conversations
                    /\ \A r \in Requests :
                         /\ pc'[r] = pc[r] /\ item'[r] = item[r]
                         /\ result'[r] = result[r] /\ answer'[r] = answer[r]
<1>1. ASSUME NEW r \in Requests, Receive(r) PROVE Effect
  <2>1. CASE ~queue
    BY <2>1, PublishWithoutQueue
  <2>2. CASE queue
    <3>1. \A q \in Requests \ {r} :
            /\ pc'[q] = pc[q] /\ item'[q] = item[q]
            /\ result'[q] = result[q] /\ answer'[q] = answer[q]
      BY <1>1 DEF Receive, Goto, reqVars, TypeOK
    <3>2. \A c : Published(c) => Published(c)'
      BY <1>1 DEF Receive, topicVars, Published
    <3>0. pc[r] \notin {"publish", "respond", "done"} /\ answer[r] = "none"
      BY <1>1 DEF Receive, WorkInv
    <3>3. (pc'[r] = "respond" /\ result'[r] = "accepted") \/ answer'[r] = "accepted"
            => Published(item[r])'
      BY <1>1, <3>0 DEF Receive, Goto, reqVars, TypeOK
    <3>4. \A c \in conversations : item[r] = c /\ Owes(r) =>
            Published(c)' \/ (item'[r] = c /\ Owes(r)')
      BY <3>0 DEF Owes
    <3>5. \A c \in conversations' \ conversations : item'[r] = c /\ Owes(r)'
      BY <1>1, <2>2 DEF Receive, Goto, TypeOK, Owes
    <3> QED
      BY <2>2, <3>1, <3>2, <3>3, <3>4, <3>5, PublishByOne, QueueFixed
  <2> QED
    BY <2>1, <2>2
<1>2. ASSUME NEW r \in Requests, Validate(r) PROVE Effect
  <2>1. CASE ~queue
    BY <2>1, PublishWithoutQueue
  <2>2. CASE queue
    <3>1. \A q \in Requests \ {r} :
            /\ pc'[q] = pc[q] /\ item'[q] = item[q]
            /\ result'[q] = result[q] /\ answer'[q] = answer[q]
      BY <1>2 DEF Validate, Goto, Answer, reqVars, TypeOK
    <3>2. \A c : Published(c) => Published(c)'
      BY <1>2 DEF Validate, topicVars, Published
    <3>0. pc[r] \notin {"publish", "respond", "done"} /\ answer[r] = "none"
      BY <1>2 DEF Validate, WorkInv
    <3>3. (pc'[r] = "respond" /\ result'[r] = "accepted") \/ answer'[r] = "accepted"
            => Published(item[r])'
      BY <1>2, <3>0 DEF Validate, Goto, Answer, reqVars, TypeOK
    <3>4. \A c \in conversations : item[r] = c /\ Owes(r) =>
            Published(c)' \/ (item'[r] = c /\ Owes(r)')
      BY <3>0 DEF Owes
    <3>5. \A c \in conversations' \ conversations : item'[r] = c /\ Owes(r)'
      BY <1>2, <2>2 DEF Validate, Goto, Answer, TypeOK, Owes
    <3> QED
      BY <2>2, <3>1, <3>2, <3>3, <3>4, <3>5, PublishByOne, QueueFixed
  <2> QED
    BY <2>1, <2>2
<1>3. ASSUME NEW r \in Requests, SaveLog(r) PROVE Effect
  <2>1. CASE ~queue
    BY <2>1, PublishWithoutQueue
  <2>2. CASE queue
    <3>1. \A q \in Requests \ {r} :
            /\ pc'[q] = pc[q] /\ item'[q] = item[q]
            /\ result'[q] = result[q] /\ answer'[q] = answer[q]
      BY <1>3 DEF SaveLog, Goto, Answer, reqVars, TypeOK
    <3>2. \A c : Published(c) => Published(c)'
      BY <1>3 DEF SaveLog, topicVars, Published
    <3>0. pc[r] \notin {"publish", "respond", "done"} /\ answer[r] = "none"
      BY <1>3 DEF SaveLog, WorkInv
    <3>3. (pc'[r] = "respond" /\ result'[r] = "accepted") \/ answer'[r] = "accepted"
            => Published(item[r])'
      BY <1>3, <3>0 DEF SaveLog, Goto, Answer, reqVars, TypeOK
    <3>4. \A c \in conversations : item[r] = c /\ Owes(r) =>
            Published(c)' \/ (item'[r] = c /\ Owes(r)')
      BY <3>0 DEF Owes
    <3>5. \A c \in conversations' \ conversations : item'[r] = c /\ Owes(r)'
      BY <1>3, <2>2 DEF SaveLog, Goto, Answer, TypeOK, Owes
    <3> QED
      BY <2>2, <3>1, <3>2, <3>3, <3>4, <3>5, PublishByOne, QueueFixed
  <2> QED
    BY <2>1, <2>2
<1>4. ASSUME NEW r \in Requests, FindExcessLogs(r) PROVE Effect
  <2>1. CASE ~queue
    BY <2>1, PublishWithoutQueue
  <2>2. CASE queue
    <3>1. \A q \in Requests \ {r} :
            /\ pc'[q] = pc[q] /\ item'[q] = item[q]
            /\ result'[q] = result[q] /\ answer'[q] = answer[q]
      BY <1>4 DEF FindExcessLogs, Goto, reqVars, TypeOK
    <3>2. \A c : Published(c) => Published(c)'
      BY <1>4 DEF FindExcessLogs, topicVars, Published
    <3>0. pc[r] \notin {"publish", "respond", "done"} /\ answer[r] = "none"
      BY <1>4 DEF FindExcessLogs, WorkInv
    <3>3. (pc'[r] = "respond" /\ result'[r] = "accepted") \/ answer'[r] = "accepted"
            => Published(item[r])'
      BY <1>4, <3>0 DEF FindExcessLogs, Goto, reqVars, TypeOK
    <3>4. \A c \in conversations : item[r] = c /\ Owes(r) =>
            Published(c)' \/ (item'[r] = c /\ Owes(r)')
      BY <3>0 DEF Owes
    <3>5. \A c \in conversations' \ conversations : item'[r] = c /\ Owes(r)'
      BY <1>4, <2>2 DEF FindExcessLogs, Goto, TypeOK, Owes
    <3> QED
      BY <2>2, <3>1, <3>2, <3>3, <3>4, <3>5, PublishByOne, QueueFixed
  <2> QED
    BY <2>1, <2>2
<1>5. ASSUME NEW r \in Requests, DeleteExcessLogs(r) PROVE Effect
  <2>1. CASE ~queue
    BY <2>1, PublishWithoutQueue
  <2>2. CASE queue
    <3>1. \A q \in Requests \ {r} :
            /\ pc'[q] = pc[q] /\ item'[q] = item[q]
            /\ result'[q] = result[q] /\ answer'[q] = answer[q]
      BY <1>5 DEF DeleteExcessLogs, Goto, reqVars, TypeOK
    <3>2. \A c : Published(c) => Published(c)'
      BY <1>5 DEF DeleteExcessLogs, topicVars, Published
    <3>0. pc[r] \notin {"publish", "respond", "done"} /\ answer[r] = "none"
      BY <1>5 DEF DeleteExcessLogs, WorkInv
    <3>3. (pc'[r] = "respond" /\ result'[r] = "accepted") \/ answer'[r] = "accepted"
            => Published(item[r])'
      BY <1>5, <3>0 DEF DeleteExcessLogs, Goto, reqVars, TypeOK
    <3>4. \A c \in conversations : item[r] = c /\ Owes(r) =>
            Published(c)' \/ (item'[r] = c /\ Owes(r)')
      BY <3>0 DEF Owes
    <3>5. \A c \in conversations' \ conversations : item'[r] = c /\ Owes(r)'
      BY <1>5, <2>2 DEF DeleteExcessLogs, Goto, TypeOK, Owes
    <3> QED
      BY <2>2, <3>1, <3>2, <3>3, <3>4, <3>5, PublishByOne, QueueFixed
  <2> QED
    BY <2>1, <2>2
<1>6. ASSUME NEW r \in Requests, SaveConversation(r) PROVE Effect
  <2>1. CASE ~queue
    BY <2>1, PublishWithoutQueue
  <2>2. CASE queue
    <3>1. \A q \in Requests \ {r} :
            /\ pc'[q] = pc[q] /\ item'[q] = item[q]
            /\ result'[q] = result[q] /\ answer'[q] = answer[q]
      BY <1>6 DEF SaveConversation, Goto, Answer, reqVars, TypeOK
    <3>2. \A c : Published(c) => Published(c)'
      BY <1>6 DEF SaveConversation, topicVars, Published
    <3>0. pc[r] \notin {"publish", "respond", "done"} /\ answer[r] = "none"
      BY <1>6 DEF SaveConversation, WorkInv
    <3>3. (pc'[r] = "respond" /\ result'[r] = "accepted") \/ answer'[r] = "accepted"
            => Published(item[r])'
      BY <1>6, <3>0 DEF SaveConversation, Goto, Answer, reqVars, TypeOK
    <3>4. \A c \in conversations : item[r] = c /\ Owes(r) =>
            Published(c)' \/ (item'[r] = c /\ Owes(r)')
      BY <3>0 DEF Owes
    <3>5. \A c \in conversations' \ conversations : item'[r] = c /\ Owes(r)'
      BY <1>6, <2>2 DEF SaveConversation, Goto, Answer, TypeOK, Owes
    <3> QED
      BY <2>2, <3>1, <3>2, <3>3, <3>4, <3>5, PublishByOne, QueueFixed
  <2> QED
    BY <2>1, <2>2
<1>7. ASSUME NEW r \in Requests, PublishConversation(r) PROVE Effect
  <2>1. CASE ~queue
    BY <2>1, PublishWithoutQueue
  <2>2. CASE queue
    <3>1. \A q \in Requests \ {r} :
            /\ pc'[q] = pc[q] /\ item'[q] = item[q]
            /\ result'[q] = result[q] /\ answer'[q] = answer[q]
      BY <1>7 DEF PublishConversation, Goto, Answer, AppendEvent, reqVars, TypeOK
    <3>2. /\ item[r] \in Conversations /\ pc[r] = "publish" /\ answer[r] = "none"
          /\ UNCHANGED <<item, answer, conversations>>
      BY <1>7 DEF PublishConversation, WorkInv
    <3>3. \/ AppendEvent(item[r]) /\ (Answer(r, "accepted") \/ Answer(r, "failed"))
          \/ UNCHANGED topic /\ Answer(r, "failed")
      BY <1>7 DEF PublishConversation
    <3>4. \A c : Published(c) => Published(c)'
      BY <3>2, <3>3, StaysPublished DEF AppendEvent
    <3>5. AppendEvent(item[r]) => Published(item[r])'
      <4> DEFINE c == item[r]
      <4>1. c' = c
        BY <3>2
      <4>2. AppendEvent(c) => Published(c)'
        BY <3>2, AppendPublishes
      <4> QED
        BY <4>1, <4>2 DEF Published
    <3>6. pc'[r] = "respond" /\ result'[r] \in {"accepted", "failed"}
      BY <3>3 DEF Answer, Goto, TypeOK
    <3>7. result'[r] = "failed" \/ AppendEvent(item[r])
      BY <3>3 DEF Answer, TypeOK
    <3>8. item'[r] = item[r] /\ answer'[r] = "none" /\ conversations' = conversations
      BY <3>2
    <3>9. (pc'[r] = "respond" /\ result'[r] = "accepted") \/ answer'[r] = "accepted"
            => Published(item[r])'
      BY <3>5, <3>7, <3>8
    <3>10. result'[r] = "failed" => Owes(r)'
      BY <3>6 DEF Owes
    <3>11. ASSUME NEW c \in conversations, item[r] = c, Owes(r)
           PROVE  Published(c)' \/ (item'[r] = c /\ Owes(r)')
      <4>1. CASE result'[r] = "failed"
        BY <3>8, <3>10, <3>11, <4>1
      <4>2. CASE AppendEvent(item[r])
        BY <3>2, <3>11, <4>2, AppendPublishes
      <4> QED
        BY <3>7, <4>1, <4>2
    <3>12. \A d \in conversations' \ conversations : item'[r] = d /\ Owes(r)'
      BY <3>8
    <3> QED
      BY <2>2, <3>1, <3>4, <3>9, <3>11, <3>12, PublishByOne, QueueFixed
  <2> QED
    BY <2>1, <2>2
<1>8. ASSUME NEW r \in Requests, Respond(r) PROVE Effect
  <2>1. CASE ~queue
    BY <2>1, PublishWithoutQueue
  <2>2. CASE queue
    <3>1. \A q \in Requests \ {r} :
            /\ pc'[q] = pc[q] /\ item'[q] = item[q]
            /\ result'[q] = result[q] /\ answer'[q] = answer[q]
      BY <1>8 DEF Respond, Goto, reqVars, TypeOK
    <3>0. pc'[r] = "done" /\ pc[r] # "done" /\ item'[r] = item[r] /\ answer[r] = "none"
      BY <1>8 DEF Respond, Goto, WorkInv, TypeOK
    <3>2. \A c : Published(c) => Published(c)'
      BY <1>8 DEF Respond, topicVars, Published
    <3>6. pc[r] = "respond" /\ answer'[r] = result[r]
      BY <1>8 DEF Respond, TypeOK
    <3>7. result[r] = "accepted" => Published(item[r])'
      BY <1>8, <2>2, <3>6 DEF PublishInv, Published, Respond, topicVars
    <3>3. (pc'[r] = "respond" /\ result'[r] = "accepted") \/ answer'[r] = "accepted"
            => Published(item[r])'
      BY <3>0, <3>6, <3>7
    <3>4. \A c \in conversations : item[r] = c /\ Owes(r) =>
            Published(c)' \/ (item'[r] = c /\ Owes(r)')
      BY <3>0, <3>6 DEF Owes
    <3>5. \A c \in conversations' \ conversations : item'[r] = c /\ Owes(r)'
      BY <1>8 DEF Respond
    <3> QED
      BY <2>2, <3>1, <3>2, <3>3, <3>4, <3>5, PublishByOne, QueueFixed
  <2> QED
    BY <2>1, <2>2
<1>9. ASSUME NEW r \in Requests, IngestorCrash(r) PROVE Effect
  <2>1. CASE ~queue
    BY <2>1, PublishWithoutQueue
  <2>2. CASE queue
    <3>1. \A q \in Requests \ {r} :
            /\ pc'[q] = pc[q] /\ item'[q] = item[q]
            /\ result'[q] = result[q] /\ answer'[q] = answer[q]
      BY <1>9 DEF IngestorCrash, Goto, reqVars, TypeOK
    <3>0. pc'[r] = "done" /\ pc[r] # "done" /\ item'[r] = item[r] /\ answer[r] = "none"
      BY <1>9 DEF IngestorCrash, Goto, WorkInv, TypeOK
    <3>2. \A c : Published(c) => Published(c)'
      BY <1>9 DEF IngestorCrash, topicVars, Published
    <3>6. answer'[r] = "crashed"
      BY <1>9 DEF IngestorCrash, TypeOK
    <3>3. (pc'[r] = "respond" /\ result'[r] = "accepted") \/ answer'[r] = "accepted"
            => Published(item[r])'
      BY <3>0, <3>6
    <3>4. \A c \in conversations : item[r] = c /\ Owes(r) =>
            Published(c)' \/ (item'[r] = c /\ Owes(r)')
      BY <3>0, <3>6 DEF Owes
    <3>5. \A c \in conversations' \ conversations : item'[r] = c /\ Owes(r)'
      BY <1>9 DEF IngestorCrash
    <3> QED
      BY <2>2, <3>1, <3>2, <3>3, <3>4, <3>5, PublishByOne, QueueFixed
  <2> QED
    BY <2>1, <2>2
<1>10. ASSUME NEW p \in Processes, UpdateInventory(p) PROVE Effect
  <2>1. CASE p = Analyzer
    <3>1. Keeps
      BY <1>10, <2>1 DEF UpdateInventory, Goto, Return, Answer, topicVars, reqVars, TypeOK
    <3> QED
      BY <3>1, PublishKept, QueueFixed
  <2>2. CASE p # Analyzer /\ p \in Requests
    <3>1. ~queue
      BY <1>10, <2>2 DEF UpdateInventory, After, WorkInv, Analysis, Writes
    <3> QED
      BY <3>1, PublishWithoutQueue
  <2> QED
    BY <2>1, <2>2 DEF Processes
<1>11. ASSUME NEW p \in Processes, SaveObservation(p) PROVE Effect
  <2>1. CASE p = Analyzer
    <3>1. Keeps
      BY <1>11, <2>1 DEF SaveObservation, Goto, After, topicVars, reqVars, TypeOK
    <3> QED
      BY <3>1, PublishKept, QueueFixed
  <2>2. CASE p # Analyzer /\ p \in Requests
    <3>1. ~queue
      BY <1>11, <2>2 DEF SaveObservation, After, WorkInv, Analysis, Writes
    <3> QED
      BY <3>1, PublishWithoutQueue
  <2> QED
    BY <2>1, <2>2 DEF Processes
<1>12. ASSUME NEW p \in Processes, InsertMetricEvent(p) PROVE Effect
  <2>1. CASE p = Analyzer
    <3>1. Keeps
      BY <1>12, <2>1 DEF InsertMetricEvent, Goto, Return, Answer, NextBucket, topicVars, reqVars, TypeOK
    <3> QED
      BY <3>1, PublishKept, QueueFixed
  <2>2. CASE p # Analyzer /\ p \in Requests
    <3>1. ~queue
      BY <1>12, <2>2 DEF InsertMetricEvent, After, WorkInv, Analysis, Writes
    <3> QED
      BY <3>1, PublishWithoutQueue
  <2> QED
    BY <2>1, <2>2 DEF Processes
<1>13. ASSUME NEW p \in Processes, CountMetric(p) PROVE Effect
  <2>1. CASE p = Analyzer
    <3>1. Keeps
      BY <1>13, <2>1 DEF CountMetric, Goto, Return, Answer, NextBucket, topicVars, reqVars, TypeOK
    <3> QED
      BY <3>1, PublishKept, QueueFixed
  <2>2. CASE p # Analyzer /\ p \in Requests
    <3>1. ~queue
      BY <1>13, <2>2 DEF CountMetric, After, WorkInv, Analysis, Writes
    <3> QED
      BY <3>1, PublishWithoutQueue
  <2> QED
    BY <2>1, <2>2 DEF Processes
<1>14. ASSUME NEW p \in Processes, DeleteMetricEvent(p) PROVE Effect
  <2>1. CASE p = Analyzer
    <3>1. Keeps
      BY <1>14, <2>1 DEF DeleteMetricEvent, Goto, Return, Answer, topicVars, reqVars, TypeOK
    <3> QED
      BY <3>1, PublishKept, QueueFixed
  <2>2. CASE p # Analyzer /\ p \in Requests
    <3>1. ~queue
      BY <1>14, <2>2 DEF DeleteMetricEvent, After, WorkInv, Analysis, Writes
    <3> QED
      BY <3>1, PublishWithoutQueue
  <2> QED
    BY <2>1, <2>2 DEF Processes
<1>15. ASSUME Consume PROVE Effect
  <2>1. Keeps
    BY <1>15, PipelineAssumption DEF Consume, Goto, topicVars, reqVars, TypeOK
  <2> QED
    BY <2>1, PublishKept, QueueFixed
<1>16. ASSUME GetTrafficLogByConversationID PROVE Effect
  <2>1. Keeps
    BY <1>16, PipelineAssumption DEF GetTrafficLogByConversationID, Goto, topicVars, reqVars, TypeOK
  <2> QED
    BY <2>1, PublishKept, QueueFixed
<1>17. ASSUME publishDeadLetter PROVE Effect
  <2>1. Keeps
    BY <1>17, PipelineAssumption DEF publishDeadLetter, Goto, Idle, topicVars, reqVars, TypeOK
  <2> QED
    BY <2>1, PublishKept, QueueFixed
<1>18. ASSUME Commit PROVE Effect
  <2>1. Keeps
    BY <1>18, PipelineAssumption DEF Commit, Goto, Idle, topicVars, reqVars, TypeOK
  <2> QED
    BY <2>1, PublishKept, QueueFixed
<1>19. ASSUME AnalyzerCrash PROVE Effect
  <2>1. Keeps
    BY <1>19, PipelineAssumption DEF AnalyzerCrash, Goto, Idle, topicVars, reqVars, TypeOK
  <2> QED
    BY <2>1, PublishKept, QueueFixed
<1>20. ASSUME NEW c \in Conversations, Expires(c)
     PROVE  Keeps
  BY <1>20 DEF reqVars, storeVars, topicVars, dlqVars, workVars, Expires
<1>21. ASSUME
       \/ ConsumeDeadLetter \/ SaveIngestDeadLetter \/ CommitDeadLetter
       \/ DeadLetterCrash
     PROVE  Keeps
  BY <1>21 DEF reqVars, storeVars, topicVars, dlqVars, workVars, ConsumeDeadLetter,
     SaveIngestDeadLetter, Restart, CommitDeadLetter, DeadLetterCrash
<1>22. ASSUME UNCHANGED vars PROVE Keeps
  BY <1>22 DEF vars, reqVars, storeVars, topicVars, dlqVars
<1>23. ASSUME Keeps PROVE Effect
  BY <1>23, PublishKept, QueueFixed
<1> HIDE DEF Effect, Keeps
<1>q. Effect
  BY <1>1, <1>2, <1>3, <1>4, <1>5, <1>6, <1>7, <1>8, <1>9, <1>10, <1>11, <1>12,
     <1>13, <1>14, <1>15, <1>16, <1>17, <1>18, <1>19, <1>20, <1>21, <1>22, <1>23 DEF
     Next, Request, ProcessLog, RuntimeAnalyzer, DeadLetterConsumer, Processes
<1> QED
  BY <1>q DEF Effect
-----------------------------------------------------------------------------
(* The theorems *)

\* The invariants hold before the first request.
LEMMA PipelineInit ==
  ASSUME Init
  PROVE  PipelineInv
<1> USE PipelineAssumption DEF Init
<1>1. TypeOK
  BY DEF TypeOK, Processes, Labels, Granularities, Fates, Keys
<1>2. WorkInv
  BY DEF WorkInv, RequestLabels, AnalyzerLabels, Processes, Analysis, Writes
<1>3. FateInv /\ DeadLetterInv
  BY DEF FateInv, DeadLetterInv, Processes
<1>4. LedgerInv
  BY DEF LedgerInv, Processes
<1>5. InventoryInv
  BY DEF InventoryInv, CountedIsInventoried, Processes, Analysis, Writes
<1>6. PublishInv
  BY DEF PublishInv, Processes
<1>7. LossInv
  <2>1. Failed = {}
    BY DEF Failed
  <2> QED
    BY <2>1, FS_EmptySet DEF LossInv, Processes
<1> QED
  BY <1>1, <1>2, <1>3, <1>4, <1>5, <1>6, <1>7 DEF PipelineInv

\* No step exceeds the bound on faults, and all variables keep their types.
LEMMA TypeStep ==
  ASSUME TypeOK, WorkInv, DeadLetterInv, [Next]_vars
  PROVE  TypeOK'
<1>1. faults' \in 0..MaxFaults
  BY OkOrErr, PipelineAssumption DEF Ok, Err, TypeOK
<1>2. queue' \in BOOLEAN
  BY QueueFixed DEF TypeOK
<1> QED
  BY <1>1, <1>2, WorkTypes, AnswerTypes, StoreTypes, AnalysisTypes, TopicTypes,
     DeadLetterTypes DEF TypeOK

\* Every step preserves the conjunction.
LEMMA PipelineStep ==
  ASSUME PipelineInv, [Next]_vars
  PROVE  PipelineInv'
  BY TypeStep, WorkInvStep, FateInvStep, DeadLetterInvStep, LedgerInvStep,
     InventoryInvStep, LossInvStep, PublishInvStep DEF PipelineInv

\* The inductive invariant: where the processes are, how far each consumer has
\* come, what the ledger counts and what the ingestor has answered.
THEOREM PipelineInvHolds == Spec => []PipelineInv
<1>1. Init => PipelineInv
  BY PipelineInit
<1>2. PipelineInv /\ [Next]_vars => PipelineInv'
  BY PipelineStep
<1> QED
  BY <1>1, <1>2, PTL DEF Spec

\* Every variable keeps its type and no offset runs ahead of what it indexes.
THEOREM PipelineTypes == Spec => []TypeOK
<1>1. PipelineInv => TypeOK
  BY DEF PipelineInv
<1> QED
  BY <1>1, PipelineInvHolds, PTL

\* What is stored and was never published was refused or lost in a crash, and
\* never accepted: HandleConversation answers 202 only after the publish.
THEOREM UnpublishedIsRefused == Spec => []UnpublishedWasRefused
<1>1. ASSUME PipelineInv PROVE UnpublishedWasRefused
  <2> SUFFICES ASSUME queue, NEW c \in conversations, ~InFlight(c), ~Published(c)
               PROVE  /\ \E r \in Requests : item[r] = c /\ answer[r] \in {"failed", "crashed"}
                      /\ \A r \in Requests : item[r] = c => answer[r] # "accepted"
    BY DEF UnpublishedWasRefused
  <2>1. PublishInv
    BY <1>1 DEF PipelineInv
  <2>2. PICK r \in Requests : item[r] = c /\ Owes(r)
    BY <2>1 DEF PublishInv
  <2>3. pc[r] \in {"new", "done"}
    BY <2>2 DEF InFlight
  <2>4. answer[r] \in {"failed", "crashed"}
    BY <2>2, <2>3 DEF Owes
  <2>5. \A q \in Requests : item[q] = c => answer[q] # "accepted"
    BY <2>1 DEF PublishInv
  <2> QED
    BY <2>2, <2>4, <2>5
<1> QED
  BY <1>1, PipelineInvHolds, PTL

\* Each failed call costs the analyzer at most one record, across crashes,
\* redeliveries and commits that cover earlier records: a record up to the
\* committed offset that is neither in the inventory nor among the dead letters
\* has a fate, and neither "analyzed" nor "dead" (ProcessOne, CommitRecords).
THEOREM CommitsFollowProcessing == Spec => []CommittedWasProcessed
<1>1. ASSUME PipelineInv PROVE CommittedWasProcessed
  <2> DEFINE L == {i \in 1..committed : Lost(i)}
  <2>1. /\ TypeOK /\ FateInv /\ LossInv /\ committed \in 0..position
        /\ position \in 0..Len(fate) /\ Len(fate) \in Nat
    BY <1>1 DEF PipelineInv, TypeOK
  <2>2. ASSUME NEW i \in L PROVE i \in Failed
    <3>1. i \in 1..committed /\ i \in 1..position /\ i \in 1..Len(fate) /\ Lost(i)
      BY <2>1
    <3>2. fate[i] # "none"
      <4>1. CASE pc[Analyzer] \in {"idle", "commit"}
        BY <2>1, <3>1, <4>1 DEF FateInv
      <4>2. CASE pc[Analyzer] \notin {"idle", "commit"}
        BY <2>1, <3>1, <4>2 DEF FateInv
      <4> QED
        BY <4>1, <4>2
    <3>3. fate[i] \notin {"analyzed", "dead"}
      BY <2>1, <3>1 DEF LossInv, Lost
    <3>4. fate[i] \in Fates
      BY <2>1, <3>1 DEF TypeOK
    <3> QED
      BY <3>1, <3>2, <3>3, <3>4 DEF Failed, Fates
  <2>3. IsFiniteSet(Failed) /\ Cardinality(Failed) \in Nat /\ Cardinality(Failed) <= faults
    BY <2>1, FailedIsFinite DEF LossInv
  <2>4. faults \in Nat
    BY <2>1, PipelineAssumption DEF TypeOK
  <2> HIDE DEF L
  <2>5. L \subseteq Failed
    BY <2>2
  <2>6. Cardinality(L) <= Cardinality(Failed) /\ Cardinality(L) \in Nat
    BY <2>3, <2>5, FS_Subset, FS_CardinalityType
  <2>7. Cardinality(L) <= faults
    BY <2>3, <2>4, <2>6
  <2> QED
    BY <2>7 DEF L, CommittedWasProcessed
<1> QED
  BY <1>1, PipelineInvHolds, PTL

\* However often a record is redelivered, and whichever processes analyze a
\* conversation at the same time, each of its buckets is counted once unless an
\* update that was applied reported an error (recordTrafficMetrics).
THEOREM ReplaysCountOnce == Spec => []MetricsCountedOnce
<1>1. PipelineInv => MetricsCountedOnce
  BY DEF PipelineInv, LedgerInv, MetricsCountedOnce
<1> QED
  BY <1>1, PipelineInvHolds, PTL

\* A conversation is counted only after its endpoint is in the inventory.
THEOREM InventoryComesFirst == Spec => []CountedIsInventoried
<1>1. PipelineInv => CountedIsInventoried
  BY DEF PipelineInv, InventoryInv
<1> QED
  BY <1>1, PipelineInvHolds, PTL

\* The dead-letter consumer commits only what it stored (Consumer.ProcessOne).
THEOREM CommittedDeadLettersAreStored == Spec => []CommittedDeadLetterIsStored
<1>1. PipelineInv => CommittedDeadLetterIsStored
  BY DEF PipelineInv, DeadLetterInv, CommittedDeadLetterIsStored
<1> QED
  BY <1>1, PipelineInvHolds, PTL
=============================================================================
