---------------------------- MODULE AgentAccess -----------------------------
(***************************************************************************)
(* Quick start of one account: data sources, the one-time enrollments that *)
(* register capture agents for them, the account's ingest token and its    *)
(* security settings.  All of them are small documents that several        *)
(* requests, and goroutines the handlers leave behind, read and write with *)
(* separate MongoDB calls.                                                 *)
(*                                                                         *)
(* One step is one call of one request.  Requests are an administrator's;  *)
(* those a handler refuses without writing are not steps.  A call may fail *)
(* and may have been applied all the same, and the API server may die, at  *)
(* most MaxFaults times.                                                   *)
(***************************************************************************)
EXTENDS Naturals, Sequences, FiniteSets

CONSTANTS
    Requests,     \* requests and background goroutines at one time
    Values,       \* values of a setting within its limits
    Default,      \* the default of a setting
    Same,         \* a field the update request leaves out
    MaxRequests,  \* bound: requests of a behaviour
    MaxFaults     \* bound: failed calls and crashes of a behaviour

ASSUME AgentAccessAssumption ==
    /\ IsFiniteSet(Requests) /\ Default \in Values /\ Same \notin Values
    /\ MaxRequests \in Nat /\ MaxFaults \in Nat

VARIABLES
    sources,      \* data_sources, in the order of created_at
    enrollments,  \* agent_enrollments
    agents,       \* agents
    token,        \* the account's ingest token, 0 without one
    settings,     \* account_settings: a set with at most one document
    req,          \* what each request does next, with its local variables
    started,      \* requests so far, which also numbers the generated tokens
    faults,       \* failed calls and crashes so far
    shown,        \* tokens answered to the dashboard since the last rotation
    asked,        \* the settings as the applied updates asked for them
    overlapped,   \* two updates of the settings were under way at once
    unfinished,   \* sources whose last delete failed halfway
    slipped,      \* enrollments the delete of their source could not reach:
                  \* claimed but without an agent yet, or inserted late
    spent         \* enrollments whose registration failed or died halfway

sourceVars == <<sources, enrollments, agents, unfinished, slipped, spent>>
tokenVars == <<token, shown>>
settingVars == <<settings, asked, overlapped>>
vars == <<sourceVars, tokenVars, settingVars, req, started, faults>>

Source == [ebpf : BOOLEAN, auto : BOOLEAN, deleted : BOOLEAN,
           status : {"PENDING", "CONNECTED", "DELETED"}]
Enrollment == [source : Nat \ {0}, status : {"open", "used", "expired"}]
Agent == [source : Nat \ {0}, enrollment : Nat \ {0}, status : {"active", "disabled"}]
Settings == [retention : Values, cap : Values]
Change == [retention : Values \union {Same}, cap : Values \union {Same}]

DefaultSettings == [retention |-> Default, cap |-> Default]
NoChange == [retention |-> Same, cap |-> Same]
Idle == [pc |-> "idle", source |-> 0, enrollment |-> 0,
         id |-> 0, base |-> DefaultSettings, change |-> NoChange]

Init ==
    /\ sources = <<>> /\ enrollments = <<>> /\ agents = <<>>
    /\ token = 0 /\ settings = {}
    /\ req = [r \in Requests |-> Idle]
    /\ started = 0 /\ faults = 0
    /\ shown = {} /\ asked = DefaultSettings /\ overlapped = FALSE
    /\ unfinished = {} /\ slipped = {} /\ spent = {}

\* The two ways a call to MongoDB can end.
Ok  == UNCHANGED faults
Err == faults < MaxFaults /\ faults' = faults + 1

Become(r, q) == req' = [req EXCEPT ![r] = q]
Goto(r, step) == Become(r, [req[r] EXCEPT !.pc = step])
Done(r) == Become(r, Idle)

\* A request arrives at an idle slot.
Start(r) == req[r] = Idle /\ started < MaxRequests /\ started' = started + 1
Step(r, pc) == req[r].pc = pc /\ UNCHANGED started

SourceIds == DOMAIN sources
Listed == {s \in SourceIds : ~sources[s].deleted}
-----------------------------------------------------------------------------
(* Data sources *)

NewSource(ebpf, auto) == [ebpf |-> ebpf, auto |-> auto, deleted |-> FALSE,
                          status |-> IF auto THEN "CONNECTED" ELSE "PENDING"]

\* handleCreateDataSource of an eBPF or of another type.
CreateDataSource(r, ebpf) ==
    /\ Start(r)
    /\ \/ Ok /\ sources' = Append(sources, NewSource(ebpf, FALSE))
       \/ Err /\ sources' \in {sources, Append(sources, NewSource(ebpf, FALSE))}
    /\ UNCHANGED <<req, enrollments, agents, unfinished, slipped, spent, tokenVars, settingVars>>

\* Mutant: disables the agents before the enrollments.
NextUpdateSwapped(pc) ==
    CASE pc = "delete" -> "disable" [] pc = "disable" -> "expire" [] OTHER -> "idle"

\* DeleteDataSourceForAccount is three updates; an error skips the rest.
NextUpdate(pc) ==
    CASE pc = "delete" -> "expire" [] pc = "expire" -> "disable" [] OTHER -> "idle"

Continue(r, pc, s) == Become(r, [Idle EXCEPT !.pc = NextUpdate(pc),
                                    !.source = IF NextUpdate(pc) = "idle" THEN 0 ELSE s])

\* The first update also matches a source that is deleted already, so a
\* delete can be repeated.
DeleteDataSource(r, s) ==
    /\ Start(r) /\ s \in SourceIds
    /\ LET deleted == [sources EXCEPT ![s].status = "DELETED", ![s].deleted = TRUE] IN
        \/ Ok /\ sources' = deleted /\ Continue(r, "delete", s) /\ UNCHANGED unfinished
        \/ /\ Err /\ sources' \in {sources, deleted} /\ UNCHANGED req
           /\ unfinished' = unfinished \union {s}
    /\ UNCHANGED <<enrollments, agents, slipped, spent, tokenVars, settingVars>>

\* Of an UpdateMany that fails any part may have been applied.
ExpireEnrollments(r) ==
    /\ Step(r, "expire")
    /\ LET s == req[r].source
           open == {e \in DOMAIN enrollments : enrollments[e].source = s
                                               /\ enrollments[e].status = "open"}
           Expired(E) == [e \in DOMAIN enrollments |->
                            IF e \in E THEN [enrollments[e] EXCEPT !.status = "expired"]
                                       ELSE enrollments[e]]
       IN  \/ /\ Ok /\ enrollments' = Expired(open) /\ Continue(r, "expire", s)
              /\ UNCHANGED unfinished
           \/ /\ Err /\ (\E E \in SUBSET open : enrollments' = Expired(E)) /\ Done(r)
              /\ unfinished' = unfinished \union {s}
    /\ UNCHANGED <<sources, agents, slipped, spent, tokenVars, settingVars>>

\* Enrollments of registrations between claim and insert.
Registering == {req[q].enrollment : q \in {q \in Requests : req[q].pc = "agent"}}

DisableAgents(r) ==
    /\ Step(r, "disable")
    /\ LET s == req[r].source
           active == {a \in DOMAIN agents : agents[a].source = s
                                            /\ agents[a].status = "active"}
           Disabled(A) == [a \in DOMAIN agents |->
                             IF a \in A THEN [agents[a] EXCEPT !.status = "disabled"]
                                        ELSE agents[a]]
           ofSource == {e \in DOMAIN enrollments : enrollments[e].source = s}
           reached == {e \in ofSource \ Registering : enrollments[e].status # "open"}
       IN  \/ /\ Ok /\ agents' = Disabled(active) /\ Continue(r, "disable", s)
              /\ unfinished' = unfinished \ {s}
              /\ slipped' = (slipped \ reached) \union (Registering \intersect ofSource)
           \/ /\ Err /\ (\E A \in SUBSET active : agents' = Disabled(A)) /\ Done(r)
              /\ unfinished' = unfinished \union {s}
              /\ UNCHANGED slipped
    /\ UNCHANGED <<sources, enrollments, spent, tokenVars, settingVars>>
-----------------------------------------------------------------------------
(* Enrollment and registration of agents *)

\* handleCreateAgentEnrollment reads the source ...
MayEnroll(s) == s \in Listed /\ sources[s].ebpf

CreateAgentEnrollment(r, s) ==
    /\ Start(r) /\ MayEnroll(s)
    /\ Become(r, [Idle EXCEPT !.pc = "enroll", !.source = s])
    /\ UNCHANGED <<sourceVars, tokenVars, settingVars, faults>>

\* ... and inserts the enrollment, for a source that may be deleted by now.
InsertEnrollment(r) ==
    /\ Step(r, "enroll")
    /\ LET s == req[r].source
           new == Append(enrollments, [source |-> s, status |-> "open"])
       IN  /\ \/ Ok /\ enrollments' = new
              \/ Err /\ enrollments' \in {enrollments, new}
           /\ slipped' = IF sources[s].deleted /\ enrollments' = new
                        THEN slipped \union {Len(new)} ELSE slipped
    /\ Done(r)
    /\ UNCHANGED <<sources, agents, unfinished, spent, tokenVars, settingVars>>

\* The time of an enrollment is up; the TTL index removes it later.
EnrollmentExpires(e) ==
    /\ e \in DOMAIN enrollments /\ enrollments[e].status = "open"
    /\ enrollments' = [enrollments EXCEPT ![e].status = "expired"]
    /\ UNCHANGED <<sources, agents, unfinished, slipped, spent, tokenVars, settingVars,
                   req, started, faults>>

\* Mutant: the filter of the claim leaves out used_at.
ClaimableAgain(e) == enrollments[e].status \in {"open", "used"}

Claimable(e) == enrollments[e].status = "open"

\* handleRegisterAgent, first call: FindOneAndUpdate claims the enrollment.
ClaimEnrollment(r, e) ==
    /\ Start(r) /\ e \in DOMAIN enrollments /\ Claimable(e)
    /\ LET used == [enrollments EXCEPT ![e].status = "used"] IN
        \/ /\ Ok /\ enrollments' = used /\ UNCHANGED spent
           /\ Become(r, [Idle EXCEPT !.pc = "agent", !.enrollment = e,
                                     !.source = enrollments[e].source])
        \/ /\ Err /\ UNCHANGED req
           /\ \/ UNCHANGED <<enrollments, spent>>
              \/ enrollments' = used /\ spent' = spent \union {e}
    /\ UNCHANGED <<sources, agents, unfinished, slipped, tokenVars, settingVars>>

InsertAgent(r) ==
    /\ Step(r, "agent")
    /\ LET q == req[r]
           new == Append(agents, [source |-> q.source, enrollment |-> q.enrollment,
                                  status |-> "active"])
       IN  \/ Ok /\ agents' = new /\ UNCHANGED spent /\ Goto(r, "connect")
           \/ /\ Err /\ agents' \in {agents, new} /\ Done(r)
              /\ spent' = spent \union {q.enrollment}
    /\ UNCHANGED <<sources, enrollments, unfinished, slipped, tokenVars, settingVars>>

\* The source becomes connected, deleted or not; an error is ignored.
ConnectSource(r) ==
    /\ Step(r, "connect")
    /\ LET connected == [sources EXCEPT ![req[r].source].status = "CONNECTED"] IN
        \/ Ok /\ sources' = connected
        \/ Err /\ sources' \in {sources, connected}
    /\ Done(r)
    /\ UNCHANGED <<enrollments, agents, unfinished, slipped, spent, tokenVars, settingVars>>

\* FindAgentByTokenHash behind the agent endpoints and the ingestor, and what
\* handleAgentConfig then requires of the agent's source.
Authenticates(a) == agents[a].status = "active"
ConfigServed(a) == agents[a].source \in Listed /\ sources[agents[a].source].ebpf
-----------------------------------------------------------------------------
(* The ingest token *)

NewToken == started + 1

\* GetOrCreateAccountIngestToken, for the dashboard or in the background
\* after a signup: the token is read and answered, or created next.
GetIngestToken(r) ==
    /\ Start(r)
    /\ \/ token # 0 /\ shown' = shown \union {token} /\ UNCHANGED req
       \/ token = 0 /\ UNCHANGED shown /\ Become(r, [Idle EXCEPT !.pc = "create", !.id = NewToken])
    /\ UNCHANGED <<sourceVars, token, settingVars, faults>>

\* Mutant: no unique index, or an upsert.
TokenAlwaysFree == TRUE

TokenFree == token = 0

\* createAccountIngestToken: the index on account_id refuses a second token,
\* and the error is answered.
createAccountIngestToken(r) ==
    /\ Step(r, "create")
    /\ LET new == req[r].id IN
        \/ Ok /\ TokenFree /\ token' = new /\ shown' = shown \union {new}
        \/ Ok /\ ~TokenFree /\ UNCHANGED <<token, shown>>
        \/ Err /\ UNCHANGED <<token, shown>>
        \/ Err /\ TokenFree /\ token' = new /\ UNCHANGED shown
    /\ Done(r)
    /\ UNCHANGED <<sourceVars, settingVars>>

\* RotateAccountIngestToken is one upsert.
RotateIngestToken(r) ==
    /\ Start(r)
    /\ \/ Ok /\ token' = NewToken /\ shown' = {NewToken}
       \/ Err /\ UNCHANGED <<token, shown>>
       \/ Err /\ token' = NewToken /\ shown' = {}
    /\ UNCHANGED <<sourceVars, settingVars, req>>
-----------------------------------------------------------------------------
(* Traffic with the ingest token *)

\* handleAccountIngest with the current token: once a conversation of the
\* batch was accepted, a goroutine goes on with MarkIngestTrafficSeen.
AccountIngest(r) ==
    /\ Start(r) /\ token # 0
    /\ Become(r, [Idle EXCEPT !.pc = "mark"])
    /\ UNCHANGED <<sourceVars, tokenVars, settingVars, faults>>

\* Mutant: only promotes pending sources.
MarkablePending == {s \in Listed : sources[s].status = "PENDING"}

\* The sources MarkIngestTrafficSeen may mark.
Markable == Listed

\* Marks the latest source, or finds none.
MarkIngestTrafficSeen(r) ==
    /\ Step(r, "mark")
    /\ \/ /\ Ok /\ Markable = {} /\ UNCHANGED sources /\ Goto(r, "auto")
       \/ /\ (Ok \/ Err) /\ Done(r)
          /\ \E s \in Markable : /\ \A t \in Markable : t <= s
                                 /\ sources' = [sources EXCEPT ![s].status = "CONNECTED"]
       \/ /\ Err /\ UNCHANGED sources /\ Done(r)
    /\ UNCHANGED <<enrollments, agents, unfinished, slipped, spent, tokenVars, settingVars>>

InsertAutoSource(r) ==
    /\ Step(r, "auto")
    /\ \/ Ok /\ sources' = Append(sources, NewSource(TRUE, TRUE))
       \/ Err /\ sources' \in {sources, Append(sources, NewSource(TRUE, TRUE))}
    /\ Done(r)
    /\ UNCHANGED <<enrollments, agents, unfinished, slipped, spent, tokenVars, settingVars>>
-----------------------------------------------------------------------------
(* Security settings *)

Updating == {r \in Requests : req[r].change # NoChange}

\* handleGetSecuritySettings (no change) and handleUpdateSecuritySettings
\* begin with GetOrCreateAccountSettings.
ReadSettings(r, change) ==
    /\ Start(r)
    /\ overlapped' = (overlapped \/ (change # NoChange /\ Updating # {}))
    /\ LET q == [Idle EXCEPT !.change = change] IN
        \/ settings = {} /\ Become(r, [q EXCEPT !.pc = "default"])
        \/ /\ settings # {} /\ change # NoChange
           /\ \E d \in settings : Become(r, [q EXCEPT !.pc = "update", !.base = d])
    /\ UNCHANGED <<sourceVars, tokenVars, settings, asked, faults>>

\* An update goes on with the settings it read, a read is answered.
Loaded(r, d) == IF req[r].change = NoChange THEN Done(r)
                ELSE Become(r, [req[r] EXCEPT !.pc = "update", !.base = d])

\* Mutant: the defaults are written over a document.
InsertedDefaultAlways == {DefaultSettings}

\* Mutant: no unique index on account_id.
InsertedDefaultTwice == settings \union {DefaultSettings}

\* The index on account_id refuses a second document.
InsertedDefault == IF settings = {} THEN {DefaultSettings} ELSE settings

InsertDefaultSettings(r) ==
    /\ Step(r, "default")
    /\ \/ /\ Ok /\ settings' = InsertedDefault
          /\ IF settings = {} THEN Loaded(r, DefaultSettings) ELSE Goto(r, "reread")
       \/ Err /\ settings' \in {settings, InsertedDefault} /\ Done(r)
    /\ UNCHANGED <<sourceVars, tokenVars, asked, overlapped>>

RereadSettings(r) ==
    /\ Step(r, "reread") /\ \E d \in settings : Loaded(r, d)
    /\ UNCHANGED <<sourceVars, tokenVars, settingVars, faults>>

\* A field the request left out is written back as it was read.
Merge(base, change) ==
    [f \in DOMAIN base |-> IF change[f] = Same THEN base[f] ELSE change[f]]

UpdateAccountSettings(r) ==
    /\ Step(r, "update")
    /\ LET change == req[r].change IN
        \/ /\ Ok \/ Err
           /\ settings' = {Merge(req[r].base, change)}
           /\ asked' = Merge(asked, change)
        \/ Err /\ UNCHANGED <<settings, asked>>
    /\ Done(r)
    /\ UNCHANGED <<sourceVars, tokenVars, overlapped>>
-----------------------------------------------------------------------------
Deleting(r) == req[r].pc \in {"expire", "disable"}

\* The API server dies with its requests and goroutines.
Crash ==
    /\ \E r \in Requests : req[r] # Idle
    /\ Err /\ req' = [r \in Requests |-> Idle]
    /\ spent' = spent \union Registering
    /\ unfinished' = unfinished \union
                     {req[r].source : r \in {q \in Requests : Deleting(q)}}
    /\ UNCHANGED <<sources, enrollments, agents, slipped, tokenVars, settingVars, started>>

Next ==
    \/ \E r \in Requests :
        \/ \E ebpf \in BOOLEAN : CreateDataSource(r, ebpf)
        \/ \E s \in SourceIds : DeleteDataSource(r, s) \/ CreateAgentEnrollment(r, s)
        \/ ExpireEnrollments(r) \/ DisableAgents(r) \/ InsertEnrollment(r)
        \/ \E e \in DOMAIN enrollments : ClaimEnrollment(r, e)
        \/ InsertAgent(r) \/ ConnectSource(r)
        \/ GetIngestToken(r) \/ createAccountIngestToken(r) \/ RotateIngestToken(r)
        \/ AccountIngest(r) \/ MarkIngestTrafficSeen(r) \/ InsertAutoSource(r)
        \/ \E change \in Change : ReadSettings(r, change)
        \/ InsertDefaultSettings(r) \/ RereadSettings(r) \/ UpdateAccountSettings(r)
    \/ \E e \in DOMAIN enrollments : EnrollmentExpires(e)
    \/ Crash

Spec == Init /\ [][Next]_vars
-----------------------------------------------------------------------------

Request == [pc : {"idle", "expire", "disable", "enroll", "agent", "connect", "create",
                  "mark", "auto", "default", "reread", "update"},
            source : Nat, enrollment : Nat, id : Nat, base : Settings, change : Change]

TypeOK ==
    /\ sources \in Seq(Source) /\ enrollments \in Seq(Enrollment) /\ agents \in Seq(Agent)
    /\ token \in 0..MaxRequests /\ settings \subseteq Settings
    /\ Cardinality(settings) <= 1
    /\ req \in [Requests -> Request]
    /\ started \in 0..MaxRequests /\ faults \in 0..MaxFaults
    /\ shown \subseteq 1..MaxRequests /\ asked \in Settings /\ overlapped \in BOOLEAN
    /\ unfinished \subseteq SourceIds
    /\ slipped \union spent \subseteq Nat

\* An agent that authenticates also gets its configuration.  The exceptions
\* are exactly the agents of a source whose delete is under way or failed
\* halfway, and those whose registration passed the delete: claimed before
\* the enrollments were expired and inserted after the agents were disabled,
\* or enrolled by a request that had read the source before.  Repeating the
\* delete removes either.
ActiveAgentIsServed ==
    \A a \in DOMAIN agents :
        Authenticates(a) =>
            \/ ConfigServed(a)
            \/ agents[a].source \in unfinished
            \/ \E r \in Requests : Deleting(r) /\ req[r].source = agents[a].source
            \/ agents[a].enrollment \in slipped

\* A one-time enrollment yields at most one agent however many registrations
\* race for it, and is spent for nothing only when a call of the registration
\* failed or the server died between the claim and the insert.
EnrollmentYieldsOneAgent ==
    \A e \in DOMAIN enrollments :
        LET n == Cardinality({a \in DOMAIN agents : agents[a].enrollment = e})
        IN  /\ n <= 1 /\ (n = 1 => enrollments[e].status = "used")
            /\ (enrollments[e].status = "used" /\ e \notin spent \union Registering)
               => n = 1

\* MarkIngestTrafficSeen creates a source when it finds none, in two calls
\* and without a unique index: concurrent batches may create one each, but
\* once a source is listed no later batch adds another.
AutoSourcesBounded ==
    Cardinality({s \in Listed : sources[s].auto})
    + Cardinality({r \in Requests : req[r].pc = "auto"}) <= Cardinality(Requests)

\* The token on the dashboard is the one POST /ingest accepts until somebody
\* rotates it: neither the goroutine after a signup nor a second reader that
\* found none replaces a token already answered.
ShownTokenWorks == shown \subseteq {token}

\* Updates of the settings that do not overlap lose nothing, whatever reads
\* are creating the defaults at the same time: the document is what the
\* updates asked for.  Updates that do overlap write back stale fields.
SequentialUpdatesKept == overlapped \/ settings \subseteq {asked}
=============================================================================
