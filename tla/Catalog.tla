------------------------------ MODULE Catalog -------------------------------
(***************************************************************************)
(* The endpoint catalogue from traffic to scan: analyzers write endpoints  *)
(* and samples (TrafficInventory) while a suite request reads them and     *)
(* plans its jobs (ScanPlan).  handleTriggerSuite reads the endpoint and   *)
(* its latest sample in two calls, so that analyzers write in between.     *)
(*                                                                         *)
(* What happens to the jobs afterwards is ScanExecution's subject.  A      *)
(* request that is answered with an error before anything is planned       *)
(* changes nothing and is not a step; one that fails after some job was    *)
(* tried is.                                                               *)
(***************************************************************************)
EXTENDS TrafficInventory, ScanPlan

CONSTANTS
    SuiteRequests,  \* requests of the dashboard
    FailingTypes,   \* test types whose job may fail to be created
    Policy,         \* target policy of the deployment
    URLs            \* base URL -> what parsing and resolving it gives

\* The tokens of a request: none, one pasted from a redacted sample, or its own.
RequestToken ==
    [kind : {"jwt", "unsigned", "odd", "opaque"}, from : {"request"}] \union {NoToken, Marker}

ASSUME CatalogAssumption ==
    /\ IsFiniteSet(FailingTypes)
    /\ SuiteRequests # {}
    /\ SuiteRequests \subseteq [types : SUBSET STRING, suite : STRING, legacy : RequestToken,
                                contexts : [Roles -> RequestToken], method : STRING]
    /\ \A l \in DOMAIN Logs : /\ Logs[l].path \in Seq(Segment)
                             /\ Logs[l].fields \in Seq(CapturedField)

VARIABLE suite  \* the request under way, its target and what it answered

vars == <<inventoryVars, faults, suite>>

NoTarget == [fp |-> << >>, path |-> << >>, method |-> "", base |-> "", body |-> "",
             headers |-> << >>]
NoSuite == [pc |-> "idle", req |-> CHOOSE r \in SuiteRequests : TRUE, target |-> NoTarget,
            selected |-> {}, skipped |-> {}, reported |-> {}, jobs |-> {},
            lost |-> {}, misreported |-> {}]

Init == InventoryInit /\ suite = NoSuite

-----------------------------------------------------------------------------
\* What the endpoint's document says of it.
Target(fp) ==
    LET doc == inventory[fp]
    IN  [fp |-> fp, path |-> doc.path, method |-> fp[2], base |-> fp[3],
         body |-> Logs[doc.latest].body, headers |-> doc.headers]

\* The request is accepted for an endpoint whose base URL may be scanned.
TriggerSuite(req, fp) ==
    /\ suite.pc = "idle"
    /\ fp \in DOMAIN inventory
    /\ Target(fp).base # ""
    /\ ValidateTargetURL(Policy, URLs[Target(fp).base])
    /\ suite' = [NoSuite EXCEPT !.pc = "sample", !.req = req, !.target = Target(fp)]
    /\ UNCHANGED <<inventoryVars, faults>>

\* The newest samples of the endpoint by capture and creation time.
LatestSamples(fp) ==
    LET stored == {s \in samples : s.coll = "traffic_samples" /\ s.fp = fp}
    IN  {s \in stored : \A t \in stored :
            t.at < s.at \/ (t.at = s.at /\ t.created <= s.created)}

\* A sample holds an excerpt of the body: cut JSON is text.
sampleExcerpt(log) == IF log.large /\ log.body \in {"id", "plain"} THEN "text" ELSE log.body

ApplyTrafficSampleToInventory(target, l) ==
    LET log == Logs[l]
        body == sampleExcerpt(log)
        sent == \E name \in HeaderNames : ReqHeaders[l][name] # << >>
    IN  [target EXCEPT !.body = IF body = "" THEN @ ELSE body,
                       !.headers = IF sent THEN ReqHeaders[l] ELSE @,
                       !.path = IF log.path = << >> THEN @ ELSE log.path]

\* The latest sample replaces what the document says; without one, or when
\* it cannot be read, the document is used as it is.
ApplyLatestTrafficSample(outcome) ==
    /\ suite.pc = "sample"
    /\ outcome \in {"ok", "failed"}
    /\ Call(outcome)
    /\ LET latest == LatestSamples(suite.target.fp)
       IN  IF outcome = "ok" /\ latest # {}
           THEN \E s \in latest :
                    suite' = [suite EXCEPT !.pc = "plan",
                        !.target = ApplyTrafficSampleToInventory(@, s.log)]
           ELSE suite' = [suite EXCEPT !.pc = "plan"]
    /\ UNCHANGED inventoryVars

\* What the request selects of the test types, and what can be planned of that.
Chosen == selectSuiteTestTypes(suite.req, ApplicableTestTypes(suite.target, suite.req))
Planned == {t \in Chosen.selected : ~PlanFails(t, suite.target, suite.req)}

\* The selected test types are planned and their jobs created one by one; a
\* type that cannot be planned, or whose creation reports an error (lost), is
\* skipped, although the insert of some of these (misreported) was applied.
\* An empty selection is refused; with no job to report the answer is an
\* error without any list.
EnqueueSuiteJobs(lost, misreported) ==
    /\ suite.pc = "plan"
    /\ deliveries + faults + horizon + Cardinality(lost) <= MaxEvents
    /\ Chosen.selected # {}
    /\ lost \subseteq Planned /\ misreported \subseteq lost
    /\ faults' = faults + Cardinality(lost)
    /\ suite' = LET choice == Chosen
                    reported == Planned \ lost
                IN  [suite EXCEPT !.pc = IF reported = {} THEN "failed" ELSE "answered",
                        !.selected = choice.selected,
                        !.skipped = IF reported = {} THEN {}
                                    ELSE choice.skipped \union (choice.selected \ reported),
                        !.reported = reported,
                        !.jobs = {BuildScanConfig(t, suite.target, suite.req) :
                                     t \in reported \union misreported},
                        !.lost = lost,
                        !.misreported = misreported]
    /\ UNCHANGED inventoryVars

Next ==
    \/ InventoryNext /\ UNCHANGED suite
    \/ \E req \in SuiteRequests, fp \in DOMAIN inventory : TriggerSuite(req, fp)
    \/ \E outcome \in Outcomes : ApplyLatestTrafficSample(outcome)
    \/ \E lost \in SUBSET FailingTypes : \E misreported \in SUBSET lost :
           EnqueueSuiteJobs(lost, misreported)

Spec == Init /\ [][Next]_vars

-----------------------------------------------------------------------------
TypeOK ==
    /\ InventoryTypeOK
    /\ suite.pc \in {"idle", "sample", "plan", "answered", "failed"}
    /\ suite.req \in SuiteRequests
    /\ suite.selected \union suite.skipped \subseteq DOMAIN Registry

\* The credential the request offers for a role, if any.
Offered(req, role) ==
    LET own == req.contexts[role]
    IN  IF usableToken(own) THEN own
        ELSE IF role # "admin" /\ usableToken(req.legacy) THEN req.legacy ELSE NoToken

\* README: persisted samples are redacted.  From capture through endpoint and
\* sample to the plan, whatever is read and written in between: the token of a
\* job is one the request offered, for BOLA and parameter pollution the
\* attacker's, never one seen in traffic; and each header a job replays is a
\* marker if isSensitiveHeader knows it, and holds no secret redact.Text knows
\* otherwise (redact.Headers, applyLatestTrafficSample, flattenHeaders,
\* resolveAuthTokenFromContexts).  Not promised, and false of the code: that no
\* captured credential is replayed; a session id in a header of another name is
\* stored and replayed as it was captured.
JobsUseOfferedTokens ==
    \A job \in suite.jobs :
        /\ job.token.from \in {"", "request"}
        /\ \A name \in DOMAIN job.headers : Redacted(job.headers[name])
        /\ job.type \in {"BOLA", "BOLA_PARAMETER_POLLUTION"} =>
               job.token = Offered(suite.req, "attacker")

\* The applicable test types for which no plan can exist: a JWT test without
\* a victim's token it can forge, and parameter pollution of a body without
\* an identifier.
Unplannable(type) ==
    LET victim == Offered(suite.req, "victim")
    IN  \/ type = "JWT_NONE_ALGO" /\ victim.kind \notin {"jwt", "unsigned"}
        \/ type = "JWT_INVALID_SIGNATURE" /\ victim.kind \notin {"jwt", "odd"}
        \/ type = "BOLA_PARAMETER_POLLUTION" /\ suite.target.body # "id"

\* The registered test types a suite request asks for; those of them that
\* apply and that a plan can exist for; and those that have a job.
Asked ==
    LET req == suite.req
    IN  CASE req.types # {} -> req.types \intersect DOMAIN Registry
          [] req.types = {} /\ req.suite \in {"", "FULL"} ->
                ApplicableTestTypes(suite.target, req)
          [] OTHER -> SuitePresets[req.suite]
Possible ==
    {t \in Asked \intersect ApplicableTestTypes(suite.target, suite.req) : ~Unplannable(t)}
Queued == {job.type : job \in suite.jobs}

\* What a suite request leaves behind and what it says of it, although
\* analyzers rewrite the endpoint while it is planned (handleTriggerSuite).
\* Of the registered test types asked for, exactly those that apply and that
\* a plan can exist for have a job, without those whose insert was not
\* applied.  An answer reports these jobs but those whose creation reported an
\* error, and skips every other type asked for: a type it skips has a job only
\* if the insert was applied although it reported an error.  The request fails
\* only if every creation reported an error; its caller learns of no job then.
SuiteIsAccounted ==
    suite.pc \in {"answered", "failed"} =>
        /\ Queued = Possible \ (suite.lost \ suite.misreported)
        /\ suite.reported = Possible \ suite.lost
        /\ suite.skipped = IF suite.pc = "answered" THEN Asked \ suite.reported ELSE {}
        /\ suite.skipped \intersect Queued
               = IF suite.pc = "answered" THEN suite.misreported ELSE {}
        /\ suite.pc = "failed" <=> Possible \subseteq suite.lost

SampleStore == INSTANCE SampleStore WITH Limit <- EndpointSampleLimit

\* Analyzers that list the excess in one call and delete it in another, while
\* others insert and delete, keep the samples as SampleStore does at once
\* (saveTrafficSample, saveSensitiveSample, pruneEndpointSamples).
RefinesSampleStore == SampleStore!Spec
=============================================================================
