-------------------------- MODULE AgentAccessProofs --------------------------
(***************************************************************************)
(* Theorems about AgentAccess for every number of requests, every set of   *)
(* setting values and every number of faults.                              *)
(*                                                                         *)
(* RequestInv and EnrollmentInv carry the registration of agents and       *)
(* DeleteInv the three updates that delete a source; SettingsInv and       *)
(* ShownTokenWorks stand for themselves.                                   *)
(***************************************************************************)
EXTENDS AgentAccess, SequenceTheorems, FiniteSetTheorems, TLAPS

\* What a request holds between two calls: the source it deletes, the source it
\* enrolls for, the enrollment it has claimed and nobody else has, and a token
\* that is not out of range.
Holds(r) ==
    /\ Deleting(r) => req[r].source \in SourceIds /\ sources[req[r].source].deleted
    /\ req[r].pc = "enroll" => req[r].source \in SourceIds /\ sources[req[r].source].ebpf
    /\ req[r].pc = "connect" => req[r].source \in SourceIds
    /\ req[r].pc = "create" => req[r].id \in 1..MaxRequests
    /\ req[r].pc = "agent" =>
         /\ req[r].enrollment \in DOMAIN enrollments
         /\ enrollments[req[r].enrollment].status = "used"
         /\ req[r].source = enrollments[req[r].enrollment].source
         /\ \A a \in DOMAIN agents : agents[a].enrollment # req[r].enrollment
RequestInv ==
    /\ \A r \in Requests : Holds(r)
    /\ \A q, r \in Requests :
         req[q].pc = "agent" /\ req[r].pc = "agent" /\ req[q].enrollment = req[r].enrollment
         => q = r

\* Enrollments are for eBPF sources, a used one led to an agent unless something
\* went wrong, and no two agents share one.
EnrollmentInv ==
    /\ \A e \in DOMAIN enrollments :
         /\ enrollments[e].source \in SourceIds /\ sources[enrollments[e].source].ebpf
         /\ enrollments[e].status = "used" /\ e \notin spent \union Registering
            => \E a \in DOMAIN agents : agents[a].enrollment = e
    /\ \A a \in DOMAIN agents :
         /\ agents[a].enrollment \in DOMAIN enrollments
         /\ enrollments[agents[a].enrollment].status = "used"
         /\ agents[a].source = enrollments[agents[a].enrollment].source
    /\ \A a, b \in DOMAIN agents : agents[a].enrollment = agents[b].enrollment => a = b

\* Once a source is deleted and its delete has come to an end, the enrollments that
\* lead to an active agent of it, or still may, are those that slipped through.  After
\* its second update the open ones are.
Settled(s) ==
    /\ sources[s].deleted /\ s \notin unfinished
    /\ \A r \in Requests : ~(Deleting(r) /\ req[r].source = s)
Alive(e) ==
    \/ enrollments[e].status = "open"
    \/ e \in Registering
    \/ \E a \in DOMAIN agents : agents[a].enrollment = e /\ agents[a].status = "active"
DeleteInv ==
    /\ \A s \in SourceIds, e \in DOMAIN enrollments :
         Settled(s) /\ enrollments[e].source = s /\ Alive(e) => e \in slipped
    /\ \A r \in Requests, e \in DOMAIN enrollments :
         /\ req[r].pc = "disable" /\ enrollments[e].status = "open"
         /\ req[r].source = enrollments[e].source
         => e \in slipped

\* As long as no two updates overlapped, the document is what they asked for and so
\* is what the one that is under way has read.
SettingsInv ==
    overlapped \/
      /\ settings \subseteq {asked} /\ (settings = {} => asked = DefaultSettings)
      /\ \A r \in Requests : req[r].pc = "update" => req[r].base = asked /\ r \in Updating
      /\ \A q, r \in Updating : q = r

\* The conjunction that every step preserves.
AgentAccessInv ==
    /\ TypeOK /\ RequestInv /\ EnrollmentInv /\ DeleteInv /\ SettingsInv
    /\ ShownTokenWorks
-----------------------------------------------------------------------------
(* Sequences as collections with numbered members *)

\* A function on the domain of a sequence is a sequence of that length.
LEMMA SameDomain ==
  ASSUME NEW S, NEW T, NEW s \in Seq(S), NEW f \in [DOMAIN s -> T]
  PROVE  f \in Seq(T) /\ DOMAIN f = DOMAIN s /\ Len(f) = Len(s)
<1>1. Len(s) \in Nat /\ DOMAIN s = 1..Len(s)
  BY LenProperties
<1>2. f \in [1..Len(s) -> T] /\ DOMAIN f = DOMAIN s
  BY <1>1
<1>3. f \in Seq(T)
  BY <1>1, <1>2, SeqDef
<1>4. Len(f) = Len(s)
  BY <1>1, <1>2, <1>3, LenProperties
<1> QED
  BY <1>2, <1>3, <1>4

\* The next member of a sequence has a number no other member has.
LEMMA NextMember ==
  ASSUME NEW S, NEW s \in Seq(S), NEW x \in S
  PROVE  /\ Append(s, x) \in Seq(S)
         /\ DOMAIN Append(s, x) = DOMAIN s \union {Len(s) + 1}
         /\ Len(s) + 1 \notin DOMAIN s /\ Len(s) + 1 \in Nat \ {0}
         /\ Len(Append(s, x)) = Len(s) + 1
         /\ \A i \in DOMAIN s : Append(s, x)[i] = s[i]
         /\ Append(s, x)[Len(s) + 1] = x
<1>1. Len(s) \in Nat /\ DOMAIN s = 1..Len(s)
  BY LenProperties
<1>2. /\ Append(s, x) \in Seq(S) /\ Len(Append(s, x)) = Len(s) + 1
      /\ \A i \in 1..Len(s) : Append(s, x)[i] = s[i]
      /\ Append(s, x)[Len(s) + 1] = x
  BY AppendProperties
<1>3. DOMAIN Append(s, x) = 1..(Len(s) + 1)
  BY <1>2, LenProperties
<1> QED
  BY <1>1, <1>2, <1>3

\* The members of a sequence are numbered from one.
LEMMA MemberNumbers ==
  ASSUME NEW S, NEW s \in Seq(S)
  PROVE  /\ DOMAIN s \subseteq Nat \ {0} /\ DOMAIN s = 1..Len(s)
         /\ \A i \in DOMAIN s : s[i] \in S
  BY LenProperties, ElementOfSeq

-----------------------------------------------------------------------------
(* Types *)

\* Each call succeeds or counts as a fault.
LEMMA OkOrErr ==
  ASSUME [Next]_vars
  PROVE  Ok \/ Err
<1> USE DEF Ok
<1> DEFINE Effect ==
      Ok \/ Err
           Keeps == Ok \/ Err
<1>1. ASSUME NEW r \in Requests, NEW ebpf \in BOOLEAN, CreateDataSource(r, ebpf)
     PROVE  Keeps
  BY <1>1 DEF sourceVars, tokenVars, settingVars, CreateDataSource, Start
<1>2. ASSUME NEW r \in Requests, NEW s \in SourceIds,
       \/ DeleteDataSource(r, s) \/ CreateAgentEnrollment(r, s)
     PROVE  Keeps
  BY <1>2 DEF sourceVars, tokenVars, settingVars, DeleteDataSource, Start,
     CreateAgentEnrollment
<1>3. ASSUME NEW r \in Requests,
       \/ ExpireEnrollments(r) \/ DisableAgents(r) \/ InsertEnrollment(r)
       \/ InsertAgent(r) \/ ConnectSource(r) \/ GetIngestToken(r)
     PROVE  Keeps
  BY <1>3 DEF sourceVars, tokenVars, settingVars, ExpireEnrollments, Step,
     DisableAgents, InsertEnrollment, InsertAgent, ConnectSource, GetIngestToken,
     Start
<1>4. ASSUME NEW r \in Requests,
       \/ createAccountIngestToken(r) \/ RotateIngestToken(r) \/ AccountIngest(r)
       \/ MarkIngestTrafficSeen(r) \/ InsertAutoSource(r)
       \/ InsertDefaultSettings(r)
     PROVE  Keeps
  BY <1>4 DEF sourceVars, tokenVars, settingVars, createAccountIngestToken, Step,
     RotateIngestToken, Start, AccountIngest, MarkIngestTrafficSeen,
     InsertAutoSource, InsertDefaultSettings
<1>5. ASSUME NEW r \in Requests,
       \/ RereadSettings(r) \/ UpdateAccountSettings(r)
     PROVE  Keeps
  BY <1>5 DEF sourceVars, tokenVars, settingVars, RereadSettings, Step,
     UpdateAccountSettings
<1>6. ASSUME NEW r \in Requests, NEW e \in DOMAIN enrollments, ClaimEnrollment(r, e)
     PROVE  Keeps
  BY <1>6 DEF sourceVars, tokenVars, settingVars, ClaimEnrollment, Start
<1>7. ASSUME NEW r \in Requests, NEW change \in Change, ReadSettings(r, change)
     PROVE  Keeps
  BY <1>7 DEF sourceVars, tokenVars, settingVars, ReadSettings, Start
<1>8. ASSUME NEW e \in DOMAIN enrollments, EnrollmentExpires(e)
     PROVE  Keeps
  BY <1>8 DEF sourceVars, tokenVars, settingVars, EnrollmentExpires
<1>9. ASSUME Crash
     PROVE  Keeps
  BY <1>9 DEF sourceVars, tokenVars, settingVars, Crash
<1>10. ASSUME UNCHANGED vars PROVE Keeps
  BY <1>10 DEF vars, sourceVars, tokenVars, settingVars
<1>11. ASSUME Keeps PROVE Effect
  BY <1>11
<1> HIDE DEF Effect, Keeps
<1>q. Effect
  BY <1>1, <1>2, <1>3, <1>4, <1>5, <1>6, <1>7, <1>8, <1>9, <1>10, <1>11 DEF Next
<1> QED
  BY <1>q DEF Effect

\* Sources and enrollments have numbers, and enrollments refer to one.
LEMMA Numbers ==
  ASSUME TypeOK
  PROVE  /\ SourceIds \subseteq Nat /\ DOMAIN enrollments \subseteq Nat
         /\ \A e \in DOMAIN enrollments : enrollments[e] \in Enrollment
         /\ \A e \in DOMAIN enrollments : enrollments[e].source \in Nat
<1>1. sources \in Seq(Source) /\ enrollments \in Seq(Enrollment)
  BY DEF TypeOK
<1>2. SourceIds \subseteq Nat /\ DOMAIN enrollments \subseteq Nat
  BY <1>1, MemberNumbers DEF SourceIds
<1>3. \A e \in DOMAIN enrollments : enrollments[e] \in Enrollment
  BY <1>1, MemberNumbers
<1> QED
  BY <1>2, <1>3 DEF Enrollment

\* The local variables of a request, and what changing one of them gives.
Local(p, s, e, i, b, c) ==
    [pc |-> p, source |-> s, enrollment |-> e, id |-> i, base |-> b, change |-> c]

LEMMA LocalIdle == Idle = Local("idle", 0, 0, 0, DefaultSettings, NoChange)
  BY DEF Idle, Local
LEMMA LocalPc ==
  ASSUME NEW p, NEW s, NEW e, NEW i, NEW b, NEW c, NEW x,
         NEW l, l = Local(p, s, e, i, b, c)
  PROVE  [l EXCEPT !.pc = x] = Local(x, s, e, i, b, c)
  BY DEF Local
LEMMA LocalSource ==
  ASSUME NEW p, NEW s, NEW e, NEW i, NEW b, NEW c, NEW x,
         NEW l, l = Local(p, s, e, i, b, c)
  PROVE  [l EXCEPT !.source = x] = Local(p, x, e, i, b, c)
  BY DEF Local
LEMMA LocalBase ==
  ASSUME NEW p, NEW s, NEW e, NEW i, NEW b, NEW c, NEW x,
         NEW l, l = Local(p, s, e, i, b, c)
  PROVE  [l EXCEPT !.base = x] = Local(p, s, e, i, x, c)
  BY DEF Local
LEMMA LocalChange ==
  ASSUME NEW p, NEW s, NEW e, NEW i, NEW b, NEW c, NEW x,
         NEW l, l = Local(p, s, e, i, b, c)
  PROVE  [l EXCEPT !.change = x] = Local(p, s, e, i, b, x)
  BY DEF Local

\* How a step leaves the request r that makes it: with other local variables, at
\* another call, or over.
Becomes(r, p, s, e, i, b, c) ==
    req' = [req EXCEPT ![r] = Local(p, s, e, i, b, c)]
Enters(r, p, s, e) == Becomes(r, p, s, e, 0, DefaultSettings, NoChange)
Ends(r) == Enters(r, "idle", 0, 0)

\* An update goes on with the settings d.
Loads(r, d) == req' = [req EXCEPT ![r] = [req[r] EXCEPT !.pc = "update", !.base = d]]

\* Creating a source is one call.
LEMMA CreateDataSourceMove ==
  ASSUME NEW r \in Requests, NEW ebpf \in BOOLEAN, CreateDataSource(r, ebpf)
  PROVE  /\ req[r] = Idle
         /\ UNCHANGED req
  BY DEF CreateDataSource, Start, Becomes, Enters, Ends, Local

\* A delete goes on to the enrollments, or fails.
LEMMA DeleteDataSourceMove ==
  ASSUME NEW r \in Requests, NEW s \in SourceIds, DeleteDataSource(r, s)
  PROVE  /\ req[r] = Idle
         /\ UNCHANGED req \/ Enters(r, "expire", s, 0)
  BY DEF DeleteDataSource, Start, Continue, NextUpdate, Become, Idle, Becomes,
     Enters, Ends, Local

\* An enrollment remembers the source it has read.
LEMMA CreateAgentEnrollmentMove ==
  ASSUME NEW r \in Requests, NEW s \in SourceIds, CreateAgentEnrollment(r, s)
  PROVE  /\ req[r] = Idle
         /\ Enters(r, "enroll", s, 0)
<1> DEFINE l == [Idle EXCEPT !.pc = "enroll"]
<1>1. req[r] = Idle
  BY DEF CreateAgentEnrollment, Start
<1>2. l = Local("enroll", 0, 0, 0, DefaultSettings, NoChange)
  BY LocalIdle, LocalPc
<1> HIDE DEF l
<1>3. [l EXCEPT !.source = s] = Local("enroll", s, 0, 0, DefaultSettings, NoChange)
  BY <1>2, LocalSource
<1>4. Become(r, [l EXCEPT !.source = s])
  BY DEF CreateAgentEnrollment, l
<1> QED
  BY <1>1, <1>3, <1>4 DEF Become, Becomes, Enters

\* The delete of a source goes on to its agents, or fails.
LEMMA ExpireEnrollmentsMove ==
  ASSUME NEW r \in Requests, ExpireEnrollments(r)
  PROVE  /\ req[r].pc = "expire"
         /\ Enters(r, "disable", req[r].source, 0) \/ Ends(r)
  BY DEF ExpireEnrollments, Step, Continue, NextUpdate, Done, Become, Idle,
     Becomes, Enters, Ends, Local

\* The delete of a source is over.
LEMMA DisableAgentsMove ==
  ASSUME NEW r \in Requests, DisableAgents(r)
  PROVE  /\ req[r].pc = "disable"
         /\ Ends(r)
  BY DEF DisableAgents, Step, Continue, NextUpdate, Done, Become, Idle, Becomes,
     Enters, Ends, Local

\* An enrollment is over after its insert.
LEMMA InsertEnrollmentMove ==
  ASSUME NEW r \in Requests, InsertEnrollment(r)
  PROVE  /\ req[r].pc = "enroll"
         /\ Ends(r)
  BY DEF InsertEnrollment, Step, Done, Become, Idle, Becomes, Enters, Ends, Local

\* A registration that claimed an enrollment goes on with it.
LEMMA ClaimEnrollmentMove ==
  ASSUME NEW r \in Requests, NEW e \in DOMAIN enrollments, ClaimEnrollment(r, e)
  PROVE  /\ req[r] = Idle
         /\ UNCHANGED req \/ Enters(r, "agent", enrollments[e].source, e)
  BY DEF ClaimEnrollment, Start, Become, Idle, Claimable, Becomes, Enters, Ends,
     Local

\* A registration goes on to its source, or fails.
LEMMA InsertAgentMove ==
  ASSUME NEW r \in Requests, InsertAgent(r)
  PROVE  /\ req[r].pc = "agent"
         /\ Goto(r, "connect") \/ Ends(r)
  BY DEF InsertAgent, Step, Done, Become, Idle, Becomes, Enters, Ends, Local

\* A registration is over.
LEMMA ConnectSourceMove ==
  ASSUME NEW r \in Requests, ConnectSource(r)
  PROVE  /\ req[r].pc = "connect"
         /\ Ends(r)
  BY DEF ConnectSource, Step, Done, Become, Idle, Becomes, Enters, Ends, Local

\* A read of the token answers it, or goes on to create one.
LEMMA GetIngestTokenMove ==
  ASSUME NEW r \in Requests, GetIngestToken(r)
  PROVE  /\ req[r] = Idle
         /\ UNCHANGED req \/ Becomes(r, "create", 0, 0, started + 1, DefaultSettings, NoChange)
  BY DEF GetIngestToken, Start, Become, Idle, NewToken, Becomes, Enters, Ends,
     Local

\* The creation of a token is one call.
LEMMA createAccountIngestTokenMove ==
  ASSUME NEW r \in Requests, createAccountIngestToken(r)
  PROVE  /\ req[r].pc = "create"
         /\ Ends(r)
  BY DEF createAccountIngestToken, Step, Done, Become, Idle, TokenFree, Becomes,
     Enters, Ends, Local

\* A rotation is one call.
LEMMA RotateIngestTokenMove ==
  ASSUME NEW r \in Requests, RotateIngestToken(r)
  PROVE  /\ req[r] = Idle
         /\ UNCHANGED req
  BY DEF RotateIngestToken, Start, NewToken, Becomes, Enters, Ends, Local

\* Accepted traffic goes on to mark a source.
LEMMA AccountIngestMove ==
  ASSUME NEW r \in Requests, AccountIngest(r)
  PROVE  /\ req[r] = Idle
         /\ Enters(r, "mark", 0, 0)
<1>1. req[r] = Idle
  BY DEF AccountIngest, Start
<1>2. [Idle EXCEPT !.pc = "mark"] = Local("mark", 0, 0, 0, DefaultSettings, NoChange)
  BY LocalIdle, LocalPc
<1>3. Become(r, [Idle EXCEPT !.pc = "mark"])
  BY DEF AccountIngest
<1> QED
  BY <1>1, <1>2, <1>3 DEF Become, Becomes, Enters

\* Where no source is listed one is inserted next.
LEMMA MarkIngestTrafficSeenMove ==
  ASSUME NEW r \in Requests, MarkIngestTrafficSeen(r)
  PROVE  /\ req[r].pc = "mark"
         /\ Goto(r, "auto") \/ Ends(r)
  BY DEF MarkIngestTrafficSeen, Step, Done, Become, Idle, Becomes, Enters, Ends,
     Local

\* The insert of a source is the last call.
LEMMA InsertAutoSourceMove ==
  ASSUME NEW r \in Requests, InsertAutoSource(r)
  PROVE  /\ req[r].pc = "auto"
         /\ Ends(r)
  BY DEF InsertAutoSource, Step, Done, Become, Idle, Becomes, Enters, Ends, Local

\* A request for the settings found them, or goes on to the defaults.
LEMMA ReadSettingsMove ==
  ASSUME NEW r \in Requests, NEW change \in Change, ReadSettings(r, change)
  PROVE  /\ req[r] = Idle
         /\ \E d \in settings \union {DefaultSettings} :
              \/ Becomes(r, "default", 0, 0, 0, DefaultSettings, change)
              \/ /\ d \in settings /\ change # NoChange
                 /\ Becomes(r, "update", 0, 0, 0, d, change)
<1> DEFINE q == [Idle EXCEPT !.change = change]
           u == [q EXCEPT !.pc = "update"]
<1>1. req[r] = Idle
  BY DEF ReadSettings, Start
<1>2. q = Local("idle", 0, 0, 0, DefaultSettings, change)
  BY LocalIdle, LocalChange
<1>3. \/ Become(r, [q EXCEPT !.pc = "default"])
      \/ \E d \in settings : change # NoChange /\ Become(r, [u EXCEPT !.base = d])
  BY DEF ReadSettings
<1> HIDE DEF q
<1>4. u = Local("update", 0, 0, 0, DefaultSettings, change)
  BY <1>2, LocalPc
<1>5. [q EXCEPT !.pc = "default"] = Local("default", 0, 0, 0, DefaultSettings, change)
  BY <1>2, LocalPc
<1> HIDE DEF u
<1>6. \A d : [u EXCEPT !.base = d] = Local("update", 0, 0, 0, d, change)
  BY <1>4, LocalBase
<1>7. \/ Becomes(r, "default", 0, 0, 0, DefaultSettings, change)
      \/ \E d \in settings : /\ change # NoChange
                             /\ Becomes(r, "update", 0, 0, 0, d, change)
  BY <1>3, <1>5, <1>6 DEF Become, Becomes
<1> QED
  BY <1>1, <1>7

\* Settings that were there already are read again.
LEMMA InsertDefaultSettingsMove ==
  ASSUME NEW r \in Requests, InsertDefaultSettings(r)
  PROVE  /\ req[r].pc = "default"
         /\ \/ Goto(r, "reread") \/ Ends(r)
            \/ Loads(r, DefaultSettings) /\ settings = {} /\ req[r].change # NoChange
  BY DEF InsertDefaultSettings, Step, Done, Become, Idle, Loaded, Becomes, Enters,
     Ends, Local, Loads

\* A read of the settings is answered, an update goes on.
LEMMA RereadSettingsMove ==
  ASSUME NEW r \in Requests, RereadSettings(r)
  PROVE  /\ req[r].pc = "reread"
         /\ \/ Ends(r)
            \/ \E d \in settings : Loads(r, d) /\ req[r].change # NoChange
  BY DEF RereadSettings, Step, Done, Become, Idle, Loaded, Becomes, Enters, Ends,
     Local, Loads

\* An update is the last call.
LEMMA UpdateAccountSettingsMove ==
  ASSUME NEW r \in Requests, UpdateAccountSettings(r)
  PROVE  /\ req[r].pc = "update"
         /\ Ends(r)
  BY DEF UpdateAccountSettings, Step, Done, Become, Idle, Becomes, Enters, Ends,
     Local

\* What a move of r leaves in the local variables of all requests.
At(r, p, s, e) ==
    /\ \A q \in Requests \ {r} : req'[q] = req[q]
    /\ req'[r].pc = p /\ req'[r].source = s /\ req'[r].enrollment = e

LEMMA BecomesAt ==
  ASSUME TypeOK, NEW r \in Requests, NEW p, NEW s, NEW e, NEW i, NEW b, NEW c,
         Becomes(r, p, s, e, i, b, c)
  PROVE  At(r, p, s, e) /\ req'[r].id = i /\ req'[r].base = b /\ req'[r].change = c
  BY DEF TypeOK, Becomes, Local, At

LEMMA EntersAt ==
  ASSUME TypeOK, NEW r \in Requests, NEW p, NEW s, NEW e, Enters(r, p, s, e)
  PROVE  /\ At(r, p, s, e)
         /\ req'[r].base = DefaultSettings /\ req'[r].change = NoChange
  BY BecomesAt DEF Enters

LEMMA EndsAt ==
  ASSUME TypeOK, NEW r \in Requests, Ends(r)
  PROVE  At(r, "idle", 0, 0) /\ req'[r].change = NoChange
  BY EntersAt DEF Ends

LEMMA GotoAt ==
  ASSUME TypeOK, NEW r \in Requests, NEW p, Goto(r, p)
  PROVE  /\ At(r, p, req[r].source, req[r].enrollment)
         /\ req'[r].base = req[r].base /\ req'[r].change = req[r].change
<1>1. req' = [req EXCEPT ![r] = [req[r] EXCEPT !.pc = p]] /\ req[r] \in Request
  BY DEF TypeOK, Goto, Become
<1>2. req'[r] = [req[r] EXCEPT !.pc = p] /\ \A q \in Requests \ {r} : req'[q] = req[q]
  BY <1>1 DEF TypeOK
<1> QED
  BY <1>1, <1>2 DEF At, Request

LEMMA LoadsAt ==
  ASSUME TypeOK, NEW r \in Requests, NEW d, Loads(r, d)
  PROVE  /\ At(r, "update", req[r].source, req[r].enrollment)
         /\ req'[r].base = d /\ req'[r].change = req[r].change
<1> DEFINE u == [req[r] EXCEPT !.pc = "update"]
<1>1. req[r] \in Request
  BY DEF TypeOK
<1>2. /\ req' = [req EXCEPT ![r] = [u EXCEPT !.base = d]]
      /\ u \in Request /\ u.pc = "update" /\ u.change = req[r].change
      /\ u.source = req[r].source /\ u.enrollment = req[r].enrollment
  BY <1>1 DEF Loads, Request
<1> HIDE DEF u
<1>3. req'[r] = [u EXCEPT !.base = d] /\ \A q \in Requests \ {r} : req'[q] = req[q]
  BY <1>2 DEF TypeOK
<1> QED
  BY <1>2, <1>3 DEF At, Request

\* A request at rest has nothing in hand.
LEMMA IdleFields ==
  /\ Idle.pc = "idle" /\ Idle.source = 0 /\ Idle.enrollment = 0
  /\ Idle.change = NoChange /\ Idle.base = DefaultSettings
  BY DEF Idle

\* Local variables within their types.
LEMMA LocalType ==
  ASSUME NEW s \in Nat, NEW e \in Nat, NEW i \in Nat, NEW b \in Settings, NEW c \in Change,
         NEW p \in {"idle", "expire", "disable", "enroll", "agent", "connect", "create",
                    "mark", "auto", "default", "reread", "update"}
  PROVE  Local(p, s, e, i, b, c) \in Request
  BY DEF Local, Request

LEMMA Defaults == DefaultSettings \in Settings /\ NoChange \in Change /\ Idle \in Request
<1>1. DefaultSettings \in Settings /\ NoChange \in Change
  BY AgentAccessAssumption DEF DefaultSettings, NoChange, Settings, Change
<1> QED
  BY <1>1, LocalIdle, LocalType

\* The moves keep requests in their types.
LEMMA BecomesType ==
  ASSUME TypeOK, NEW r \in Requests, NEW s \in Nat, NEW e \in Nat, NEW i \in Nat,
         NEW b \in Settings, NEW c \in Change,
         NEW p \in {"idle", "expire", "disable", "enroll", "agent", "connect", "create",
                    "mark", "auto", "default", "reread", "update"},
         Becomes(r, p, s, e, i, b, c)
  PROVE  req' \in [Requests -> Request]
<1> DEFINE x == Local(p, s, e, i, b, c)
<1>1. x \in Request
  BY LocalType
<1> HIDE DEF x
<1> QED
  BY <1>1 DEF Becomes, x, TypeOK

LEMMA EntersType ==
  ASSUME TypeOK, NEW r \in Requests, NEW s \in Nat, NEW e \in Nat,
         NEW p \in {"idle", "expire", "disable", "enroll", "agent", "connect", "create",
                    "mark", "auto", "default", "reread", "update"},
         Enters(r, p, s, e)
  PROVE  req' \in [Requests -> Request]
  BY BecomesType, Defaults DEF Enters

LEMMA EndsType ==
  ASSUME TypeOK, NEW r \in Requests, Ends(r)
  PROVE  req' \in [Requests -> Request]
  BY EntersType DEF Ends

LEMMA GotoType ==
  ASSUME TypeOK, NEW r \in Requests, NEW p \in {"connect", "auto", "reread"}, Goto(r, p)
  PROVE  req' \in [Requests -> Request]
<1> DEFINE x == [req[r] EXCEPT !.pc = p]
<1>1. x \in Request
  BY DEF TypeOK, Request
<1> HIDE DEF x
<1> QED
  BY <1>1 DEF Goto, Become, x, TypeOK

LEMMA LoadsType ==
  ASSUME TypeOK, NEW r \in Requests, NEW d \in Settings, Loads(r, d)
  PROVE  req' \in [Requests -> Request]
<1> DEFINE u == [req[r] EXCEPT !.pc = "update"]
           x == [u EXCEPT !.base = d]
<1>1. u \in Request
  BY DEF TypeOK, Request
<1>2. req' = [req EXCEPT ![r] = x]
  BY DEF Loads
<1> HIDE DEF u
<1>3. x \in Request
  BY <1>1 DEF Request
<1> HIDE DEF x
<1> QED
  BY <1>2, <1>3 DEF TypeOK

\* Requests keep their types.
LEMMA RequestTypes ==
  ASSUME TypeOK, [Next]_vars
  PROVE  req' \in [Requests -> Request]
<1> USE AgentAccessAssumption DEF TypeOK
<1> DEFINE Effect ==
      req' \in [Requests -> Request]
           Keeps == req' = req
<1>1. ASSUME NEW r \in Requests, NEW s \in SourceIds, DeleteDataSource(r, s)
      PROVE  Effect
  BY <1>1, DeleteDataSourceMove, EntersType, Numbers
<1>2. ASSUME NEW r \in Requests, NEW s \in SourceIds, CreateAgentEnrollment(r, s)
      PROVE  Effect
  BY <1>2, CreateAgentEnrollmentMove, EntersType, Numbers
<1>3. ASSUME NEW r \in Requests, ExpireEnrollments(r) PROVE Effect
  <2>1. req[r].source \in Nat
    BY DEF Request
  <2> QED
    BY <1>3, <2>1, ExpireEnrollmentsMove, EntersType, EndsType
<1>4. ASSUME NEW r \in Requests, DisableAgents(r) PROVE Effect
  BY <1>4, DisableAgentsMove, EndsType
<1>5. ASSUME NEW r \in Requests, InsertEnrollment(r) PROVE Effect
  BY <1>5, InsertEnrollmentMove, EndsType
<1>6. ASSUME NEW r \in Requests, NEW e \in DOMAIN enrollments, ClaimEnrollment(r, e)
      PROVE  Effect
  BY <1>6, ClaimEnrollmentMove, EntersType, Numbers
<1>7. ASSUME NEW r \in Requests, InsertAgent(r) PROVE Effect
  BY <1>7, InsertAgentMove, GotoType, EndsType
<1>8. ASSUME NEW r \in Requests, ConnectSource(r) PROVE Effect
  BY <1>8, ConnectSourceMove, EndsType
<1>9. ASSUME NEW r \in Requests, GetIngestToken(r) PROVE Effect
  <2>1. started + 1 \in Nat
    OBVIOUS
  <2> QED
    BY <1>9, <2>1, GetIngestTokenMove, Defaults, BecomesType
<1>10. ASSUME NEW r \in Requests, createAccountIngestToken(r) PROVE Effect
  BY <1>10, createAccountIngestTokenMove, EndsType
<1>11. ASSUME NEW r \in Requests, AccountIngest(r) PROVE Effect
  BY <1>11, AccountIngestMove, EntersType, Numbers
<1>12. ASSUME NEW r \in Requests, MarkIngestTrafficSeen(r) PROVE Effect
  BY <1>12, MarkIngestTrafficSeenMove, GotoType, EndsType
<1>13. ASSUME NEW r \in Requests, InsertAutoSource(r) PROVE Effect
  BY <1>13, InsertAutoSourceMove, EndsType
<1>14. ASSUME NEW r \in Requests, NEW change \in Change, ReadSettings(r, change)
      PROVE  Effect
  <2>1. PICK d \in settings \union {DefaultSettings} :
          \/ Becomes(r, "default", 0, 0, 0, DefaultSettings, change)
          \/ Becomes(r, "update", 0, 0, 0, d, change)
    BY <1>14, ReadSettingsMove
  <2>2. d \in Settings
    BY Defaults
  <2> QED
    BY <2>1, <2>2, Defaults, BecomesType
<1>15. ASSUME NEW r \in Requests, InsertDefaultSettings(r) PROVE Effect
  BY <1>15, InsertDefaultSettingsMove, GotoType, LoadsType, EndsType, Defaults
<1>16. ASSUME NEW r \in Requests, RereadSettings(r) PROVE Effect
  BY <1>16, RereadSettingsMove, LoadsType, EndsType, Defaults
<1>17. ASSUME NEW r \in Requests, UpdateAccountSettings(r) PROVE Effect
  BY <1>17, UpdateAccountSettingsMove, EndsType
<1>18. ASSUME Crash PROVE Effect
  BY <1>18, Defaults DEF Crash
<1>19. ASSUME NEW r \in Requests, NEW ebpf \in BOOLEAN, CreateDataSource(r, ebpf)
     PROVE  Keeps
  BY <1>19 DEF sourceVars, tokenVars, settingVars, CreateDataSource, Start
<1>20. ASSUME NEW r \in Requests, RotateIngestToken(r)
     PROVE  Keeps
  BY <1>20 DEF sourceVars, tokenVars, settingVars, RotateIngestToken, Start
<1>21. ASSUME NEW e \in DOMAIN enrollments, EnrollmentExpires(e)
     PROVE  Keeps
  BY <1>21 DEF sourceVars, tokenVars, settingVars, EnrollmentExpires
<1>22. ASSUME UNCHANGED vars PROVE Keeps
  BY <1>22 DEF vars, sourceVars, tokenVars, settingVars
<1>23. ASSUME Keeps PROVE Effect
  BY <1>23
<1> HIDE DEF Effect, Keeps
<1>q. Effect
  BY <1>1, <1>2, <1>3, <1>4, <1>5, <1>6, <1>7, <1>8, <1>9, <1>10, <1>11, <1>12,
     <1>13, <1>14, <1>15, <1>16, <1>17, <1>18, <1>19, <1>20, <1>21, <1>22, <1>23 DEF
     Next
<1> QED
  BY <1>q DEF Effect

\* What steps do to the sources: their kind is fixed and deleting one is final.
SourcesGrow ==
    /\ sources' \in Seq(Source) /\ DOMAIN sources \subseteq DOMAIN sources'
    /\ \A s \in DOMAIN sources :
         /\ sources'[s].ebpf = sources[s].ebpf /\ sources'[s].auto = sources[s].auto
         /\ sources[s].deleted => sources'[s].deleted

LEMMA SourcesSame ==
  ASSUME TypeOK, sources' = sources
  PROVE  SourcesGrow
  BY DEF TypeOK, SourcesGrow

LEMMA SourceAdded ==
  ASSUME TypeOK, NEW x \in Source, sources' = Append(sources, x)
  PROVE  SourcesGrow
<1>1. sources \in Seq(Source)
  BY DEF TypeOK
<1> QED
  BY <1>1, NextMember DEF SourcesGrow

LEMMA SourceStatus ==
  ASSUME TypeOK, NEW s \in DOMAIN sources, NEW x \in {"PENDING", "CONNECTED", "DELETED"},
         sources' = [sources EXCEPT ![s].status = x]
  PROVE  /\ SourcesGrow /\ DOMAIN sources' = DOMAIN sources
         /\ \A t \in DOMAIN sources : sources'[t].deleted = sources[t].deleted
<1>1. sources \in Seq(Source) /\ sources \in [DOMAIN sources -> Source]
  BY MemberNumbers DEF TypeOK
<1>2. sources' \in [DOMAIN sources -> Source]
  BY <1>1 DEF Source
<1>3. sources' \in Seq(Source) /\ DOMAIN sources' = DOMAIN sources
  BY <1>1, <1>2, SameDomain
<1>4. \A t \in DOMAIN sources :
        /\ sources'[t].ebpf = sources[t].ebpf /\ sources'[t].auto = sources[t].auto
        /\ sources'[t].deleted = sources[t].deleted
  BY <1>1 DEF Source
<1> QED
  BY <1>3, <1>4 DEF SourcesGrow

LEMMA SourceDeleted ==
  ASSUME TypeOK, NEW s \in DOMAIN sources,
         sources' = [sources EXCEPT ![s].status = "DELETED", ![s].deleted = TRUE]
  PROVE  /\ SourcesGrow /\ DOMAIN sources' = DOMAIN sources /\ sources'[s].deleted
         /\ \A t \in DOMAIN sources \ {s} : sources'[t] = sources[t]
<1> DEFINE u == [sources EXCEPT ![s].status = "DELETED"]
<1>1. sources \in Seq(Source) /\ sources \in [DOMAIN sources -> Source]
  BY MemberNumbers DEF TypeOK
<1>2. /\ u \in [DOMAIN sources -> Source]
      /\ u[s].ebpf = sources[s].ebpf /\ u[s].auto = sources[s].auto
      /\ \A t \in DOMAIN sources \ {s} : u[t] = sources[t]
  BY <1>1 DEF Source
<1>3. sources' = [u EXCEPT ![s].deleted = TRUE]
  OBVIOUS
<1> HIDE DEF u
<1>4. sources' \in [DOMAIN sources -> Source]
  <2> DEFINE x == [u[s] EXCEPT !.deleted = TRUE]
  <2>1. x \in Source
    BY <1>2 DEF Source
  <2>2. sources' = [u EXCEPT ![s] = x]
    BY <1>3
  <2> HIDE DEF x
  <2> QED
    BY <1>2, <2>1, <2>2
<1>5. sources' \in Seq(Source) /\ DOMAIN sources' = DOMAIN sources
  BY <1>1, <1>4, SameDomain
<1>6. /\ sources'[s].ebpf = sources[s].ebpf /\ sources'[s].auto = sources[s].auto
      /\ sources'[s].deleted
      /\ \A t \in DOMAIN sources \ {s} : sources'[t] = sources[t]
  BY <1>2, <1>3 DEF Source
<1> QED
  BY <1>5, <1>6 DEF SourcesGrow

\* Sources stay what they are, and deleted ones stay deleted.
LEMMA SourcesStep ==
  ASSUME TypeOK, RequestInv, [Next]_vars
  PROVE  SourcesGrow
<1> DEFINE Effect ==
      SourcesGrow
           Keeps == sources' = sources
<1>1. ASSUME NEW r \in Requests, NEW ebpf \in BOOLEAN, CreateDataSource(r, ebpf)
      PROVE  Effect
  <2>1. \/ sources' = sources
        \/ \E x \in Source : sources' = Append(sources, x)
    BY <1>1 DEF CreateDataSource, NewSource, Source
  <2> QED
    BY <2>1, SourcesSame, SourceAdded
<1>2. ASSUME NEW r \in Requests, NEW s \in SourceIds, DeleteDataSource(r, s)
      PROVE  Effect
  <2>1. \/ sources' = sources
        \/ sources' = [sources EXCEPT ![s].status = "DELETED", ![s].deleted = TRUE]
    BY <1>2 DEF DeleteDataSource
  <2> QED
    BY <2>1, SourcesSame, SourceDeleted DEF SourceIds
<1>3. ASSUME NEW r \in Requests, ConnectSource(r) PROVE Effect
  <2>1. \/ sources' = sources
        \/ sources' = [sources EXCEPT ![req[r].source].status = "CONNECTED"]
    BY <1>3 DEF ConnectSource
  <2>2. req[r].source \in DOMAIN sources
    BY <1>3, ConnectSourceMove DEF RequestInv, Holds, SourceIds
  <2> QED
    BY <2>1, <2>2, SourcesSame, SourceStatus
<1>4. ASSUME NEW r \in Requests, MarkIngestTrafficSeen(r) PROVE Effect
  <2>1. \/ sources' = sources
        \/ \E s \in Listed : sources' = [sources EXCEPT ![s].status = "CONNECTED"]
    BY <1>4 DEF MarkIngestTrafficSeen, Markable
  <2> QED
    BY <2>1, SourcesSame, SourceStatus DEF Listed, SourceIds
<1>5. ASSUME NEW r \in Requests, InsertAutoSource(r) PROVE Effect
  <2>1. \/ sources' = sources
        \/ \E x \in Source : sources' = Append(sources, x)
    BY <1>5 DEF InsertAutoSource, NewSource, Source
  <2> QED
    BY <2>1, SourcesSame, SourceAdded
<1>6. ASSUME NEW r \in Requests, NEW s \in SourceIds, CreateAgentEnrollment(r, s)
     PROVE  Keeps
  BY <1>6 DEF sourceVars, tokenVars, settingVars, CreateAgentEnrollment, Start
<1>7. ASSUME NEW r \in Requests,
       \/ ExpireEnrollments(r) \/ DisableAgents(r) \/ InsertEnrollment(r)
       \/ InsertAgent(r) \/ GetIngestToken(r) \/ createAccountIngestToken(r)
     PROVE  Keeps
  BY <1>7 DEF sourceVars, tokenVars, settingVars, ExpireEnrollments, Step,
     DisableAgents, InsertEnrollment, InsertAgent, GetIngestToken, Start,
     createAccountIngestToken
<1>8. ASSUME NEW r \in Requests,
       \/ RotateIngestToken(r) \/ AccountIngest(r) \/ InsertDefaultSettings(r)
       \/ RereadSettings(r) \/ UpdateAccountSettings(r)
     PROVE  Keeps
  BY <1>8 DEF sourceVars, tokenVars, settingVars, RotateIngestToken, Start,
     AccountIngest, InsertDefaultSettings, Step, RereadSettings,
     UpdateAccountSettings
<1>9. ASSUME NEW r \in Requests, NEW e \in DOMAIN enrollments, ClaimEnrollment(r, e)
     PROVE  Keeps
  BY <1>9 DEF sourceVars, tokenVars, settingVars, ClaimEnrollment, Start
<1>10. ASSUME NEW r \in Requests, NEW change \in Change, ReadSettings(r, change)
     PROVE  Keeps
  BY <1>10 DEF sourceVars, tokenVars, settingVars, ReadSettings, Start
<1>11. ASSUME NEW e \in DOMAIN enrollments, EnrollmentExpires(e)
     PROVE  Keeps
  BY <1>11 DEF sourceVars, tokenVars, settingVars, EnrollmentExpires
<1>12. ASSUME Crash
     PROVE  Keeps
  BY <1>12 DEF sourceVars, tokenVars, settingVars, Crash
<1>13. ASSUME UNCHANGED vars PROVE Keeps
  BY <1>13 DEF vars, sourceVars, tokenVars, settingVars
<1>14. ASSUME Keeps PROVE Effect
  BY <1>14, SourcesSame
<1> HIDE DEF Effect, Keeps
<1>q. Effect
  BY <1>1, <1>2, <1>3, <1>4, <1>5, <1>6, <1>7, <1>8, <1>9, <1>10, <1>11, <1>12,
     <1>13, <1>14 DEF Next
<1> QED
  BY <1>q DEF Effect

\* What steps do to the enrollments: their source is fixed, a used one stays used
\* and no other one opens again.
EnrollmentsGrow ==
    /\ enrollments' \in Seq(Enrollment) /\ DOMAIN enrollments \subseteq DOMAIN enrollments'
    /\ \A e \in DOMAIN enrollments :
         /\ enrollments'[e].source = enrollments[e].source
         /\ enrollments[e].status = "used" => enrollments'[e].status = "used"
         /\ enrollments'[e].status = "open" => enrollments[e].status = "open"

LEMMA EnrollmentsSame ==
  ASSUME TypeOK, enrollments' = enrollments
  PROVE  EnrollmentsGrow
  BY DEF TypeOK, EnrollmentsGrow

LEMMA EnrollmentAdded ==
  ASSUME TypeOK, NEW x \in Enrollment, enrollments' = Append(enrollments, x)
  PROVE  EnrollmentsGrow
<1>1. enrollments \in Seq(Enrollment)
  BY DEF TypeOK
<1> QED
  BY <1>1, NextMember DEF EnrollmentsGrow

\* Open enrollments that are used or expire.
LEMMA EnrollmentsClosed ==
  ASSUME TypeOK, enrollments' \in [DOMAIN enrollments -> Enrollment],
         \A e \in DOMAIN enrollments :
           \/ enrollments'[e] = enrollments[e]
           \/ /\ enrollments[e].status = "open" /\ enrollments'[e].status # "open"
              /\ enrollments'[e].source = enrollments[e].source
  PROVE  EnrollmentsGrow /\ DOMAIN enrollments' = DOMAIN enrollments
<1>1. enrollments \in Seq(Enrollment)
  BY DEF TypeOK
<1>2. enrollments' \in Seq(Enrollment) /\ DOMAIN enrollments' = DOMAIN enrollments
  BY <1>1, SameDomain
<1> QED
  BY <1>2 DEF EnrollmentsGrow

LEMMA EnrollmentClosed ==
  ASSUME TypeOK, NEW e \in DOMAIN enrollments, enrollments[e].status = "open",
         NEW x \in {"used", "expired"}, enrollments' = [enrollments EXCEPT ![e].status = x]
  PROVE  /\ EnrollmentsGrow /\ DOMAIN enrollments' = DOMAIN enrollments
         /\ enrollments'[e].status = x /\ enrollments'[e].source = enrollments[e].source
         /\ \A d \in DOMAIN enrollments \ {e} : enrollments'[d] = enrollments[d]
<1>1. enrollments \in Seq(Enrollment) /\ enrollments \in [DOMAIN enrollments -> Enrollment]
  BY MemberNumbers DEF TypeOK
<1>2. /\ enrollments' \in [DOMAIN enrollments -> Enrollment]
      /\ enrollments'[e].status = x /\ enrollments'[e].source = enrollments[e].source
      /\ \A d \in DOMAIN enrollments \ {e} : enrollments'[d] = enrollments[d]
  BY <1>1 DEF Enrollment
<1> QED
  BY <1>2, EnrollmentsClosed

LEMMA EnrollmentsExpired ==
  ASSUME TypeOK, NEW E,
         \A e \in E : e \in DOMAIN enrollments => enrollments[e].status = "open",
         enrollments' = [e \in DOMAIN enrollments |->
                           IF e \in E THEN [enrollments[e] EXCEPT !.status = "expired"]
                                      ELSE enrollments[e]]
  PROVE  /\ EnrollmentsGrow /\ DOMAIN enrollments' = DOMAIN enrollments
         /\ \A e \in DOMAIN enrollments :
              IF e \in E THEN enrollments'[e].status = "expired"
                         ELSE enrollments'[e] = enrollments[e]
<1>1. enrollments \in Seq(Enrollment) /\ \A e \in DOMAIN enrollments : enrollments[e] \in Enrollment
  BY MemberNumbers DEF TypeOK
<1>2. \A e \in DOMAIN enrollments :
        LET x == [enrollments[e] EXCEPT !.status = "expired"]
        IN  x \in Enrollment /\ x.status = "expired" /\ x.source = enrollments[e].source
  BY <1>1 DEF Enrollment
<1>3. /\ enrollments' \in [DOMAIN enrollments -> Enrollment]
      /\ \A e \in DOMAIN enrollments :
           \/ e \notin E /\ enrollments'[e] = enrollments[e]
           \/ /\ e \in E /\ enrollments'[e].status = "expired"
              /\ enrollments'[e].source = enrollments[e].source
  BY <1>1, <1>2
<1>4. EnrollmentsGrow /\ DOMAIN enrollments' = DOMAIN enrollments
  <2>1. \A e \in DOMAIN enrollments :
          \/ enrollments'[e] = enrollments[e]
          \/ /\ enrollments[e].status = "open" /\ enrollments'[e].status # "open"
             /\ enrollments'[e].source = enrollments[e].source
    BY <1>3
  <2> QED
    BY <1>3, <2>1, EnrollmentsClosed
<1> QED
  BY <1>3, <1>4

\* The second update of a delete expires open enrollments of the source, all of
\* them if it succeeds.
LEMMA ExpireEnrollmentsEffect ==
  ASSUME TypeOK, NEW r \in Requests, ExpireEnrollments(r)
  PROVE  \E E \in SUBSET {e \in DOMAIN enrollments : enrollments[e].source = req[r].source
                                                  /\ enrollments[e].status = "open"} :
           /\ EnrollmentsGrow /\ DOMAIN enrollments' = DOMAIN enrollments
           /\ \A e \in DOMAIN enrollments :
                IF e \in E THEN enrollments'[e].status = "expired"
                           ELSE enrollments'[e] = enrollments[e]
           /\ \/ /\ Enters(r, "disable", req[r].source, 0) /\ UNCHANGED unfinished
                 /\ E = {e \in DOMAIN enrollments : enrollments[e].source = req[r].source
                                                    /\ enrollments[e].status = "open"}
              \/ Ends(r) /\ unfinished' = unfinished \union {req[r].source}
<1> DEFINE open == {e \in DOMAIN enrollments : enrollments[e].source = req[r].source
                                               /\ enrollments[e].status = "open"}
           Expired(E) == [e \in DOMAIN enrollments |->
                            IF e \in E THEN [enrollments[e] EXCEPT !.status = "expired"]
                                       ELSE enrollments[e]]
<1>1. \A s : Continue(r, "expire", s) => Enters(r, "disable", s, 0)
  BY DEF Continue, NextUpdate, Become, Enters, Becomes, Idle, Local
<1>2. Done(r) => Ends(r)
  BY DEF Done, Become, Ends, Enters, Becomes, Idle, Local
<1>3. PICK E \in SUBSET open :
        /\ enrollments' = Expired(E)
        /\ \/ Enters(r, "disable", req[r].source, 0) /\ UNCHANGED unfinished /\ E = open
           \/ Ends(r) /\ unfinished' = unfinished \union {req[r].source}
  BY <1>1, <1>2 DEF ExpireEnrollments
<1>4. \A e \in E : e \in DOMAIN enrollments => enrollments[e].status = "open"
  OBVIOUS
<1> QED
  BY <1>3, <1>4, EnrollmentsExpired

\* Enrollments stay with their source, and none opens again.
LEMMA EnrollmentsStep ==
  ASSUME TypeOK, RequestInv, [Next]_vars
  PROVE  EnrollmentsGrow
<1> DEFINE Effect ==
      EnrollmentsGrow
           Keeps == enrollments' = enrollments
<1>1. ASSUME NEW r \in Requests, ExpireEnrollments(r) PROVE Effect
  BY <1>1, ExpireEnrollmentsEffect
<1>2. ASSUME NEW r \in Requests, InsertEnrollment(r) PROVE Effect
  <2>1. req[r].pc = "enroll" /\ req[r].source \in SourceIds
    BY <1>2, InsertEnrollmentMove DEF RequestInv, Holds
  <2>2. req[r].source \in Nat \ {0}
    BY <2>1, MemberNumbers DEF SourceIds, TypeOK
  <2>3. [source |-> req[r].source, status |-> "open"] \in Enrollment
    BY <2>2 DEF Enrollment
  <2>4. \/ enrollments' = enrollments
        \/ enrollments' = Append(enrollments, [source |-> req[r].source, status |-> "open"])
    BY <1>2 DEF InsertEnrollment
  <2> QED
    BY <2>3, <2>4, EnrollmentsSame, EnrollmentAdded
<1>3. ASSUME NEW r \in Requests, NEW e \in DOMAIN enrollments, ClaimEnrollment(r, e)
      PROVE  Effect
  <2>1. \/ enrollments' = enrollments
        \/ enrollments' = [enrollments EXCEPT ![e].status = "used"]
    BY <1>3 DEF ClaimEnrollment
  <2>2. enrollments[e].status = "open"
    BY <1>3 DEF ClaimEnrollment, Claimable
  <2> QED
    BY <2>1, <2>2, EnrollmentsSame, EnrollmentClosed
<1>4. ASSUME NEW e \in DOMAIN enrollments, EnrollmentExpires(e) PROVE Effect
  BY <1>4, EnrollmentClosed DEF EnrollmentExpires
<1>5. ASSUME NEW r \in Requests, NEW ebpf \in BOOLEAN, CreateDataSource(r, ebpf)
     PROVE  Keeps
  BY <1>5 DEF sourceVars, tokenVars, settingVars, CreateDataSource, Start
<1>6. ASSUME NEW r \in Requests, NEW s \in SourceIds,
       \/ DeleteDataSource(r, s) \/ CreateAgentEnrollment(r, s)
     PROVE  Keeps
  BY <1>6 DEF sourceVars, tokenVars, settingVars, DeleteDataSource, Start,
     CreateAgentEnrollment
<1>7. ASSUME NEW r \in Requests,
       \/ DisableAgents(r) \/ InsertAgent(r) \/ ConnectSource(r)
       \/ GetIngestToken(r) \/ createAccountIngestToken(r) \/ RotateIngestToken(r)
     PROVE  Keeps
  BY <1>7 DEF sourceVars, tokenVars, settingVars, DisableAgents, Step, InsertAgent,
     ConnectSource, GetIngestToken, Start, createAccountIngestToken,
     RotateIngestToken
<1>8. ASSUME NEW r \in Requests,
       \/ AccountIngest(r) \/ MarkIngestTrafficSeen(r) \/ InsertAutoSource(r)
       \/ InsertDefaultSettings(r) \/ RereadSettings(r)
       \/ UpdateAccountSettings(r)
     PROVE  Keeps
  BY <1>8 DEF sourceVars, tokenVars, settingVars, AccountIngest, Start,
     MarkIngestTrafficSeen, Step, InsertAutoSource, InsertDefaultSettings,
     RereadSettings, UpdateAccountSettings
<1>9. ASSUME NEW r \in Requests, NEW change \in Change, ReadSettings(r, change)
     PROVE  Keeps
  BY <1>9 DEF sourceVars, tokenVars, settingVars, ReadSettings, Start
<1>10. ASSUME Crash
     PROVE  Keeps
  BY <1>10 DEF sourceVars, tokenVars, settingVars, Crash
<1>11. ASSUME UNCHANGED vars PROVE Keeps
  BY <1>11 DEF vars, sourceVars, tokenVars, settingVars
<1>12. ASSUME Keeps PROVE Effect
  BY <1>12, EnrollmentsSame
<1> HIDE DEF Effect, Keeps
<1>q. Effect
  BY <1>1, <1>2, <1>3, <1>4, <1>5, <1>6, <1>7, <1>8, <1>9, <1>10, <1>11, <1>12 DEF
     Next
<1> QED
  BY <1>q DEF Effect

\* What steps do to the agents: they stay with their enrollment, and a disabled one
\* stays disabled.
AgentsGrow ==
    /\ agents' \in Seq(Agent) /\ DOMAIN agents \subseteq DOMAIN agents'
    /\ \A a \in DOMAIN agents :
         /\ agents'[a].source = agents[a].source
         /\ agents'[a].enrollment = agents[a].enrollment
         /\ agents'[a].status = "active" => agents[a].status = "active"

LEMMA AgentsSame ==
  ASSUME TypeOK, agents' = agents
  PROVE  AgentsGrow
  BY DEF TypeOK, AgentsGrow

LEMMA AgentAdded ==
  ASSUME TypeOK, NEW x \in Agent, agents' = Append(agents, x)
  PROVE  /\ AgentsGrow /\ DOMAIN agents' = DOMAIN agents \union {Len(agents) + 1}
         /\ Len(agents) + 1 \notin DOMAIN agents /\ agents'[Len(agents) + 1] = x
         /\ \A a \in DOMAIN agents : agents'[a] = agents[a]
<1>1. agents \in Seq(Agent)
  BY DEF TypeOK
<1> QED
  BY <1>1, NextMember DEF AgentsGrow

\* The third update of a delete disables agents of the source, all of them if it
\* succeeds.
LEMMA DisableAgentsEffect ==
  ASSUME TypeOK, NEW r \in Requests, DisableAgents(r)
  PROVE  \E A \in SUBSET {a \in DOMAIN agents : agents[a].source = req[r].source
                                             /\ agents[a].status = "active"} :
           /\ AgentsGrow /\ DOMAIN agents' = DOMAIN agents
           /\ \A a \in DOMAIN agents :
                IF a \in A THEN agents'[a].status = "disabled" ELSE agents'[a] = agents[a]
           /\ \/ /\ A = {a \in DOMAIN agents : agents[a].source = req[r].source
                                               /\ agents[a].status = "active"}
                 /\ unfinished' = unfinished \ {req[r].source}
                 /\ \A e : e \in slipped' <=>
                      \/ /\ e \in slipped
                         /\ ~(/\ e \in DOMAIN enrollments /\ e \notin Registering
                              /\ enrollments[e].source = req[r].source
                              /\ enrollments[e].status # "open")
                      \/ /\ e \in Registering /\ e \in DOMAIN enrollments
                         /\ enrollments[e].source = req[r].source
              \/ unfinished' = unfinished \union {req[r].source} /\ slipped' = slipped
<1> DEFINE active == {a \in DOMAIN agents : agents[a].source = req[r].source
                                            /\ agents[a].status = "active"}
           Disabled(A) == [a \in DOMAIN agents |->
                             IF a \in A THEN [agents[a] EXCEPT !.status = "disabled"]
                                        ELSE agents[a]]
           ofSource == {e \in DOMAIN enrollments : enrollments[e].source = req[r].source}
           reached == {e \in ofSource \ Registering : enrollments[e].status # "open"}
<1>1. PICK A \in SUBSET active :
        /\ agents' = Disabled(A)
        /\ \/ /\ A = active /\ unfinished' = unfinished \ {req[r].source}
              /\ slipped' = (slipped \ reached) \union (Registering \intersect ofSource)
           \/ unfinished' = unfinished \union {req[r].source} /\ slipped' = slipped
  BY DEF DisableAgents
<1>2. agents \in Seq(Agent) /\ \A a \in DOMAIN agents : agents[a] \in Agent
  BY MemberNumbers DEF TypeOK
<1>3. \A a \in DOMAIN agents :
        LET x == [agents[a] EXCEPT !.status = "disabled"]
        IN  /\ x \in Agent /\ x.status = "disabled" /\ x.source = agents[a].source
            /\ x.enrollment = agents[a].enrollment
  BY <1>2 DEF Agent
<1>4. /\ agents' \in [DOMAIN agents -> Agent]
      /\ \A a \in DOMAIN agents :
           \/ a \notin A /\ agents'[a] = agents[a]
           \/ /\ a \in A /\ agents'[a].status = "disabled"
              /\ agents'[a].source = agents[a].source
              /\ agents'[a].enrollment = agents[a].enrollment
  BY <1>1, <1>2, <1>3
<1>5. agents' \in Seq(Agent) /\ DOMAIN agents' = DOMAIN agents
  BY <1>2, <1>4, SameDomain
<1>6. AgentsGrow
  BY <1>4, <1>5 DEF AgentsGrow
<1>7. \A a \in DOMAIN agents :
        IF a \in A THEN agents'[a].status = "disabled" ELSE agents'[a] = agents[a]
  BY <1>4
<1>8. slipped' = (slipped \ reached) \union (Registering \intersect ofSource) =>
        \A e : e \in slipped' <=>
          \/ /\ e \in slipped
             /\ ~(/\ e \in DOMAIN enrollments /\ e \notin Registering
                  /\ enrollments[e].source = req[r].source
                  /\ enrollments[e].status # "open")
          \/ /\ e \in Registering /\ e \in DOMAIN enrollments
             /\ enrollments[e].source = req[r].source
  OBVIOUS
<1> QED
  BY <1>1, <1>5, <1>6, <1>7, <1>8

\* A registration inserts an agent of its enrollment, or none.
LEMMA InsertAgentEffect ==
  ASSUME TypeOK, RequestInv, NEW r \in Requests, InsertAgent(r)
  PROVE  LET x == [source |-> req[r].source, enrollment |-> req[r].enrollment,
                   status |-> "active"]
         IN  /\ x \in Agent /\ agents' \in {agents, Append(agents, x)}
             /\ \/ agents' = Append(agents, x) /\ spent' = spent
                \/ spent' = spent \union {req[r].enrollment}
<1> DEFINE x == [source |-> req[r].source, enrollment |-> req[r].enrollment,
                 status |-> "active"]
<1>1. /\ req[r].enrollment \in DOMAIN enrollments
      /\ req[r].source = enrollments[req[r].enrollment].source
  BY InsertAgentMove DEF RequestInv, Holds
<1>2. req[r].enrollment \in Nat \ {0} /\ enrollments[req[r].enrollment] \in Enrollment
  BY <1>1, MemberNumbers DEF TypeOK
<1>3. x \in Agent
  BY <1>1, <1>2 DEF Agent, Enrollment
<1>4. /\ agents' \in {agents, Append(agents, x)}
      /\ \/ agents' = Append(agents, x) /\ spent' = spent
         \/ spent' = spent \union {req[r].enrollment}
  BY DEF InsertAgent
<1> QED
  BY <1>3, <1>4

\* Agents stay with their enrollment, and disabled ones stay disabled.
LEMMA AgentsStep ==
  ASSUME TypeOK, RequestInv, [Next]_vars
  PROVE  AgentsGrow
<1> DEFINE Effect ==
      AgentsGrow
           Keeps == agents' = agents
<1>1. ASSUME NEW r \in Requests, DisableAgents(r) PROVE Effect
  BY <1>1, DisableAgentsEffect
<1>2. ASSUME NEW r \in Requests, InsertAgent(r) PROVE Effect
  <2>1. \/ agents' = agents
        \/ \E x \in Agent : agents' = Append(agents, x)
    BY <1>2, InsertAgentEffect
  <2> QED
    BY <2>1, AgentsSame, AgentAdded
<1>3. ASSUME NEW r \in Requests, NEW ebpf \in BOOLEAN, CreateDataSource(r, ebpf)
     PROVE  Keeps
  BY <1>3 DEF sourceVars, tokenVars, settingVars, CreateDataSource, Start
<1>4. ASSUME NEW r \in Requests, NEW s \in SourceIds,
       \/ DeleteDataSource(r, s) \/ CreateAgentEnrollment(r, s)
     PROVE  Keeps
  BY <1>4 DEF sourceVars, tokenVars, settingVars, DeleteDataSource, Start,
     CreateAgentEnrollment
<1>5. ASSUME NEW r \in Requests,
       \/ ExpireEnrollments(r) \/ InsertEnrollment(r) \/ ConnectSource(r)
       \/ GetIngestToken(r) \/ createAccountIngestToken(r) \/ RotateIngestToken(r)
     PROVE  Keeps
  BY <1>5 DEF sourceVars, tokenVars, settingVars, ExpireEnrollments, Step,
     InsertEnrollment, ConnectSource, GetIngestToken, Start,
     createAccountIngestToken, RotateIngestToken
<1>6. ASSUME NEW r \in Requests,
       \/ AccountIngest(r) \/ MarkIngestTrafficSeen(r) \/ InsertAutoSource(r)
       \/ InsertDefaultSettings(r) \/ RereadSettings(r)
       \/ UpdateAccountSettings(r)
     PROVE  Keeps
  BY <1>6 DEF sourceVars, tokenVars, settingVars, AccountIngest, Start,
     MarkIngestTrafficSeen, Step, InsertAutoSource, InsertDefaultSettings,
     RereadSettings, UpdateAccountSettings
<1>7. ASSUME NEW r \in Requests, NEW e \in DOMAIN enrollments, ClaimEnrollment(r, e)
     PROVE  Keeps
  BY <1>7 DEF sourceVars, tokenVars, settingVars, ClaimEnrollment, Start
<1>8. ASSUME NEW r \in Requests, NEW change \in Change, ReadSettings(r, change)
     PROVE  Keeps
  BY <1>8 DEF sourceVars, tokenVars, settingVars, ReadSettings, Start
<1>9. ASSUME NEW e \in DOMAIN enrollments, EnrollmentExpires(e)
     PROVE  Keeps
  BY <1>9 DEF sourceVars, tokenVars, settingVars, EnrollmentExpires
<1>10. ASSUME Crash
     PROVE  Keeps
  BY <1>10 DEF sourceVars, tokenVars, settingVars, Crash
<1>11. ASSUME UNCHANGED vars PROVE Keeps
  BY <1>11 DEF vars, sourceVars, tokenVars, settingVars
<1>12. ASSUME Keeps PROVE Effect
  BY <1>12, AgentsSame
<1> HIDE DEF Effect, Keeps
<1>q. Effect
  BY <1>1, <1>2, <1>3, <1>4, <1>5, <1>6, <1>7, <1>8, <1>9, <1>10, <1>11, <1>12 DEF
     Next
<1> QED
  BY <1>q DEF Effect

-----------------------------------------------------------------------------
(* What requests hold *)

\* A request that did not move holds what it held, unless an agent was added for
\* its enrollment.
LEMMA HoldsStays ==
  ASSUME TypeOK, SourcesGrow, EnrollmentsGrow, AgentsGrow,
         NEW q \in Requests, Holds(q), req'[q] = req[q],
         req[q].pc = "agent" =>
           \A a \in DOMAIN agents' \ DOMAIN agents : agents'[a].enrollment # req[q].enrollment
  PROVE  Holds(q)'
  BY DEF Holds, Deleting, SourceIds, SourcesGrow, EnrollmentsGrow, AgentsGrow

\* One request moves at a time.
LEMMA OneMoves ==
  ASSUME TypeOK, RequestInv, SourcesGrow, EnrollmentsGrow, AgentsGrow, agents' = agents,
         NEW r \in Requests, \A q \in Requests \ {r} : req'[q] = req[q],
         Holds(r)',
         \A q \in Requests \ {r} :
           req'[r].pc = "agent" /\ req[q].pc = "agent" => req'[r].enrollment # req[q].enrollment
  PROVE  RequestInv'
<1>1. \A q \in Requests \ {r} : Holds(q)'
  BY HoldsStays DEF RequestInv
<1>2. ASSUME NEW p \in Requests, NEW q \in Requests, req'[p].pc = "agent",
             req'[q].pc = "agent", req'[p].enrollment = req'[q].enrollment
      PROVE  p = q
  BY <1>2 DEF RequestInv
<1> QED
  BY <1>1, <1>2 DEF RequestInv

\* Most moves lead to a call for which nothing has to be held.
LEMMA OneLetsGo ==
  ASSUME TypeOK, RequestInv, SourcesGrow, EnrollmentsGrow, AgentsGrow, agents' = agents,
         NEW r \in Requests, NEW p \in {"idle", "mark", "auto", "default", "reread", "update"},
         NEW s, NEW e, At(r, p, s, e)
  PROVE  RequestInv'
<1>1. req'[r].pc = p /\ \A q \in Requests \ {r} : req'[q] = req[q]
  BY DEF At
<1>2. Holds(r)'
  BY <1>1 DEF Holds, Deleting
<1> QED
  BY <1>1, <1>2, OneMoves

LEMMA NoneMoves ==
  ASSUME TypeOK, RequestInv, SourcesGrow, EnrollmentsGrow, AgentsGrow, agents' = agents,
         req' = req
  PROVE  RequestInv'
<1>1. \A q \in Requests : Holds(q)'
  BY HoldsStays DEF RequestInv
<1> QED
  BY <1>1 DEF RequestInv

\* Each move leaves requests with what they hold.
LEMMA RequestStep ==
  ASSUME TypeOK, RequestInv, EnrollmentInv, [Next]_vars
  PROVE  RequestInv'
<1>0. SourcesGrow /\ EnrollmentsGrow /\ AgentsGrow
  BY SourcesStep, EnrollmentsStep, AgentsStep
<1> DEFINE Effect ==
      RequestInv'
<1>1. ASSUME NEW r \in Requests, NEW ebpf \in BOOLEAN, CreateDataSource(r, ebpf)
      PROVE  Effect
  <2>1. agents' = agents
    BY <1>1 DEF CreateDataSource, sourceVars
  <2> QED
    BY <1>0, <2>1, <1>1, CreateDataSourceMove, NoneMoves
<1>2. ASSUME NEW r \in Requests, NEW s \in SourceIds, DeleteDataSource(r, s)
      PROVE  Effect
  <2>1. agents' = agents
    BY <1>2 DEF DeleteDataSource, sourceVars
  <2>2. CASE UNCHANGED req
    BY <1>0, <2>1, <2>2, NoneMoves
  <2>3. CASE Enters(r, "expire", s, 0)
    <3>1. At(r, "expire", s, 0)
      BY <2>3, EntersAt
    <3>2. s \in DOMAIN sources' /\ sources'[s].deleted
      <4>1. \/ sources' = [sources EXCEPT ![s].status = "DELETED", ![s].deleted = TRUE]
            \/ UNCHANGED req
        BY <1>2 DEF DeleteDataSource
      <4>2. req[r].pc = "idle"
        BY <1>2, DeleteDataSourceMove, IdleFields
      <4> QED
        BY <4>1, <4>2, <3>1, SourceDeleted DEF At, SourceIds
    <3>3. Holds(r)' /\ req'[r].pc # "agent"
      BY <3>1, <3>2 DEF Holds, Deleting, At, SourceIds
    <3> QED
      BY <1>0, <2>1, <3>1, <3>3, OneMoves DEF At
  <2> QED
    BY <1>2, <2>2, <2>3, DeleteDataSourceMove
<1>3. ASSUME NEW r \in Requests, NEW s \in SourceIds, CreateAgentEnrollment(r, s)
      PROVE  Effect
  <2>1. agents' = agents
    BY <1>3 DEF CreateAgentEnrollment, sourceVars
  <2>2. At(r, "enroll", s, 0)
    BY <1>3, CreateAgentEnrollmentMove, EntersAt
  <2>3. sources' = sources /\ sources[s].ebpf
    BY <1>3 DEF CreateAgentEnrollment, MayEnroll, sourceVars
  <2>4. Holds(r)' /\ req'[r].pc # "agent"
    BY <2>2, <2>3 DEF Holds, Deleting, At, SourceIds
  <2> QED
    BY <1>0, <2>1, <2>2, <2>4, OneMoves DEF At
<1>4. ASSUME NEW r \in Requests, ExpireEnrollments(r) PROVE Effect
  <2>1. agents' = agents
    BY <1>4 DEF ExpireEnrollments, sourceVars
  <2>2. CASE Ends(r)
    BY <1>0, <2>1, <2>2, EndsAt, OneLetsGo
  <2>3. CASE Enters(r, "disable", req[r].source, 0)
    <3>1. At(r, "disable", req[r].source, 0)
      BY <2>3, EntersAt
    <3>2. req[r].source \in SourceIds /\ sources[req[r].source].deleted
      BY <1>4, ExpireEnrollmentsMove DEF RequestInv, Holds, Deleting
    <3>3. Holds(r)' /\ req'[r].pc # "agent"
      BY <1>0, <3>1, <3>2 DEF Holds, Deleting, At, SourceIds, SourcesGrow
    <3> QED
      BY <1>0, <2>1, <3>1, <3>3, OneMoves DEF At
  <2> QED
    BY <1>4, <2>2, <2>3, ExpireEnrollmentsMove
<1>5. ASSUME NEW r \in Requests, DisableAgents(r) PROVE Effect
  <2>1. At(r, "idle", 0, 0) /\ DOMAIN agents' = DOMAIN agents
    BY <1>5, DisableAgentsMove, EndsAt, DisableAgentsEffect
  <2>2. \A q \in Requests \ {r} : req'[q] = req[q] /\ Holds(q)'
    BY <1>0, <2>1, HoldsStays DEF RequestInv, At
  <2>3. req'[r].pc = "idle" /\ Holds(r)'
    BY <2>1 DEF Holds, Deleting, At
  <2> QED
    BY <2>2, <2>3 DEF RequestInv
<1>6. ASSUME NEW r \in Requests, InsertEnrollment(r) PROVE Effect
  <2>1. agents' = agents
    BY <1>6 DEF InsertEnrollment, sourceVars
  <2> QED
    BY <1>0, <2>1, <1>6, InsertEnrollmentMove, EndsAt, OneLetsGo
<1>7. ASSUME NEW r \in Requests, NEW e \in DOMAIN enrollments, ClaimEnrollment(r, e)
      PROVE  Effect
  <2>1. agents' = agents
    BY <1>7 DEF ClaimEnrollment, sourceVars
  <2>2. CASE UNCHANGED req
    BY <1>0, <2>1, <2>2, NoneMoves
  <2>3. CASE Enters(r, "agent", enrollments[e].source, e)
    <3>1. At(r, "agent", enrollments[e].source, e)
      BY <2>3, EntersAt
    <3>2. enrollments[e].status = "open" /\ req[r].pc = "idle"
      BY <1>7, ClaimEnrollmentMove, IdleFields DEF ClaimEnrollment, Claimable
    <3>3. enrollments' = [enrollments EXCEPT ![e].status = "used"]
      BY <1>7, <3>1, <3>2 DEF ClaimEnrollment, At
    <3>4. /\ DOMAIN enrollments' = DOMAIN enrollments
          /\ enrollments'[e].status = "used" /\ enrollments'[e].source = enrollments[e].source
      BY <3>2, <3>3, EnrollmentClosed
    <3>5. \A a \in DOMAIN agents : agents[a].enrollment # e
      BY <3>2 DEF EnrollmentInv
    <3>6. Holds(r)'
      BY <2>1, <3>1, <3>4, <3>5 DEF Holds, Deleting, At
    <3>7. \A q \in Requests \ {r} : req[q].pc = "agent" => req[q].enrollment # e
      BY <3>2 DEF RequestInv, Holds
    <3> QED
      BY <1>0, <2>1, <3>1, <3>6, <3>7, OneMoves DEF At
  <2> QED
    BY <1>7, <2>2, <2>3, ClaimEnrollmentMove
<1>8. ASSUME NEW r \in Requests, InsertAgent(r) PROVE Effect
  <2>1. req[r].pc = "agent" /\ Holds(r)
    BY <1>8, InsertAgentMove DEF RequestInv
  <2>2. \/ At(r, "connect", req[r].source, req[r].enrollment)
        \/ At(r, "idle", 0, 0)
    BY <1>8, InsertAgentMove, GotoAt, EndsAt
  <2>3. \A a \in DOMAIN agents' \ DOMAIN agents : agents'[a].enrollment = req[r].enrollment
    <3>1. \/ agents' = agents
          \/ \E x \in Agent : /\ agents' = Append(agents, x)
                              /\ x.enrollment = req[r].enrollment
      BY <1>8, InsertAgentEffect
    <3>2. CASE agents' = agents
      BY <3>2
    <3>3. ASSUME NEW x \in Agent, agents' = Append(agents, x),
                 x.enrollment = req[r].enrollment
          PROVE  \A a \in DOMAIN agents' \ DOMAIN agents :
                   agents'[a].enrollment = req[r].enrollment
      BY <3>3, AgentAdded
    <3> QED
      BY <3>1, <3>2, <3>3
  <2>4. req[r].source \in SourceIds
    BY <2>1 DEF EnrollmentInv, Holds
  <2>5. Holds(r)' /\ req'[r].pc # "agent"
    BY <1>0, <2>2, <2>4 DEF Holds, Deleting, At, SourceIds, SourcesGrow
  <2>6. \A q \in Requests \ {r} : req'[q] = req[q] /\ Holds(q)'
    BY <1>0, <2>1, <2>2, <2>3, HoldsStays DEF RequestInv, At
  <2> QED
    BY <2>5, <2>6 DEF RequestInv
<1>9. ASSUME NEW r \in Requests, ConnectSource(r) PROVE Effect
  <2>1. agents' = agents
    BY <1>9 DEF ConnectSource, sourceVars
  <2> QED
    BY <1>0, <2>1, <1>9, ConnectSourceMove, EndsAt, OneLetsGo
<1>10. ASSUME NEW r \in Requests, GetIngestToken(r) PROVE Effect
  <2>1. agents' = agents
    BY <1>10 DEF GetIngestToken, sourceVars
  <2>2. CASE UNCHANGED req
    BY <1>0, <2>1, <2>2, NoneMoves
  <2>3. CASE Becomes(r, "create", 0, 0, started + 1, DefaultSettings, NoChange)
    <3>1. started \in Nat /\ started < MaxRequests /\ MaxRequests \in Nat
      BY <1>10, AgentAccessAssumption DEF GetIngestToken, Start, TypeOK
    <3>2. /\ At(r, "create", 0, 0) /\ req'[r].id = started + 1
      BY <2>3, BecomesAt
    <3>3. started + 1 \in 1..MaxRequests
      BY <3>1
    <3>4. Holds(r)' /\ req'[r].pc # "agent"
      BY <3>2, <3>3 DEF Holds, Deleting, At
    <3> QED
      BY <1>0, <2>1, <3>2, <3>4, OneMoves DEF At
  <2> QED
    BY <1>10, <2>2, <2>3, GetIngestTokenMove
<1>11. ASSUME NEW r \in Requests, createAccountIngestToken(r) PROVE Effect
  <2>1. agents' = agents
    BY <1>11 DEF createAccountIngestToken, sourceVars
  <2> QED
    BY <1>0, <2>1, <1>11, createAccountIngestTokenMove, EndsAt, OneLetsGo
<1>12. ASSUME NEW r \in Requests, RotateIngestToken(r) PROVE Effect
  <2>1. agents' = agents
    BY <1>12 DEF RotateIngestToken, sourceVars
  <2> QED
    BY <1>0, <2>1, <1>12, RotateIngestTokenMove, NoneMoves
<1>13. ASSUME NEW r \in Requests, AccountIngest(r) PROVE Effect
  <2>1. agents' = agents
    BY <1>13 DEF AccountIngest, sourceVars
  <2> QED
    BY <1>0, <2>1, <1>13, AccountIngestMove, EntersAt, OneLetsGo
<1>14. ASSUME NEW r \in Requests, MarkIngestTrafficSeen(r) PROVE Effect
  <2>1. agents' = agents
    BY <1>14 DEF MarkIngestTrafficSeen, sourceVars
  <2> QED
    BY <1>0, <2>1, <1>14, MarkIngestTrafficSeenMove, GotoAt, EndsAt, OneLetsGo
<1>15. ASSUME NEW r \in Requests, InsertAutoSource(r) PROVE Effect
  <2>1. agents' = agents
    BY <1>15 DEF InsertAutoSource, sourceVars
  <2> QED
    BY <1>0, <2>1, <1>15, InsertAutoSourceMove, EndsAt, OneLetsGo
<1>16. ASSUME NEW r \in Requests, NEW change \in Change, ReadSettings(r, change)
      PROVE  Effect
  <2>1. agents' = agents
    BY <1>16 DEF ReadSettings, sourceVars
  <2>2. PICK d \in settings \union {DefaultSettings} :
          \/ Becomes(r, "default", 0, 0, 0, DefaultSettings, change)
          \/ Becomes(r, "update", 0, 0, 0, d, change)
    BY <1>16, ReadSettingsMove
  <2> QED
    BY <1>0, <2>1, <2>2, BecomesAt, OneLetsGo
<1>17. ASSUME NEW r \in Requests, InsertDefaultSettings(r) PROVE Effect
  <2>1. agents' = agents
    BY <1>17 DEF InsertDefaultSettings, sourceVars
  <2> QED
    BY <1>0, <2>1, <1>17, InsertDefaultSettingsMove, GotoAt, LoadsAt, EndsAt,
       OneLetsGo
<1>18. ASSUME NEW r \in Requests, RereadSettings(r) PROVE Effect
  <2>1. agents' = agents
    BY <1>18 DEF RereadSettings, sourceVars
  <2> QED
    BY <1>0, <2>1, <1>18, RereadSettingsMove, LoadsAt, EndsAt, OneLetsGo
<1>19. ASSUME NEW r \in Requests, UpdateAccountSettings(r) PROVE Effect
  <2>1. agents' = agents
    BY <1>19 DEF UpdateAccountSettings, sourceVars
  <2> QED
    BY <1>0, <2>1, <1>19, UpdateAccountSettingsMove, EndsAt, OneLetsGo
<1>20. ASSUME NEW e \in DOMAIN enrollments, EnrollmentExpires(e) PROVE Effect
  BY <1>0, <1>20, NoneMoves DEF EnrollmentExpires
<1>21. ASSUME Crash PROVE Effect
  BY <1>21, IdleFields DEF Crash, RequestInv, Holds, Deleting
<1>22. ASSUME UNCHANGED vars PROVE Effect
  BY <1>0, <1>22, NoneMoves DEF vars, sourceVars
<1> HIDE DEF Effect
<1>q. Effect
  BY <1>0, <1>1, <1>2, <1>3, <1>4, <1>5, <1>6, <1>7, <1>8, <1>9, <1>10, <1>11,
     <1>12, <1>13, <1>14, <1>15, <1>16, <1>17, <1>18, <1>19, <1>20, <1>21, <1>22 DEF
     Next
<1> QED
  BY <1>q DEF Effect

-----------------------------------------------------------------------------
(* Enrollments and deletes *)

\* What is deleted stays so, and what is not is left alone.
QuietSources ==
    /\ DOMAIN sources \subseteq DOMAIN sources'
    /\ \A s \in DOMAIN sources : /\ sources'[s].deleted = sources[s].deleted
                                 /\ sources'[s].ebpf = sources[s].ebpf

\* A step that neither moves a registration or a delete nor touches enrollments,
\* agents and what is deleted.
Busy == {"expire", "disable", "agent"}
QuietStep ==
    /\ \A q \in Requests : req'[q] = req[q] \/ (req[q].pc \notin Busy /\ req'[q].pc \notin Busy)
    /\ UNCHANGED <<enrollments, agents, unfinished, slipped, spent>>
    /\ QuietSources

\* The other steps of deletes and registrations.
BusyStep ==
    \/ \E r \in Requests :
         \/ \E s \in SourceIds : DeleteDataSource(r, s)
         \/ ExpireEnrollments(r) \/ DisableAgents(r) \/ InsertEnrollment(r) \/ InsertAgent(r)
         \/ \E e \in DOMAIN enrollments : ClaimEnrollment(r, e)
    \/ \E e \in DOMAIN enrollments : EnrollmentExpires(e)
    \/ Crash

LEMMA QuietRequests ==
  ASSUME NEW r \in Requests, NEW p, NEW s, NEW e, At(r, p, s, e),
         req[r].pc \notin Busy, p \notin Busy
  PROVE  \A q \in Requests : req'[q] = req[q] \/ (req[q].pc \notin Busy /\ req'[q].pc \notin Busy)
  BY DEF At

LEMMA SourceAddedQuietly ==
  ASSUME TypeOK, NEW x \in Source, sources' = Append(sources, x)
  PROVE  QuietSources
<1>1. sources \in Seq(Source)
  BY DEF TypeOK
<1> QED
  BY <1>1, NextMember DEF QuietSources

LEMMA SourceStatusQuietly ==
  ASSUME TypeOK, NEW s \in DOMAIN sources, NEW x \in {"PENDING", "CONNECTED", "DELETED"},
         sources' = [sources EXCEPT ![s].status = x]
  PROVE  QuietSources
  BY SourceStatus DEF QuietSources, SourcesGrow

\* Steps are quiet unless they are listed.
LEMMA QuietOrBusy ==
  ASSUME TypeOK, RequestInv, [Next]_vars
  PROVE  QuietStep \/ BusyStep
<1> DEFINE Effect ==
      QuietStep \/ BusyStep
           Keeps == QuietStep
<1>1. ASSUME NEW r \in Requests, NEW ebpf \in BOOLEAN, CreateDataSource(r, ebpf)
      PROVE  Effect
  <2>1. UNCHANGED <<enrollments, agents, unfinished, slipped, spent>>
    BY <1>1 DEF CreateDataSource, sourceVars
  <2>2. QuietSources
    <3>1. \/ sources' = sources
          \/ \E x \in Source : sources' = Append(sources, x)
      BY <1>1 DEF CreateDataSource, NewSource, Source
    <3> QED
      BY <3>1, SourceAddedQuietly DEF QuietSources
  <2>3. req' = req
    BY <1>1, CreateDataSourceMove
  <2> QED
    BY <2>1, <2>2, <2>3 DEF QuietStep
<1>2. ASSUME NEW r \in Requests, NEW s \in SourceIds, DeleteDataSource(r, s)
      PROVE  Effect
  BY <1>2 DEF BusyStep
<1>3. ASSUME NEW r \in Requests, NEW s \in SourceIds, CreateAgentEnrollment(r, s)
      PROVE  Effect
  <2>1. UNCHANGED <<enrollments, agents, unfinished, slipped, spent>>
    BY <1>3 DEF CreateAgentEnrollment, sourceVars
  <2>2. QuietSources
    BY <1>3 DEF CreateAgentEnrollment, sourceVars, QuietSources
  <2>3. req[r].pc \notin Busy
    BY <1>3, CreateAgentEnrollmentMove, IdleFields DEF Busy
  <2>4. (\E t, d : At(r, "enroll", t, d))
    BY <1>3, CreateAgentEnrollmentMove, EntersAt
  <2>6. \A q \in Requests :
          req'[q] = req[q] \/ (req[q].pc \notin Busy /\ req'[q].pc \notin Busy)
    BY <2>3, <2>4, QuietRequests DEF Busy
  <2> QED
    BY <2>1, <2>2, <2>6 DEF QuietStep
<1>4. ASSUME NEW r \in Requests, ExpireEnrollments(r) PROVE Effect
  BY <1>4 DEF BusyStep
<1>5. ASSUME NEW r \in Requests, DisableAgents(r) PROVE Effect
  BY <1>5 DEF BusyStep
<1>6. ASSUME NEW r \in Requests, InsertEnrollment(r) PROVE Effect
  BY <1>6 DEF BusyStep
<1>7. ASSUME NEW r \in Requests, NEW e \in DOMAIN enrollments, ClaimEnrollment(r, e)
      PROVE  Effect
  BY <1>7 DEF BusyStep
<1>8. ASSUME NEW r \in Requests, InsertAgent(r) PROVE Effect
  BY <1>8 DEF BusyStep
<1>9. ASSUME NEW r \in Requests, ConnectSource(r) PROVE Effect
  <2>1. UNCHANGED <<enrollments, agents, unfinished, slipped, spent>>
    BY <1>9 DEF ConnectSource, sourceVars
  <2>2. QuietSources
    <3>1. \/ sources' = sources
          \/ sources' = [sources EXCEPT ![req[r].source].status = "CONNECTED"]
      BY <1>9 DEF ConnectSource
    <3>2. req[r].source \in DOMAIN sources
      BY <1>9, ConnectSourceMove DEF RequestInv, Holds, SourceIds
    <3> QED
      BY <3>1, <3>2, SourceStatusQuietly DEF QuietSources
  <2>3. req[r].pc \notin Busy
    BY <1>9, ConnectSourceMove, IdleFields DEF Busy
  <2>4. (\E t, d : At(r, "idle", t, d))
    BY <1>9, ConnectSourceMove, EndsAt
  <2>6. \A q \in Requests :
          req'[q] = req[q] \/ (req[q].pc \notin Busy /\ req'[q].pc \notin Busy)
    BY <2>3, <2>4, QuietRequests DEF Busy
  <2> QED
    BY <2>1, <2>2, <2>6 DEF QuietStep
<1>10. ASSUME NEW r \in Requests, GetIngestToken(r) PROVE Effect
  <2>1. UNCHANGED <<enrollments, agents, unfinished, slipped, spent>>
    BY <1>10 DEF GetIngestToken, sourceVars
  <2>2. QuietSources
    BY <1>10 DEF GetIngestToken, sourceVars, QuietSources
  <2>3. req[r].pc \notin Busy
    BY <1>10, GetIngestTokenMove, IdleFields DEF Busy
  <2>4. req' = req \/ (\E t, d : At(r, "create", t, d))
    BY <1>10, GetIngestTokenMove, BecomesAt
  <2>6. \A q \in Requests :
          req'[q] = req[q] \/ (req[q].pc \notin Busy /\ req'[q].pc \notin Busy)
    BY <2>3, <2>4, QuietRequests DEF Busy
  <2> QED
    BY <2>1, <2>2, <2>6 DEF QuietStep
<1>11. ASSUME NEW r \in Requests, createAccountIngestToken(r) PROVE Effect
  <2>1. UNCHANGED <<enrollments, agents, unfinished, slipped, spent>>
    BY <1>11 DEF createAccountIngestToken, sourceVars
  <2>2. QuietSources
    BY <1>11 DEF createAccountIngestToken, sourceVars, QuietSources
  <2>3. req[r].pc \notin Busy
    BY <1>11, createAccountIngestTokenMove, IdleFields DEF Busy
  <2>4. (\E t, d : At(r, "idle", t, d))
    BY <1>11, createAccountIngestTokenMove, EndsAt
  <2>6. \A q \in Requests :
          req'[q] = req[q] \/ (req[q].pc \notin Busy /\ req'[q].pc \notin Busy)
    BY <2>3, <2>4, QuietRequests DEF Busy
  <2> QED
    BY <2>1, <2>2, <2>6 DEF QuietStep
<1>12. ASSUME NEW r \in Requests, RotateIngestToken(r) PROVE Effect
  <2>1. UNCHANGED <<enrollments, agents, unfinished, slipped, spent>>
    BY <1>12 DEF RotateIngestToken, sourceVars
  <2>2. QuietSources
    BY <1>12 DEF RotateIngestToken, sourceVars, QuietSources
  <2>3. req' = req
    BY <1>12, RotateIngestTokenMove
  <2> QED
    BY <2>1, <2>2, <2>3 DEF QuietStep
<1>13. ASSUME NEW r \in Requests, AccountIngest(r) PROVE Effect
  <2>1. UNCHANGED <<enrollments, agents, unfinished, slipped, spent>>
    BY <1>13 DEF AccountIngest, sourceVars
  <2>2. QuietSources
    BY <1>13 DEF AccountIngest, sourceVars, QuietSources
  <2>3. req[r].pc \notin Busy
    BY <1>13, AccountIngestMove, IdleFields DEF Busy
  <2>4. (\E t, d : At(r, "mark", t, d))
    BY <1>13, AccountIngestMove, EntersAt
  <2>6. \A q \in Requests :
          req'[q] = req[q] \/ (req[q].pc \notin Busy /\ req'[q].pc \notin Busy)
    BY <2>3, <2>4, QuietRequests DEF Busy
  <2> QED
    BY <2>1, <2>2, <2>6 DEF QuietStep
<1>14. ASSUME NEW r \in Requests, MarkIngestTrafficSeen(r) PROVE Effect
  <2>1. UNCHANGED <<enrollments, agents, unfinished, slipped, spent>>
    BY <1>14 DEF MarkIngestTrafficSeen, sourceVars
  <2>2. QuietSources
    <3>1. \/ sources' = sources
          \/ \E s \in Listed : sources' = [sources EXCEPT ![s].status = "CONNECTED"]
      BY <1>14 DEF MarkIngestTrafficSeen, Markable
    <3> QED
      BY <3>1, SourceStatusQuietly DEF QuietSources, Listed, SourceIds
  <2>3. req[r].pc \notin Busy
    BY <1>14, MarkIngestTrafficSeenMove, IdleFields DEF Busy
  <2>4. (\E t, d : At(r, "idle", t, d)) \/ (\E t, d : At(r, "auto", t, d))
    BY <1>14, MarkIngestTrafficSeenMove, GotoAt, EndsAt
  <2>6. \A q \in Requests :
          req'[q] = req[q] \/ (req[q].pc \notin Busy /\ req'[q].pc \notin Busy)
    BY <2>3, <2>4, QuietRequests DEF Busy
  <2> QED
    BY <2>1, <2>2, <2>6 DEF QuietStep
<1>15. ASSUME NEW r \in Requests, InsertAutoSource(r) PROVE Effect
  <2>1. UNCHANGED <<enrollments, agents, unfinished, slipped, spent>>
    BY <1>15 DEF InsertAutoSource, sourceVars
  <2>2. QuietSources
    <3>1. \/ sources' = sources
          \/ \E x \in Source : sources' = Append(sources, x)
      BY <1>15 DEF InsertAutoSource, NewSource, Source
    <3> QED
      BY <3>1, SourceAddedQuietly DEF QuietSources
  <2>3. req[r].pc \notin Busy
    BY <1>15, InsertAutoSourceMove, IdleFields DEF Busy
  <2>4. (\E t, d : At(r, "idle", t, d))
    BY <1>15, InsertAutoSourceMove, EndsAt
  <2>6. \A q \in Requests :
          req'[q] = req[q] \/ (req[q].pc \notin Busy /\ req'[q].pc \notin Busy)
    BY <2>3, <2>4, QuietRequests DEF Busy
  <2> QED
    BY <2>1, <2>2, <2>6 DEF QuietStep
<1>16. ASSUME NEW r \in Requests, NEW change \in Change, ReadSettings(r, change)
      PROVE  Effect
  <2>1. UNCHANGED <<enrollments, agents, unfinished, slipped, spent>>
    BY <1>16 DEF ReadSettings, sourceVars
  <2>2. QuietSources
    BY <1>16 DEF ReadSettings, sourceVars, QuietSources
  <2>3. req[r].pc \notin Busy
    BY <1>16, ReadSettingsMove, IdleFields DEF Busy
  <2>4. PICK d \in settings \union {DefaultSettings} :
          \/ Becomes(r, "default", 0, 0, 0, DefaultSettings, change)
          \/ Becomes(r, "update", 0, 0, 0, d, change)
    BY <1>16, ReadSettingsMove
  <2>5. \/ At(r, "default", 0, 0) \/ At(r, "update", 0, 0)
    BY <2>4, BecomesAt
  <2>6. \A q \in Requests :
          req'[q] = req[q] \/ (req[q].pc \notin Busy /\ req'[q].pc \notin Busy)
    BY <2>3, <2>5, QuietRequests DEF Busy
  <2> QED
    BY <2>1, <2>2, <2>6 DEF QuietStep
<1>17. ASSUME NEW r \in Requests, InsertDefaultSettings(r) PROVE Effect
  <2>1. UNCHANGED <<enrollments, agents, unfinished, slipped, spent>>
    BY <1>17 DEF InsertDefaultSettings, sourceVars
  <2>2. QuietSources
    BY <1>17 DEF InsertDefaultSettings, sourceVars, QuietSources
  <2>3. req[r].pc \notin Busy
    BY <1>17, InsertDefaultSettingsMove, IdleFields DEF Busy
  <2>4. (\E t, d : At(r, "idle", t, d)) \/ (\E t, d : At(r, "reread", t, d)) \/ (\E t, d : At(r, "update", t, d))
    BY <1>17, InsertDefaultSettingsMove, GotoAt, LoadsAt, EndsAt
  <2>6. \A q \in Requests :
          req'[q] = req[q] \/ (req[q].pc \notin Busy /\ req'[q].pc \notin Busy)
    BY <2>3, <2>4, QuietRequests DEF Busy
  <2> QED
    BY <2>1, <2>2, <2>6 DEF QuietStep
<1>18. ASSUME NEW r \in Requests, RereadSettings(r) PROVE Effect
  <2>1. UNCHANGED <<enrollments, agents, unfinished, slipped, spent>>
    BY <1>18 DEF RereadSettings, sourceVars
  <2>2. QuietSources
    BY <1>18 DEF RereadSettings, sourceVars, QuietSources
  <2>3. req[r].pc \notin Busy
    BY <1>18, RereadSettingsMove, IdleFields DEF Busy
  <2>4. (\E t, d : At(r, "idle", t, d)) \/ (\E t, d : At(r, "update", t, d))
    BY <1>18, RereadSettingsMove, LoadsAt, EndsAt
  <2>6. \A q \in Requests :
          req'[q] = req[q] \/ (req[q].pc \notin Busy /\ req'[q].pc \notin Busy)
    BY <2>3, <2>4, QuietRequests DEF Busy
  <2> QED
    BY <2>1, <2>2, <2>6 DEF QuietStep
<1>19. ASSUME NEW r \in Requests, UpdateAccountSettings(r) PROVE Effect
  <2>1. UNCHANGED <<enrollments, agents, unfinished, slipped, spent>>
    BY <1>19 DEF UpdateAccountSettings, sourceVars
  <2>2. QuietSources
    BY <1>19 DEF UpdateAccountSettings, sourceVars, QuietSources
  <2>3. req[r].pc \notin Busy
    BY <1>19, UpdateAccountSettingsMove, IdleFields DEF Busy
  <2>4. (\E t, d : At(r, "idle", t, d))
    BY <1>19, UpdateAccountSettingsMove, EndsAt
  <2>6. \A q \in Requests :
          req'[q] = req[q] \/ (req[q].pc \notin Busy /\ req'[q].pc \notin Busy)
    BY <2>3, <2>4, QuietRequests DEF Busy
  <2> QED
    BY <2>1, <2>2, <2>6 DEF QuietStep
<1>20. ASSUME NEW e \in DOMAIN enrollments, EnrollmentExpires(e) PROVE Effect
  BY <1>20 DEF BusyStep
<1>21. ASSUME Crash PROVE Effect
  BY <1>21 DEF BusyStep
<1>22. ASSUME UNCHANGED vars PROVE Keeps
  BY <1>22 DEF vars, sourceVars, QuietStep, QuietSources
<1>23. ASSUME Keeps PROVE Effect
  BY <1>23
<1> HIDE DEF Effect, Keeps
<1>q. Effect
  BY <1>1, <1>2, <1>3, <1>4, <1>5, <1>6, <1>7, <1>8, <1>9, <1>10, <1>11, <1>12,
     <1>13, <1>14, <1>15, <1>16, <1>17, <1>18, <1>19, <1>20, <1>21, <1>22, <1>23 DEF
     Next
<1> QED
  BY <1>q DEF Effect

\* Registrations that are between their calls.
LEMMA InRegistering ==
  \A e : e \in Registering <=> \E q \in Requests : req[q].pc = "agent" /\ req[q].enrollment = e
  BY DEF Registering
LEMMA InRegisteringNext ==
  \A e : e \in Registering' <=> \E q \in Requests : req'[q].pc = "agent" /\ req'[q].enrollment = e
  BY DEF Registering

\* A move between calls that are not a registration's registers nothing.
LEMMA RegisteringStays ==
  ASSUME NEW r \in Requests, NEW p, NEW s, NEW e, At(r, p, s, e),
         req[r].pc # "agent", p # "agent"
  PROVE  \A d : d \in Registering' <=> d \in Registering
  BY InRegistering, InRegisteringNext DEF At

\* The parts of EnrollmentInv.
UsedLeads(e) ==
    enrollments[e].status = "used" /\ e \notin spent \union Registering
    => \E a \in DOMAIN agents : agents[a].enrollment = e

\* Agents that are kept keep what EnrollmentInv says of them.
LEMMA EnrollmentsHold ==
  ASSUME TypeOK, EnrollmentInv, SourcesGrow, EnrollmentsGrow, AgentsGrow,
         DOMAIN enrollments' = DOMAIN enrollments, DOMAIN agents' = DOMAIN agents,
         \A e \in DOMAIN enrollments : UsedLeads(e)'
  PROVE  EnrollmentInv'
<1>1. \A e \in DOMAIN enrollments' :
        enrollments'[e].source \in SourceIds' /\ sources'[enrollments'[e].source].ebpf
  BY DEF EnrollmentInv, EnrollmentsGrow, SourcesGrow, SourceIds
<1>2. \A a \in DOMAIN agents' :
        /\ agents'[a].enrollment \in DOMAIN enrollments'
        /\ enrollments'[agents'[a].enrollment].status = "used"
        /\ agents'[a].source = enrollments'[agents'[a].enrollment].source
  BY DEF EnrollmentInv, EnrollmentsGrow, AgentsGrow
<1>3. \A a, b \in DOMAIN agents' : agents'[a].enrollment = agents'[b].enrollment => a = b
  BY DEF EnrollmentInv, AgentsGrow
<1> QED
  BY <1>1, <1>2, <1>3 DEF EnrollmentInv, UsedLeads

\* Each step leaves enrollments with at most one agent, and for nothing only
\* after a failure.
LEMMA EnrollmentStep ==
  ASSUME TypeOK, RequestInv, EnrollmentInv, [Next]_vars
  PROVE  EnrollmentInv'
<1>0. SourcesGrow /\ EnrollmentsGrow /\ AgentsGrow
  BY SourcesStep, EnrollmentsStep, AgentsStep
<1>1. CASE QuietStep
  <2>1. \A d : d \in Registering' <=> d \in Registering
    BY <1>1, InRegistering, InRegisteringNext DEF QuietStep, Busy
  <2>2. \A e \in DOMAIN enrollments : UsedLeads(e)'
    BY <1>1, <2>1 DEF QuietStep, EnrollmentInv, UsedLeads
  <2> QED
    BY <1>0, <1>1, <2>2, EnrollmentsHold DEF QuietStep
<1>2. ASSUME NEW r \in Requests, NEW s \in SourceIds, DeleteDataSource(r, s)
      PROVE  EnrollmentInv'
  <2>1. UNCHANGED <<enrollments, agents, spent>>
    BY <1>2 DEF DeleteDataSource
  <2>2. req[r].pc = "idle" /\ (req' = req \/ At(r, "expire", s, 0))
    BY <1>2, DeleteDataSourceMove, EntersAt, IdleFields
  <2>3. \A d : d \in Registering' <=> d \in Registering
    BY <2>2, RegisteringStays, InRegistering, InRegisteringNext
  <2>4. \A e \in DOMAIN enrollments : UsedLeads(e)'
    BY <2>1, <2>3 DEF EnrollmentInv, UsedLeads
  <2> QED
    BY <1>0, <2>1, <2>4, EnrollmentsHold
<1>3. ASSUME NEW r \in Requests, ExpireEnrollments(r)
      PROVE  EnrollmentInv'
  <2>1. UNCHANGED <<agents, spent>>
    BY <1>3 DEF ExpireEnrollments
  <2>2. req[r].pc = "expire" /\ ((\E s : At(r, "disable", s, 0)) \/ At(r, "idle", 0, 0))
    BY <1>3, ExpireEnrollmentsMove, EntersAt, EndsAt
  <2>3. \A d : d \in Registering' <=> d \in Registering
    BY <2>2, RegisteringStays
  <2>4. /\ DOMAIN enrollments' = DOMAIN enrollments
        /\ \A e \in DOMAIN enrollments :
             enrollments'[e].status = "used" => enrollments[e].status = "used"
    BY <1>3, ExpireEnrollmentsEffect
  <2>5. \A e \in DOMAIN enrollments : UsedLeads(e)'
    BY <2>1, <2>3, <2>4 DEF EnrollmentInv, UsedLeads
  <2> QED
    BY <1>0, <2>1, <2>4, <2>5, EnrollmentsHold
<1>4. ASSUME NEW r \in Requests, DisableAgents(r)
      PROVE  EnrollmentInv'
  <2>1. UNCHANGED <<enrollments, spent>>
    BY <1>4 DEF DisableAgents
  <2>2. req[r].pc = "disable" /\ At(r, "idle", 0, 0)
    BY <1>4, DisableAgentsMove, EndsAt
  <2>3. \A d : d \in Registering' <=> d \in Registering
    BY <2>2, RegisteringStays
  <2>4. DOMAIN agents' = DOMAIN agents
    BY <1>4, DisableAgentsEffect
  <2>5. \A e \in DOMAIN enrollments : UsedLeads(e)'
    BY <1>0, <2>1, <2>3, <2>4 DEF EnrollmentInv, UsedLeads, AgentsGrow
  <2> QED
    BY <1>0, <2>1, <2>4, <2>5, EnrollmentsHold
<1>5. ASSUME NEW r \in Requests, InsertEnrollment(r)
      PROVE  EnrollmentInv'
  <2> DEFINE x == [source |-> req[r].source, status |-> "open"]
  <2>1. UNCHANGED <<sources, agents, spent>>
    BY <1>5 DEF InsertEnrollment
  <2>2. req[r].pc = "enroll" /\ At(r, "idle", 0, 0) /\ Holds(r)
    BY <1>5, InsertEnrollmentMove, EndsAt DEF RequestInv
  <2>3. \A d : d \in Registering' <=> d \in Registering
    BY <2>2, RegisteringStays
  <2>4. enrollments' = enrollments \/ enrollments' = Append(enrollments, x)
    BY <1>5 DEF InsertEnrollment
  <2>5. CASE enrollments' = enrollments
    <3>1. \A e \in DOMAIN enrollments : UsedLeads(e)'
      BY <2>1, <2>3, <2>5 DEF EnrollmentInv, UsedLeads
    <3> QED
      BY <1>0, <2>1, <2>5, <3>1, EnrollmentsHold
  <2>6. CASE enrollments' = Append(enrollments, x)
    <3>1. req[r].source \in SourceIds /\ sources[req[r].source].ebpf
      BY <2>2 DEF Holds
    <3>2. x \in Enrollment /\ x.status = "open" /\ x.source = req[r].source
      BY <3>1, MemberNumbers DEF TypeOK, SourceIds, Enrollment
    <3>3. /\ DOMAIN enrollments' = DOMAIN enrollments \union {Len(enrollments) + 1}
          /\ Len(enrollments) + 1 \notin DOMAIN enrollments
          /\ enrollments'[Len(enrollments) + 1] = x
          /\ \A e \in DOMAIN enrollments : enrollments'[e] = enrollments[e]
      BY <2>6, <3>2, NextMember DEF TypeOK
    <3> HIDE DEF x
    <3>4. \A e \in DOMAIN enrollments' :
            enrollments'[e].source \in SourceIds' /\ sources'[enrollments'[e].source].ebpf
      BY <2>1, <3>1, <3>2, <3>3 DEF EnrollmentInv, SourceIds
    <3>5. \A e \in DOMAIN enrollments' : UsedLeads(e)'
      BY <2>1, <2>3, <3>2, <3>3 DEF EnrollmentInv, UsedLeads
    <3>6. \A a \in DOMAIN agents' :
            /\ agents'[a].enrollment \in DOMAIN enrollments'
            /\ enrollments'[agents'[a].enrollment].status = "used"
            /\ agents'[a].source = enrollments'[agents'[a].enrollment].source
      BY <2>1, <3>3 DEF EnrollmentInv
    <3> QED
      BY <2>1, <3>4, <3>5, <3>6 DEF EnrollmentInv, UsedLeads
  <2> QED
    BY <2>4, <2>5, <2>6
<1>6. ASSUME NEW r \in Requests, InsertAgent(r)
      PROVE  EnrollmentInv'
  <2>1. UNCHANGED <<sources, enrollments>>
    BY <1>6 DEF InsertAgent
  <2>2. req[r].pc = "agent" /\ Holds(r) /\ \E p, s, e : At(r, p, s, e) /\ p # "agent"
    BY <1>6, InsertAgentMove, GotoAt, EndsAt DEF RequestInv
  <2>3. \A d : d \in Registering /\ d # req[r].enrollment => d \in Registering'
    BY <2>2, InRegistering, InRegisteringNext DEF At
  <2>4. CASE agents' = agents
    <3>1. spent' = spent \union {req[r].enrollment}
      BY <1>6, <2>4, InsertAgentEffect, AgentAdded
    <3>2. \A e \in DOMAIN enrollments : UsedLeads(e)'
      BY <2>1, <2>3, <2>4, <3>1 DEF EnrollmentInv, UsedLeads
    <3> QED
      BY <1>0, <2>1, <2>4, <3>2, EnrollmentsHold
  <2>5. ASSUME NEW x \in Agent, agents' = Append(agents, x),
               x.enrollment = req[r].enrollment, x.source = req[r].source
        PROVE  EnrollmentInv'
    <3>1. /\ DOMAIN agents' = DOMAIN agents \union {Len(agents) + 1}
          /\ Len(agents) + 1 \notin DOMAIN agents /\ agents'[Len(agents) + 1] = x
          /\ \A a \in DOMAIN agents : agents'[a] = agents[a]
      BY <2>5, AgentAdded
    <3>2. /\ req[r].enrollment \in DOMAIN enrollments
          /\ enrollments[req[r].enrollment].status = "used"
          /\ req[r].source = enrollments[req[r].enrollment].source
          /\ \A a \in DOMAIN agents : agents[a].enrollment # req[r].enrollment
      BY <2>2 DEF Holds
    <3>3. spent \subseteq spent'
      BY <1>6, InsertAgentEffect
    <3>4. \A e \in DOMAIN enrollments : UsedLeads(e)'
      BY <2>1, <2>3, <2>5, <3>1, <3>3 DEF EnrollmentInv, UsedLeads
    <3>5. \A a \in DOMAIN agents' :
            /\ agents'[a].enrollment \in DOMAIN enrollments'
            /\ enrollments'[agents'[a].enrollment].status = "used"
            /\ agents'[a].source = enrollments'[agents'[a].enrollment].source
      BY <2>1, <2>5, <3>1, <3>2 DEF EnrollmentInv
    <3>6. \A a, b \in DOMAIN agents' : agents'[a].enrollment = agents'[b].enrollment => a = b
      BY <2>5, <3>1, <3>2 DEF EnrollmentInv
    <3>7. \A e \in DOMAIN enrollments' :
            enrollments'[e].source \in SourceIds' /\ sources'[enrollments'[e].source].ebpf
      BY <2>1 DEF EnrollmentInv, SourceIds
    <3> QED
      BY <2>1, <3>4, <3>5, <3>6, <3>7 DEF EnrollmentInv, UsedLeads
  <2>6. \/ agents' = agents
        \/ \E x \in Agent : /\ agents' = Append(agents, x)
                            /\ x.enrollment = req[r].enrollment /\ x.source = req[r].source
    BY <1>6, InsertAgentEffect
  <2> QED
    BY <2>4, <2>5, <2>6
<1>7. ASSUME NEW r \in Requests, NEW e \in DOMAIN enrollments, ClaimEnrollment(r, e)
      PROVE  EnrollmentInv'
  <2>1. UNCHANGED <<sources, agents>>
    BY <1>7 DEF ClaimEnrollment
  <2>2. req[r].pc = "idle" /\ enrollments[e].status = "open"
    BY <1>7, ClaimEnrollmentMove, IdleFields DEF ClaimEnrollment, Claimable
  <2>3. req' = req \/ At(r, "agent", enrollments[e].source, e)
    BY <1>7, ClaimEnrollmentMove, EntersAt
  <2>4. \A d \in Registering : d \in Registering'
    BY <2>2, <2>3, InRegistering, InRegisteringNext DEF At
  <2>5. spent \subseteq spent'
    BY <1>7 DEF ClaimEnrollment
  <2>6. CASE enrollments' = enrollments
    <3>1. \A d \in DOMAIN enrollments : UsedLeads(d)'
      BY <2>1, <2>4, <2>5, <2>6 DEF EnrollmentInv, UsedLeads
    <3> QED
      BY <1>0, <2>1, <2>6, <3>1, EnrollmentsHold
  <2>7. CASE enrollments' = [enrollments EXCEPT ![e].status = "used"]
    <3>1. /\ DOMAIN enrollments' = DOMAIN enrollments
          /\ \A d \in DOMAIN enrollments \ {e} : enrollments'[d] = enrollments[d]
          /\ enrollments'[e].status = "used"
      BY <2>2, <2>7, EnrollmentClosed
    <3>2. e \in spent' \union Registering'
      <4>1. enrollments' # enrollments
        BY <2>2, <3>1
      <4>2. e \in spent' \/ Become(r, [Idle EXCEPT !.pc = "agent", !.enrollment = e,
                                                  !.source = enrollments[e].source])
        BY <1>7, <4>1 DEF ClaimEnrollment
      <4>3. CASE req' = req
        <5>1. req[r].pc # "agent" /\ req \in [Requests -> Request]
          BY <2>2 DEF TypeOK
        <5>2. ~Become(r, [Idle EXCEPT !.pc = "agent", !.enrollment = e,
                                      !.source = enrollments[e].source])
          BY <5>1, <4>3 DEF Become, Idle
        <5> QED
          BY <4>2, <5>2
      <4>4. CASE At(r, "agent", enrollments[e].source, e)
        BY <4>4, InRegisteringNext DEF At
      <4> QED
        BY <2>3, <4>3, <4>4
    <3>3. \A d \in DOMAIN enrollments : UsedLeads(d)'
      BY <2>1, <2>4, <2>5, <3>1, <3>2 DEF EnrollmentInv, UsedLeads
    <3> QED
      BY <1>0, <2>1, <3>1, <3>3, EnrollmentsHold
  <2> QED
    BY <1>7, <2>6, <2>7 DEF ClaimEnrollment
<1>8. ASSUME NEW e \in DOMAIN enrollments, EnrollmentExpires(e)
      PROVE  EnrollmentInv'
  <2>1. UNCHANGED <<agents, spent, req>> /\ enrollments[e].status = "open"
    BY <1>8 DEF EnrollmentExpires
  <2>2. /\ DOMAIN enrollments' = DOMAIN enrollments
        /\ \A d \in DOMAIN enrollments :
             enrollments'[d].status = "used" => enrollments[d].status = "used"
    BY <1>8, <2>1, EnrollmentClosed DEF EnrollmentExpires
  <2>3. \A d : d \in Registering' <=> d \in Registering
    BY <2>1, InRegistering, InRegisteringNext
  <2>4. \A d \in DOMAIN enrollments : UsedLeads(d)'
    BY <2>1, <2>2, <2>3 DEF EnrollmentInv, UsedLeads
  <2> QED
    BY <1>0, <2>1, <2>2, <2>4, EnrollmentsHold
<1>9. ASSUME Crash
      PROVE  EnrollmentInv'
  <2>1. UNCHANGED <<enrollments, agents>> /\ spent' = spent \union Registering
    BY <1>9 DEF Crash
  <2>2. \A e \in DOMAIN enrollments : UsedLeads(e)'
    BY <2>1 DEF EnrollmentInv, UsedLeads
  <2> QED
    BY <1>0, <2>1, <2>2, EnrollmentsHold
<1> QED
  BY <1>1, <1>2, <1>3, <1>4, <1>5, <1>6, <1>7, <1>8, <1>9, QuietOrBusy DEF BusyStep

\* A deleted source stays settled under requests that are not deletes of it.
LEMMA SettledBefore ==
  ASSUME NEW s \in SourceIds, NEW r \in Requests, NEW p, NEW t, NEW e, At(r, p, t, e),
         sources'[s].deleted = sources[s].deleted,
         s \notin unfinished' => s \notin unfinished,
         req[r].pc \in {"expire", "disable"} => s # req[r].source, Settled(s)'
  PROVE  Settled(s)
<1>1. sources[s].deleted /\ s \notin unfinished
  BY DEF Settled
<1>2. \A q \in Requests : ~(Deleting(q) /\ req[q].source = s)
  BY DEF Settled, Deleting, At
<1> QED
  BY <1>1, <1>2 DEF Settled

\* Steps that keep slipped enrollments, settle no source and revive no enrollment.
LEMMA SlippedStay ==
  ASSUME DeleteInv, EnrollmentInv, slipped \subseteq slipped',
         DOMAIN enrollments' = DOMAIN enrollments, EnrollmentsGrow,
         \A s \in SourceIds : Settled(s)' => Settled(s),
         \A e \in DOMAIN enrollments : Alive(e)' => Alive(e)
  PROVE  \A s \in SourceIds', e \in DOMAIN enrollments' :
           Settled(s)' /\ enrollments'[e].source = s /\ Alive(e)' => e \in slipped'
  BY DEF DeleteInv, EnrollmentInv, EnrollmentsGrow

\* The second part of DeleteInv.
DisableInv ==
    \A r \in Requests, e \in DOMAIN enrollments :
         /\ req[r].pc = "disable" /\ enrollments[e].status = "open"
         /\ req[r].source = enrollments[e].source
         => e \in slipped

LEMMA DisableStays ==
  ASSUME DeleteInv, slipped \subseteq slipped', DOMAIN enrollments' = DOMAIN enrollments,
         EnrollmentsGrow,
         \A q \in Requests : req'[q].pc = "disable" => req'[q] = req[q]
  PROVE  DisableInv'
  BY DEF DeleteInv, DisableInv, EnrollmentsGrow

\* Enrollments are as alive as before when their status, their registrations and
\* their agents are.
LEMMA AliveBefore ==
  ASSUME NEW e, enrollments'[e].status = "open" => enrollments[e].status = "open",
         e \in Registering' => e \in Registering, AgentsGrow, DOMAIN agents' = DOMAIN agents,
         Alive(e)'
  PROVE  Alive(e)
  BY DEF Alive, AgentsGrow

\* Each step leaves no agent of a settled source active, except those that
\* slipped through.
LEMMA DeleteStep ==
  ASSUME TypeOK, RequestInv, EnrollmentInv, DeleteInv, [Next]_vars
  PROVE  DeleteInv'
<1>0. SourcesGrow /\ EnrollmentsGrow /\ AgentsGrow
  BY SourcesStep, EnrollmentsStep, AgentsStep
<1>1. CASE QuietStep
  <2>1. UNCHANGED <<enrollments, agents, unfinished, slipped>>
    BY <1>1 DEF QuietStep
  <2>2. \A d : d \in Registering' <=> d \in Registering
    BY <1>1, InRegistering, InRegisteringNext DEF QuietStep, Busy
  <2>3. \A e \in DOMAIN enrollments : Alive(e)' => Alive(e)
    BY <1>0, <2>1, <2>2, AliveBefore
  <2>4. \A t \in SourceIds : Settled(t)' => Settled(t)
    BY <1>1 DEF QuietStep, QuietSources, Busy, Settled, Deleting, SourceIds
  <2>5. DisableInv'
    BY <1>1, <1>0, <2>1, DisableStays DEF QuietStep, Busy
  <2> QED
    BY <1>0, <2>1, <2>3, <2>4, <2>5, SlippedStay DEF DeleteInv, DisableInv
<1>2. ASSUME NEW r \in Requests, NEW s \in SourceIds, DeleteDataSource(r, s)
      PROVE  DeleteInv'
  <2>1. UNCHANGED <<enrollments, agents, slipped>>
    BY <1>2 DEF DeleteDataSource
  <2>2. req[r].pc = "idle" /\ (req' = req \/ At(r, "expire", s, 0))
    BY <1>2, DeleteDataSourceMove, EntersAt, IdleFields
  <2>3. \A d : d \in Registering' <=> d \in Registering
    BY <2>2, RegisteringStays, InRegistering, InRegisteringNext
  <2>4. \A t \in SourceIds \ {s} : sources'[t] = sources[t]
    BY <1>2, SourceDeleted DEF DeleteDataSource, SourceIds
  <2>5. /\ \A t \in SourceIds : t \notin unfinished' => t \notin unfinished
        /\ s \in unfinished' \/ At(r, "expire", s, 0)
    <3>1. \/ unfinished' = unfinished \union {s}
          \/ unfinished' = unfinished /\ Continue(r, "delete", s)
      BY <1>2 DEF DeleteDataSource
    <3>2. Continue(r, "delete", s) => Enters(r, "expire", s, 0)
      BY DEF Continue, NextUpdate, Become, Enters, Becomes, Idle, Local
    <3> QED
      BY <3>1, <3>2, EntersAt
  <2>6. ~Settled(s)'
    BY <2>5 DEF Settled, Deleting, At
  <2>7. \A t \in SourceIds : Settled(t)' => Settled(t)
    <3>1. ASSUME NEW t \in SourceIds, Settled(t)'
          PROVE  Settled(t)
      <4>1. t # s /\ sources'[t] = sources[t]
        BY <2>4, <2>6, <3>1
      <4>2. CASE req' = req
        BY <2>5, <3>1, <4>1, <4>2 DEF Settled, Deleting
      <4>3. CASE At(r, "expire", s, 0)
        BY <2>2, <2>5, <3>1, <4>1, <4>3, SettledBefore
      <4> QED
        BY <2>2, <4>2, <4>3
    <3> QED
      BY <3>1
  <2>8. \A e \in DOMAIN enrollments : Alive(e)' => Alive(e)
    BY <1>0, <2>1, <2>3, AliveBefore
  <2>9. DisableInv'
    BY <1>0, <2>1, <2>2, DisableStays DEF At
  <2> QED
    BY <1>0, <2>1, <2>7, <2>8, <2>9, SlippedStay DEF DeleteInv, DisableInv
<1>3. ASSUME NEW r \in Requests, ExpireEnrollments(r)
      PROVE  DeleteInv'
  <2>1. UNCHANGED <<sources, agents, slipped>> /\ DOMAIN enrollments' = DOMAIN enrollments
    BY <1>3, ExpireEnrollmentsEffect DEF ExpireEnrollments
  <2>2. /\ req[r].pc = "expire"
        /\ \/ /\ At(r, "disable", req[r].source, 0) /\ unfinished' = unfinished
              /\ \A e \in DOMAIN enrollments :
                   enrollments'[e].source = req[r].source => enrollments'[e].status # "open"
           \/ At(r, "idle", 0, 0) /\ unfinished' = unfinished \union {req[r].source}
    <3>1. req[r].pc = "expire"
      BY <1>3, ExpireEnrollmentsMove
    <3>2. PICK E \in SUBSET {e \in DOMAIN enrollments : enrollments[e].source = req[r].source
                                                     /\ enrollments[e].status = "open"} :
            /\ \A e \in DOMAIN enrollments :
                 IF e \in E THEN enrollments'[e].status = "expired"
                            ELSE enrollments'[e] = enrollments[e]
            /\ \/ /\ Enters(r, "disable", req[r].source, 0) /\ UNCHANGED unfinished
                  /\ E = {e \in DOMAIN enrollments : enrollments[e].source = req[r].source
                                                     /\ enrollments[e].status = "open"}
               \/ Ends(r) /\ unfinished' = unfinished \union {req[r].source}
      BY <1>3, ExpireEnrollmentsEffect
    <3>3. CASE /\ Enters(r, "disable", req[r].source, 0) /\ UNCHANGED unfinished
               /\ E = {e \in DOMAIN enrollments : enrollments[e].source = req[r].source
                                                  /\ enrollments[e].status = "open"}
      <4>1. \A e \in DOMAIN enrollments :
              enrollments'[e].source = req[r].source => enrollments'[e].status # "open"
        BY <1>0, <3>2, <3>3 DEF EnrollmentsGrow
      <4> QED
        BY <3>1, <3>3, <4>1, EntersAt
    <3>4. CASE Ends(r) /\ unfinished' = unfinished \union {req[r].source}
      BY <3>1, <3>4, EndsAt
    <3> QED
      BY <3>2, <3>3, <3>4
  <2>3. \A d : d \in Registering' <=> d \in Registering
    BY <2>2, RegisteringStays
  <2>0. PICK s : s = req[r].source
    OBVIOUS
  <2>4. ~Settled(s)'
    BY <2>0, <2>2 DEF Settled, Deleting, At
  <2>5. \A t \in SourceIds : Settled(t)' => Settled(t)
    BY <2>0, <2>1, <2>2, <2>4, SettledBefore
  <2>6. \A e \in DOMAIN enrollments : Alive(e)' => Alive(e)
    BY <1>0, <2>1, <2>3, AliveBefore DEF EnrollmentsGrow
  <2>7. DisableInv'
    <3>1. CASE At(r, "idle", 0, 0)
      BY <1>0, <2>1, <3>1, DisableStays DEF At
    <3>2. ASSUME At(r, "disable", req[r].source, 0),
                 \A e \in DOMAIN enrollments :
                   enrollments'[e].source = req[r].source => enrollments'[e].status # "open"
          PROVE  DisableInv'
      <4>1. ASSUME NEW q \in Requests, NEW e \in DOMAIN enrollments', req'[q].pc = "disable",
                   enrollments'[e].status = "open", req'[q].source = enrollments'[e].source
            PROVE  e \in slipped'
        <5>1. q # r
          BY <2>1, <3>2, <4>1 DEF At
        <5>2. req'[q] = req[q]
          BY <3>2, <5>1 DEF At
        <5> QED
          BY <1>0, <2>1, <4>1, <5>2 DEF DeleteInv, EnrollmentsGrow
      <4> QED
        BY <4>1 DEF DisableInv
    <3> QED
      BY <2>2, <3>1, <3>2
  <2> QED
    BY <1>0, <2>1, <2>5, <2>6, <2>7, SlippedStay DEF DeleteInv, DisableInv
<1>4. ASSUME NEW r \in Requests, DisableAgents(r)
      PROVE  DeleteInv'
  <2>0. PICK s : s = req[r].source
    OBVIOUS
  <2>1. UNCHANGED <<sources, enrollments>>
    BY <1>4 DEF DisableAgents
  <2>2. req[r].pc = "disable" /\ At(r, "idle", 0, 0)
    BY <1>4, DisableAgentsMove, EndsAt
  <2>3. \A d : d \in Registering' <=> d \in Registering
    BY <2>2, RegisteringStays
  <2>4. DOMAIN agents' = DOMAIN agents
    BY <1>4, DisableAgentsEffect
  <2>5. \A e \in DOMAIN enrollments : Alive(e)' => Alive(e)
    BY <1>0, <2>1, <2>3, <2>4, AliveBefore
  <2>6. \A q \in Requests : req'[q].pc = "disable" => req'[q] = req[q]
    BY <2>2 DEF At
  <2>7. CASE unfinished' = unfinished \union {s} /\ slipped' = slipped
    <3>1. \A t \in SourceIds : Settled(t)' => Settled(t)
      <4>1. ~Settled(s)'
        BY <2>7 DEF Settled
      <4> QED
        BY <2>0, <2>1, <2>2, <2>7, <4>1, SettledBefore
    <3>2. DisableInv'
      BY <1>0, <2>1, <2>6, <2>7, DisableStays
    <3> QED
      BY <1>0, <2>1, <2>5, <2>7, <3>1, <3>2, SlippedStay DEF DeleteInv, DisableInv
  <2>8. ASSUME unfinished' = unfinished \ {s},
               \A a \in DOMAIN agents : agents'[a].status = "active" => agents[a].source # s,
               \A e : e \in slipped' <=>
                 \/ /\ e \in slipped
                    /\ ~(/\ e \in DOMAIN enrollments /\ e \notin Registering
                         /\ enrollments[e].source = s /\ enrollments[e].status # "open")
                 \/ /\ e \in Registering /\ e \in DOMAIN enrollments
                    /\ enrollments[e].source = s
        PROVE  DeleteInv'
    <3>1. \A e \in DOMAIN enrollments : e \in slipped /\ enrollments[e].status = "open"
                                        => e \in slipped'
      BY <2>8
    <3>2. DisableInv'
      BY <2>1, <2>6, <3>1 DEF DeleteInv, DisableInv
    <3>3. ASSUME NEW t \in SourceIds, NEW e \in DOMAIN enrollments,
                 Settled(t)', enrollments[e].source = t, Alive(e)'
          PROVE  e \in slipped'
      <4>1. CASE t # s
        <5>1. t \notin unfinished
          BY <2>8, <3>3, <4>1 DEF Settled
        <5>2. Settled(t)
          BY <2>0, <2>1, <2>2, <3>3, <4>1, <5>1, SettledBefore
        <5>3. e \in slipped
          BY <2>5, <3>3, <5>2 DEF DeleteInv
        <5> QED
          BY <2>8, <3>3, <4>1, <5>3
      <4>2. CASE t = s
        <5>1. CASE enrollments[e].status = "open"
          <6>1. e \in slipped
            BY <2>0, <2>2, <3>3, <4>2, <5>1 DEF DeleteInv
          <6> QED
            BY <3>1, <5>1, <6>1
        <5>2. CASE e \in Registering
          BY <2>8, <3>3, <4>2, <5>2
        <5>3. ~\E a \in DOMAIN agents' : agents'[a].enrollment = e /\ agents'[a].status = "active"
          BY <1>0, <2>4, <2>8, <3>3, <4>2 DEF EnrollmentInv, AgentsGrow
        <5> QED
          BY <2>1, <2>3, <3>3, <5>1, <5>2, <5>3 DEF Alive
      <4> QED
        BY <4>1, <4>2
    <3> QED
      BY <2>1, <3>2, <3>3 DEF DeleteInv, DisableInv, SourceIds
  <2>9. \/ unfinished' = unfinished \union {s} /\ slipped' = slipped
        \/ /\ unfinished' = unfinished \ {s}
           /\ \A a \in DOMAIN agents : agents'[a].status = "active" => agents[a].source # s
           /\ \A e : e \in slipped' <=>
                \/ /\ e \in slipped
                   /\ ~(/\ e \in DOMAIN enrollments /\ e \notin Registering
                        /\ enrollments[e].source = s /\ enrollments[e].status # "open")
                \/ /\ e \in Registering /\ e \in DOMAIN enrollments
                   /\ enrollments[e].source = s
    <3>1. PICK A \in SUBSET {a \in DOMAIN agents : agents[a].source = s
                                                /\ agents[a].status = "active"} :
            /\ \A a \in DOMAIN agents :
                 IF a \in A THEN agents'[a].status = "disabled" ELSE agents'[a] = agents[a]
            /\ \/ /\ A = {a \in DOMAIN agents : agents[a].source = s
                                                /\ agents[a].status = "active"}
                  /\ unfinished' = unfinished \ {s}
                  /\ \A e : e \in slipped' <=>
                       \/ /\ e \in slipped
                          /\ ~(/\ e \in DOMAIN enrollments /\ e \notin Registering
                               /\ enrollments[e].source = s
                               /\ enrollments[e].status # "open")
                       \/ /\ e \in Registering /\ e \in DOMAIN enrollments
                          /\ enrollments[e].source = s
               \/ unfinished' = unfinished \union {s} /\ slipped' = slipped
      BY <1>4, <2>0, DisableAgentsEffect
    <3>2. A = {a \in DOMAIN agents : agents[a].source = s /\ agents[a].status = "active"} =>
            \A a \in DOMAIN agents : agents'[a].status = "active" => agents[a].source # s
      BY <3>1
    <3> QED
      BY <3>1, <3>2
  <2> QED
    BY <2>7, <2>8, <2>9
<1>5. ASSUME NEW r \in Requests, InsertEnrollment(r)
      PROVE  DeleteInv'
  <2> DEFINE x == [source |-> req[r].source, status |-> "open"]
             last == Len(enrollments) + 1
  <2>1. UNCHANGED <<sources, agents, unfinished>> /\ slipped \subseteq slipped'
    BY <1>5 DEF InsertEnrollment
  <2>2. req[r].pc = "enroll" /\ At(r, "idle", 0, 0) /\ Holds(r)
    BY <1>5, InsertEnrollmentMove, EndsAt DEF RequestInv
  <2>3. \A d : d \in Registering' <=> d \in Registering
    BY <2>2, RegisteringStays
  <2>4. \A t \in SourceIds : Settled(t)' => Settled(t)
    BY <2>1, <2>2, SettledBefore
  <2>5. \A q \in Requests : req'[q].pc = "disable" => req'[q] = req[q]
    BY <2>2 DEF At
  <2>6. CASE enrollments' = enrollments
    <3>1. \A e \in DOMAIN enrollments : Alive(e)' => Alive(e)
      BY <1>0, <2>1, <2>3, <2>6, AliveBefore
    <3>2. DisableInv'
      BY <1>0, <2>1, <2>5, <2>6, DisableStays
    <3> QED
      BY <1>0, <2>1, <2>4, <2>6, <3>1, <3>2, SlippedStay DEF DeleteInv, DisableInv
  <2>7. CASE enrollments' = Append(enrollments, x)
    <3>1. x \in Enrollment /\ x.source = req[r].source
      BY <2>2, MemberNumbers DEF TypeOK, SourceIds, Enrollment, Holds
    <3>2. /\ DOMAIN enrollments' = DOMAIN enrollments \union {last}
          /\ enrollments'[last] = x
          /\ \A e \in DOMAIN enrollments : enrollments'[e] = enrollments[e]
      BY <2>7, <3>1, NextMember DEF TypeOK
    <3>3. sources[req[r].source].deleted => last \in slipped'
      <4>1. sources[req[r].source].deleted =>
              slipped' = slipped \union {Len(Append(enrollments, x))}
        BY <1>5, <2>7 DEF InsertEnrollment
      <4>2. Len(Append(enrollments, x)) = last
        BY <3>1, NextMember DEF TypeOK
      <4> QED
        BY <4>1, <4>2
    <3> HIDE DEF x, last
    <3>4. \A e \in DOMAIN enrollments : Alive(e)' => Alive(e)
      BY <1>0, <2>1, <2>3, <3>2, AliveBefore
    <3>5. ASSUME NEW t \in SourceIds', NEW e \in DOMAIN enrollments',
                 Settled(t)', enrollments'[e].source = t, Alive(e)'
          PROVE  e \in slipped'
      <4>1. CASE e = last
        BY <2>1, <3>1, <3>2, <3>3, <3>5, <4>1 DEF Settled
      <4>2. CASE e \in DOMAIN enrollments
        BY <2>1, <2>4, <3>2, <3>4, <3>5, <4>2 DEF DeleteInv, SourceIds
      <4> QED
        BY <3>2, <3>5, <4>1, <4>2
    <3>6. ASSUME NEW q \in Requests, NEW e \in DOMAIN enrollments', req'[q].pc = "disable",
                 enrollments'[e].status = "open", req'[q].source = enrollments'[e].source
          PROVE  e \in slipped'
      <4>1. req'[q] = req[q]
        BY <2>5, <3>6
      <4>2. CASE e = last
        <5>1. sources[req[q].source].deleted
          BY <3>6, <4>1 DEF RequestInv, Holds, Deleting
        <5> QED
          BY <3>1, <3>2, <3>3, <3>6, <4>1, <4>2, <5>1
      <4>3. CASE e \in DOMAIN enrollments
        BY <2>1, <3>2, <3>6, <4>1, <4>3 DEF DeleteInv
      <4> QED
        BY <3>2, <3>6, <4>2, <4>3
    <3> QED
      BY <3>5, <3>6 DEF DeleteInv
  <2> QED
    BY <1>5, <2>6, <2>7 DEF InsertEnrollment
<1>6. ASSUME NEW r \in Requests, InsertAgent(r)
      PROVE  DeleteInv'
  <2>1. UNCHANGED <<sources, enrollments, unfinished, slipped>>
    BY <1>6 DEF InsertAgent
  <2>2. /\ req[r].pc = "agent"
        /\ \E p \in {"connect", "idle"} : \E s, e : At(r, p, s, e)
    BY <1>6, InsertAgentMove, GotoAt, EndsAt
  <2>3. \A d : d \in Registering' => d \in Registering
    BY <2>2, InRegistering, InRegisteringNext DEF At
  <2>4. \A t \in SourceIds : Settled(t)' => Settled(t)
    BY <2>1, <2>2, SettledBefore
  <2>5. req[r].enrollment \in Registering
    BY <2>2, InRegistering
  <2>6. \/ agents' = agents
        \/ \E x \in Agent : /\ agents' = Append(agents, x)
                            /\ x.enrollment = req[r].enrollment
    BY <1>6, InsertAgentEffect
  <2>7. \A a \in DOMAIN agents' :
          \/ agents'[a].enrollment = req[r].enrollment
          \/ a \in DOMAIN agents /\ agents'[a] = agents[a]
    BY <2>6, AgentAdded
  <2>8. \A e \in DOMAIN enrollments : Alive(e)' => Alive(e)
    BY <2>1, <2>3, <2>5, <2>7 DEF Alive
  <2>9. DisableInv'
    BY <1>0, <2>1, <2>2, DisableStays DEF At
  <2> QED
    BY <1>0, <2>1, <2>4, <2>8, <2>9, SlippedStay DEF DeleteInv, DisableInv
<1>7. ASSUME NEW r \in Requests, NEW e \in DOMAIN enrollments, ClaimEnrollment(r, e)
      PROVE  DeleteInv'
  <2>1. UNCHANGED <<sources, agents, unfinished, slipped>>
    BY <1>7 DEF ClaimEnrollment
  <2>2. req[r].pc = "idle" /\ enrollments[e].status = "open"
    BY <1>7, ClaimEnrollmentMove, IdleFields DEF ClaimEnrollment, Claimable
  <2>3. req' = req \/ At(r, "agent", enrollments[e].source, e)
    BY <1>7, ClaimEnrollmentMove, EntersAt
  <2>4. \A d \in Registering' : d \in Registering \/ d = e
    BY <2>3, InRegistering, InRegisteringNext DEF At
  <2>5. DOMAIN enrollments' = DOMAIN enrollments
    BY <1>7, <2>2, EnrollmentClosed DEF ClaimEnrollment
  <2>6. \A d \in DOMAIN enrollments : Alive(d)' => Alive(d)
    BY <1>0, <2>1, <2>2, <2>4 DEF Alive, EnrollmentsGrow
  <2>7. \A t \in SourceIds : Settled(t)' => Settled(t)
    <3>1. CASE req' = req
      BY <2>1, <3>1 DEF Settled, Deleting
    <3>2. CASE At(r, "agent", enrollments[e].source, e)
      BY <2>1, <2>2, <3>2, SettledBefore
    <3> QED
      BY <2>3, <3>1, <3>2
  <2>8. DisableInv'
    BY <1>0, <2>1, <2>3, <2>5, DisableStays DEF At
  <2> QED
    BY <1>0, <2>1, <2>5, <2>6, <2>7, <2>8, SlippedStay DEF DeleteInv, DisableInv
<1>8. ASSUME NEW e \in DOMAIN enrollments, EnrollmentExpires(e)
      PROVE  DeleteInv'
  <2>1. UNCHANGED <<sources, agents, unfinished, slipped, req>> /\ enrollments[e].status = "open"
    BY <1>8 DEF EnrollmentExpires
  <2>2. DOMAIN enrollments' = DOMAIN enrollments
    BY <1>8, <2>1, EnrollmentClosed DEF EnrollmentExpires
  <2>3. \A d : d \in Registering' <=> d \in Registering
    BY <2>1, InRegistering, InRegisteringNext
  <2>4. \A d \in DOMAIN enrollments : Alive(d)' => Alive(d)
    BY <1>0, <2>1, <2>3, AliveBefore DEF EnrollmentsGrow
  <2>5. \A t \in SourceIds : Settled(t)' => Settled(t)
    BY <2>1 DEF Settled, Deleting
  <2>6. DisableInv'
    BY <1>0, <2>1, <2>2, DisableStays
  <2> QED
    BY <1>0, <2>1, <2>2, <2>4, <2>5, <2>6, SlippedStay DEF DeleteInv, DisableInv
<1>9. ASSUME Crash
      PROVE  DeleteInv'
  <2>1. UNCHANGED <<sources, enrollments, agents, slipped>>
    BY <1>9 DEF Crash
  <2>2. \A q \in Requests : req'[q].pc = "idle"
    BY <1>9, IdleFields DEF Crash
  <2>3. /\ unfinished \subseteq unfinished'
        /\ \A q \in Requests : Deleting(q) => req[q].source \in unfinished'
    BY <1>9 DEF Crash
  <2>4. \A d : d \notin Registering'
    BY <2>2, InRegisteringNext
  <2>5. \A d \in DOMAIN enrollments : Alive(d)' => Alive(d)
    BY <1>0, <2>1, <2>4, AliveBefore
  <2>6. \A t \in SourceIds : Settled(t)' => Settled(t)
    BY <2>1, <2>3 DEF Settled
  <2>7. DisableInv'
    BY <1>0, <2>1, <2>2, DisableStays
  <2> QED
    BY <1>0, <2>1, <2>5, <2>6, <2>7, SlippedStay DEF DeleteInv, DisableInv
<1> QED
  BY <1>1, <1>2, <1>3, <1>4, <1>5, <1>6, <1>7, <1>8, <1>9, QuietOrBusy DEF BusyStep

-----------------------------------------------------------------------------
(* The ingest token and the settings *)

\* A token is only answered as long as it is the account's.
LEMMA TokenStep ==
  ASSUME TypeOK, RequestInv, ShownTokenWorks, [Next]_vars
  PROVE  /\ token' \in 0..MaxRequests /\ shown' \subseteq 1..MaxRequests
         /\ shown' \subseteq {token'}
<1> DEFINE Effect ==
      /\ token' \in 0..MaxRequests /\ shown' \subseteq 1..MaxRequests
      /\ shown' \subseteq {token'}
           Keeps == token' = token /\ shown' = shown
<1>1. ASSUME NEW r \in Requests, GetIngestToken(r) PROVE Effect
  <2>1. token' = token /\ shown' \in {shown, shown \union {token}}
    BY <1>1 DEF GetIngestToken
  <2>2. token # 0 \/ shown' = shown
    BY <1>1 DEF GetIngestToken
  <2>3. token \in 0..MaxRequests /\ shown \subseteq 1..MaxRequests
    BY DEF TypeOK
  <2>4. token # 0 => token \in 1..MaxRequests
    BY <2>3, AgentAccessAssumption
  <2> QED
    BY <2>1, <2>2, <2>3, <2>4 DEF ShownTokenWorks
<1>2. ASSUME NEW r \in Requests, createAccountIngestToken(r) PROVE Effect
  <2>1. req[r].id \in 1..MaxRequests
    BY <1>2, createAccountIngestTokenMove DEF RequestInv, Holds
  <2>2. req[r].id \in 0..MaxRequests
    BY <2>1, AgentAccessAssumption
  <2>3. \/ token' = token /\ shown' = shown
        \/ token = 0 /\ token' = req[r].id /\ shown' \in {shown, shown \union {req[r].id}}
    BY <1>2 DEF createAccountIngestToken, TokenFree
  <2>4. shown \subseteq 1..MaxRequests /\ token \in 0..MaxRequests
    BY DEF TypeOK
  <2>5. token = 0 => shown = {}
    BY <2>4, AgentAccessAssumption DEF ShownTokenWorks
  <2> QED
    BY <2>1, <2>2, <2>3, <2>4, <2>5 DEF ShownTokenWorks
<1>3. ASSUME NEW r \in Requests, RotateIngestToken(r) PROVE Effect
  <2>1. started + 1 \in 1..MaxRequests
    BY <1>3, AgentAccessAssumption DEF RotateIngestToken, Start, TypeOK
  <2>2. \/ token' = token /\ shown' = shown
        \/ token' = started + 1 /\ shown' \in {{}, {started + 1}}
    BY <1>3 DEF RotateIngestToken, NewToken
  <2>3. started + 1 \in 0..MaxRequests
    BY <2>1, AgentAccessAssumption
  <2> QED
    BY <2>1, <2>2, <2>3 DEF TypeOK, ShownTokenWorks
<1>4. ASSUME NEW r \in Requests, NEW ebpf \in BOOLEAN, CreateDataSource(r, ebpf)
     PROVE  Keeps
  BY <1>4 DEF sourceVars, tokenVars, settingVars, CreateDataSource, Start
<1>5. ASSUME NEW r \in Requests, NEW s \in SourceIds,
       \/ DeleteDataSource(r, s) \/ CreateAgentEnrollment(r, s)
     PROVE  Keeps
  BY <1>5 DEF sourceVars, tokenVars, settingVars, DeleteDataSource, Start,
     CreateAgentEnrollment
<1>6. ASSUME NEW r \in Requests,
       \/ ExpireEnrollments(r) \/ DisableAgents(r) \/ InsertEnrollment(r)
       \/ InsertAgent(r) \/ ConnectSource(r) \/ AccountIngest(r)
     PROVE  Keeps
  BY <1>6 DEF sourceVars, tokenVars, settingVars, ExpireEnrollments, Step,
     DisableAgents, InsertEnrollment, InsertAgent, ConnectSource, AccountIngest,
     Start
<1>7. ASSUME NEW r \in Requests,
       \/ MarkIngestTrafficSeen(r) \/ InsertAutoSource(r)
       \/ InsertDefaultSettings(r) \/ RereadSettings(r)
       \/ UpdateAccountSettings(r)
     PROVE  Keeps
  BY <1>7 DEF sourceVars, tokenVars, settingVars, MarkIngestTrafficSeen, Step,
     InsertAutoSource, InsertDefaultSettings, RereadSettings, UpdateAccountSettings
<1>8. ASSUME NEW r \in Requests, NEW e \in DOMAIN enrollments, ClaimEnrollment(r, e)
     PROVE  Keeps
  BY <1>8 DEF sourceVars, tokenVars, settingVars, ClaimEnrollment, Start
<1>9. ASSUME NEW r \in Requests, NEW change \in Change, ReadSettings(r, change)
     PROVE  Keeps
  BY <1>9 DEF sourceVars, tokenVars, settingVars, ReadSettings, Start
<1>10. ASSUME NEW e \in DOMAIN enrollments, EnrollmentExpires(e)
     PROVE  Keeps
  BY <1>10 DEF sourceVars, tokenVars, settingVars, EnrollmentExpires
<1>11. ASSUME Crash
     PROVE  Keeps
  BY <1>11 DEF sourceVars, tokenVars, settingVars, Crash
<1>12. ASSUME UNCHANGED vars PROVE Keeps
  BY <1>12 DEF vars, sourceVars, tokenVars, settingVars
<1>13. ASSUME Keeps PROVE Effect
  BY <1>13 DEF TypeOK, ShownTokenWorks
<1> HIDE DEF Effect, Keeps
<1>q. Effect
  BY <1>1, <1>2, <1>3, <1>4, <1>5, <1>6, <1>7, <1>8, <1>9, <1>10, <1>11, <1>12,
     <1>13 DEF Next
<1> QED
  BY <1>q DEF Effect

\* Changing settings gives settings.
LEMMA MergeType ==
  ASSUME NEW b \in Settings, NEW c \in Change
  PROVE  Merge(b, c) \in Settings
<1>1. b.retention \in Values /\ b.cap \in Values /\ DOMAIN b = {"retention", "cap"}
  BY DEF Settings
<1>2. c.retention \in Values \union {Same} /\ c.cap \in Values \union {Same}
  BY DEF Change
<1> DEFINE x == IF c.retention = Same THEN b.retention ELSE c.retention
           y == IF c.cap = Same THEN b.cap ELSE c.cap
<1>3. x \in Values /\ y \in Values
  BY <1>1, <1>2
<1>4. Merge(b, c) = [retention |-> x, cap |-> y]
  BY <1>1 DEF Merge
<1> HIDE DEF x, y
<1> QED
  BY <1>3, <1>4 DEF Settings

LEMMA OneSettings ==
  /\ Cardinality({}) <= 1 /\ \A d : Cardinality({d}) <= 1
  BY FS_EmptySet, FS_Singleton

\* There is at most one document of settings.
LEMMA SettingsTypes ==
  ASSUME TypeOK, [Next]_vars
  PROVE  /\ settings' \subseteq Settings /\ Cardinality(settings') <= 1
         /\ asked' \in Settings /\ overlapped' \in BOOLEAN
<1> DEFINE Effect ==
      /\ settings' \subseteq Settings /\ Cardinality(settings') <= 1
      /\ asked' \in Settings /\ overlapped' \in BOOLEAN
           Keeps == settings' = settings /\ asked' = asked /\ overlapped' = overlapped
<1>1. ASSUME NEW r \in Requests, NEW change \in Change, ReadSettings(r, change)
      PROVE  Effect
  <2>1. /\ settings' = settings /\ asked' = asked
        /\ overlapped' = (overlapped \/ (change # NoChange /\ Updating # {}))
    BY <1>1 DEF ReadSettings
  <2> QED
    BY <2>1 DEF TypeOK
<1>2. ASSUME NEW r \in Requests, InsertDefaultSettings(r) PROVE Effect
  <2>1. /\ settings' = settings \/ settings' = {DefaultSettings}
        /\ asked' = asked /\ overlapped' = overlapped
    BY <1>2 DEF InsertDefaultSettings, InsertedDefault
  <2> QED
    BY <2>1, Defaults, OneSettings DEF TypeOK
<1>3. ASSUME NEW r \in Requests, UpdateAccountSettings(r) PROVE Effect
  <2>1. /\ req[r].base \in Settings /\ req[r].change \in Change /\ asked \in Settings
    BY DEF TypeOK, Request
  <2>2. Merge(req[r].base, req[r].change) \in Settings /\ Merge(asked, req[r].change) \in Settings
    BY <2>1, MergeType
  <2>3. /\ \/ /\ settings' = {Merge(req[r].base, req[r].change)}
              /\ asked' = Merge(asked, req[r].change)
           \/ settings' = settings /\ asked' = asked
        /\ overlapped' = overlapped
    BY <1>3 DEF UpdateAccountSettings
  <2> QED
    BY <2>2, <2>3, OneSettings DEF TypeOK
<1>4. ASSUME NEW r \in Requests, NEW ebpf \in BOOLEAN, CreateDataSource(r, ebpf)
     PROVE  Keeps
  BY <1>4 DEF sourceVars, tokenVars, settingVars, CreateDataSource, Start
<1>5. ASSUME NEW r \in Requests, NEW s \in SourceIds,
       \/ DeleteDataSource(r, s) \/ CreateAgentEnrollment(r, s)
     PROVE  Keeps
  BY <1>5 DEF sourceVars, tokenVars, settingVars, DeleteDataSource, Start,
     CreateAgentEnrollment
<1>6. ASSUME NEW r \in Requests,
       \/ ExpireEnrollments(r) \/ DisableAgents(r) \/ InsertEnrollment(r)
       \/ InsertAgent(r) \/ ConnectSource(r) \/ GetIngestToken(r)
     PROVE  Keeps
  BY <1>6 DEF sourceVars, tokenVars, settingVars, ExpireEnrollments, Step,
     DisableAgents, InsertEnrollment, InsertAgent, ConnectSource, GetIngestToken,
     Start
<1>7. ASSUME NEW r \in Requests,
       \/ createAccountIngestToken(r) \/ RotateIngestToken(r) \/ AccountIngest(r)
       \/ MarkIngestTrafficSeen(r) \/ InsertAutoSource(r) \/ RereadSettings(r)
     PROVE  Keeps
  BY <1>7 DEF sourceVars, tokenVars, settingVars, createAccountIngestToken, Step,
     RotateIngestToken, Start, AccountIngest, MarkIngestTrafficSeen,
     InsertAutoSource, RereadSettings
<1>8. ASSUME NEW r \in Requests, NEW e \in DOMAIN enrollments, ClaimEnrollment(r, e)
     PROVE  Keeps
  BY <1>8 DEF sourceVars, tokenVars, settingVars, ClaimEnrollment, Start
<1>9. ASSUME NEW e \in DOMAIN enrollments, EnrollmentExpires(e)
     PROVE  Keeps
  BY <1>9 DEF sourceVars, tokenVars, settingVars, EnrollmentExpires
<1>10. ASSUME Crash
     PROVE  Keeps
  BY <1>10 DEF sourceVars, tokenVars, settingVars, Crash
<1>11. ASSUME UNCHANGED vars PROVE Keeps
  BY <1>11 DEF vars, sourceVars, tokenVars, settingVars
<1>12. ASSUME Keeps PROVE Effect
  BY <1>12 DEF TypeOK
<1> HIDE DEF Effect, Keeps
<1>q. Effect
  BY <1>1, <1>2, <1>3, <1>4, <1>5, <1>6, <1>7, <1>8, <1>9, <1>10, <1>11, <1>12 DEF
     Next
<1> QED
  BY <1>q DEF Effect

\* A step that moves no update of the settings.
KeptUpdates ==
    /\ \A q \in Requests :
         \/ req'[q] = req[q]
         \/ /\ req'[q].pc # "update"
            /\ req'[q].change = NoChange \/ req'[q].change = req[q].change
    /\ settings' = settings /\ asked' = asked /\ overlapped' = overlapped

LEMMA KeptUpdatesKeep ==
  ASSUME SettingsInv, KeptUpdates
  PROVE  SettingsInv'
<1>1. \A q \in Updating' : q \in Updating
  BY DEF KeptUpdates, Updating
<1>2. \A q \in Requests : req'[q].pc = "update" /\ req[q].pc = "update" /\ q \in Updating
                          => req'[q] = req[q] /\ q \in Updating'
  BY DEF KeptUpdates, Updating
<1> QED
  BY <1>1, <1>2 DEF KeptUpdates, SettingsInv

LEMMA MovesNoUpdate ==
  ASSUME NEW r \in Requests, NEW p, NEW s, NEW e, At(r, p, s, e), p # "update",
         req'[r].change = NoChange \/ req'[r].change = req[r].change,
         settings' = settings, asked' = asked, overlapped' = overlapped
  PROVE  KeptUpdates
  BY DEF At, KeptUpdates

\* Only four steps are about the settings.
LEMMA KeptOrSettings ==
  ASSUME TypeOK, [Next]_vars
  PROVE  \/ KeptUpdates
         \/ \E r \in Requests :
            \/ \E change \in Change : ReadSettings(r, change)
            \/ InsertDefaultSettings(r) \/ RereadSettings(r) \/ UpdateAccountSettings(r)
<1> DEFINE Effect ==
      \/ KeptUpdates
      \/ \E r \in Requests :
         \/ \E change \in Change : ReadSettings(r, change)
         \/ InsertDefaultSettings(r) \/ RereadSettings(r) \/ UpdateAccountSettings(r)
           Keeps == KeptUpdates
<1>1. ASSUME NEW r \in Requests, NEW ebpf \in BOOLEAN, CreateDataSource(r, ebpf)
      PROVE  Effect
  <2>1. settings' = settings /\ asked' = asked /\ overlapped' = overlapped
    BY <1>1 DEF CreateDataSource, settingVars
  <2> QED
    BY <1>1, <2>1, CreateDataSourceMove DEF KeptUpdates
<1>2. ASSUME NEW r \in Requests, NEW s \in SourceIds, DeleteDataSource(r, s)
      PROVE  Effect
  <2>1. settings' = settings /\ asked' = asked /\ overlapped' = overlapped
    BY <1>2 DEF DeleteDataSource, settingVars
  <2>2. req' = req \/ \E p, t, d : /\ At(r, p, t, d) /\ p # "update"
                                    /\ (req'[r].change = NoChange \/ req'[r].change = req[r].change)
    BY <1>2, DeleteDataSourceMove, EntersAt
  <2> QED
    BY <2>1, <2>2, MovesNoUpdate DEF KeptUpdates
<1>3. ASSUME NEW r \in Requests, NEW s \in SourceIds, CreateAgentEnrollment(r, s)
      PROVE  Effect
  <2>1. settings' = settings /\ asked' = asked /\ overlapped' = overlapped
    BY <1>3 DEF CreateAgentEnrollment, settingVars
  <2>2. \E p, t, d : /\ At(r, p, t, d) /\ p # "update"
                      /\ (req'[r].change = NoChange \/ req'[r].change = req[r].change)
    BY <1>3, CreateAgentEnrollmentMove, EntersAt
  <2> QED
    BY <2>1, <2>2, MovesNoUpdate DEF KeptUpdates
<1>4. ASSUME NEW r \in Requests, ExpireEnrollments(r) PROVE Effect
  <2>1. settings' = settings /\ asked' = asked /\ overlapped' = overlapped
    BY <1>4 DEF ExpireEnrollments, settingVars
  <2>2. \E p, t, d : /\ At(r, p, t, d) /\ p # "update"
                      /\ (req'[r].change = NoChange \/ req'[r].change = req[r].change)
    BY <1>4, ExpireEnrollmentsMove, EndsAt, EntersAt
  <2> QED
    BY <2>1, <2>2, MovesNoUpdate DEF KeptUpdates
<1>5. ASSUME NEW r \in Requests, DisableAgents(r) PROVE Effect
  <2>1. settings' = settings /\ asked' = asked /\ overlapped' = overlapped
    BY <1>5 DEF DisableAgents, settingVars
  <2>2. \E p, t, d : /\ At(r, p, t, d) /\ p # "update"
                      /\ (req'[r].change = NoChange \/ req'[r].change = req[r].change)
    BY <1>5, DisableAgentsMove, EndsAt
  <2> QED
    BY <2>1, <2>2, MovesNoUpdate DEF KeptUpdates
<1>6. ASSUME NEW r \in Requests, InsertEnrollment(r) PROVE Effect
  <2>1. settings' = settings /\ asked' = asked /\ overlapped' = overlapped
    BY <1>6 DEF InsertEnrollment, settingVars
  <2>2. \E p, t, d : /\ At(r, p, t, d) /\ p # "update"
                      /\ (req'[r].change = NoChange \/ req'[r].change = req[r].change)
    BY <1>6, InsertEnrollmentMove, EndsAt
  <2> QED
    BY <2>1, <2>2, MovesNoUpdate DEF KeptUpdates
<1>7. ASSUME NEW r \in Requests, NEW e \in DOMAIN enrollments, ClaimEnrollment(r, e)
      PROVE  Effect
  <2>1. settings' = settings /\ asked' = asked /\ overlapped' = overlapped
    BY <1>7 DEF ClaimEnrollment, settingVars
  <2>2. req' = req \/ \E p, t, d : /\ At(r, p, t, d) /\ p # "update"
                                    /\ (req'[r].change = NoChange \/ req'[r].change = req[r].change)
    BY <1>7, ClaimEnrollmentMove, EntersAt
  <2> QED
    BY <2>1, <2>2, MovesNoUpdate DEF KeptUpdates
<1>8. ASSUME NEW r \in Requests, InsertAgent(r) PROVE Effect
  <2>1. settings' = settings /\ asked' = asked /\ overlapped' = overlapped
    BY <1>8 DEF InsertAgent, settingVars
  <2>2. \E p, t, d : /\ At(r, p, t, d) /\ p # "update"
                      /\ (req'[r].change = NoChange \/ req'[r].change = req[r].change)
    BY <1>8, InsertAgentMove, GotoAt, EndsAt
  <2> QED
    BY <2>1, <2>2, MovesNoUpdate DEF KeptUpdates
<1>9. ASSUME NEW r \in Requests, ConnectSource(r) PROVE Effect
  <2>1. settings' = settings /\ asked' = asked /\ overlapped' = overlapped
    BY <1>9 DEF ConnectSource, settingVars
  <2>2. \E p, t, d : /\ At(r, p, t, d) /\ p # "update"
                      /\ (req'[r].change = NoChange \/ req'[r].change = req[r].change)
    BY <1>9, ConnectSourceMove, EndsAt
  <2> QED
    BY <2>1, <2>2, MovesNoUpdate DEF KeptUpdates
<1>10. ASSUME NEW r \in Requests, GetIngestToken(r) PROVE Effect
  <2>1. settings' = settings /\ asked' = asked /\ overlapped' = overlapped
    BY <1>10 DEF GetIngestToken, settingVars
  <2>2. req' = req \/ \E p, t, d : /\ At(r, p, t, d) /\ p # "update"
                                    /\ (req'[r].change = NoChange \/ req'[r].change = req[r].change)
    BY <1>10, GetIngestTokenMove, BecomesAt
  <2> QED
    BY <2>1, <2>2, MovesNoUpdate DEF KeptUpdates
<1>11. ASSUME NEW r \in Requests, createAccountIngestToken(r) PROVE Effect
  <2>1. settings' = settings /\ asked' = asked /\ overlapped' = overlapped
    BY <1>11 DEF createAccountIngestToken, settingVars
  <2>2. \E p, t, d : /\ At(r, p, t, d) /\ p # "update"
                      /\ (req'[r].change = NoChange \/ req'[r].change = req[r].change)
    BY <1>11, createAccountIngestTokenMove, EndsAt
  <2> QED
    BY <2>1, <2>2, MovesNoUpdate DEF KeptUpdates
<1>12. ASSUME NEW r \in Requests, RotateIngestToken(r) PROVE Effect
  <2>1. settings' = settings /\ asked' = asked /\ overlapped' = overlapped
    BY <1>12 DEF RotateIngestToken, settingVars
  <2> QED
    BY <1>12, <2>1, RotateIngestTokenMove DEF KeptUpdates
<1>13. ASSUME NEW r \in Requests, AccountIngest(r) PROVE Effect
  <2>1. settings' = settings /\ asked' = asked /\ overlapped' = overlapped
    BY <1>13 DEF AccountIngest, settingVars
  <2>2. \E p, t, d : /\ At(r, p, t, d) /\ p # "update"
                      /\ (req'[r].change = NoChange \/ req'[r].change = req[r].change)
    BY <1>13, AccountIngestMove, EntersAt
  <2> QED
    BY <2>1, <2>2, MovesNoUpdate DEF KeptUpdates
<1>14. ASSUME NEW r \in Requests, MarkIngestTrafficSeen(r) PROVE Effect
  <2>1. settings' = settings /\ asked' = asked /\ overlapped' = overlapped
    BY <1>14 DEF MarkIngestTrafficSeen, settingVars
  <2>2. \E p, t, d : /\ At(r, p, t, d) /\ p # "update"
                      /\ (req'[r].change = NoChange \/ req'[r].change = req[r].change)
    BY <1>14, MarkIngestTrafficSeenMove, GotoAt, EndsAt
  <2> QED
    BY <2>1, <2>2, MovesNoUpdate DEF KeptUpdates
<1>15. ASSUME NEW r \in Requests, InsertAutoSource(r) PROVE Effect
  <2>1. settings' = settings /\ asked' = asked /\ overlapped' = overlapped
    BY <1>15 DEF InsertAutoSource, settingVars
  <2>2. \E p, t, d : /\ At(r, p, t, d) /\ p # "update"
                      /\ (req'[r].change = NoChange \/ req'[r].change = req[r].change)
    BY <1>15, InsertAutoSourceMove, EndsAt
  <2> QED
    BY <2>1, <2>2, MovesNoUpdate DEF KeptUpdates
<1>16. ASSUME NEW r \in Requests, NEW change \in Change, ReadSettings(r, change)
      PROVE  Effect
  BY <1>16
<1>17. ASSUME NEW r \in Requests, InsertDefaultSettings(r) PROVE Effect
  BY <1>17
<1>18. ASSUME NEW r \in Requests, RereadSettings(r) PROVE Effect
  BY <1>18
<1>19. ASSUME NEW r \in Requests, UpdateAccountSettings(r) PROVE Effect
  BY <1>19
<1>20. ASSUME NEW e \in DOMAIN enrollments, EnrollmentExpires(e) PROVE Effect
  BY <1>20 DEF EnrollmentExpires, settingVars, KeptUpdates
<1>21. ASSUME Crash PROVE Effect
  BY <1>21, IdleFields DEF Crash, settingVars, KeptUpdates
<1>22. ASSUME UNCHANGED vars PROVE Keeps
  BY <1>22 DEF vars, settingVars, KeptUpdates
<1>23. ASSUME Keeps PROVE Effect
  BY <1>23
<1> HIDE DEF Effect, Keeps
<1>q. Effect
  BY <1>1, <1>2, <1>3, <1>4, <1>5, <1>6, <1>7, <1>8, <1>9, <1>10, <1>11, <1>12,
     <1>13, <1>14, <1>15, <1>16, <1>17, <1>18, <1>19, <1>20, <1>21, <1>22, <1>23 DEF
     Next
<1> QED
  BY <1>q DEF Effect

\* What SettingsInv says as long as no two updates overlapped.
SettingsAsAsked ==
    /\ settings \subseteq {asked} /\ (settings = {} => asked = DefaultSettings)
    /\ \A r \in Requests : req[r].pc = "update" => req[r].base = asked /\ r \in Updating
    /\ \A q, r \in Updating : q = r

\* Settings are what the updates asked for, as long as these do not overlap.
LEMMA SettingsStep ==
  ASSUME TypeOK, SettingsInv, [Next]_vars
  PROVE  SettingsInv'
<1> SUFFICES ASSUME ~KeptUpdates, overlapped' # TRUE
             PROVE  SettingsAsAsked'
  <2>1. overlapped' \in BOOLEAN
    BY SettingsTypes
  <2>2. KeptUpdates => SettingsInv'
    BY KeptUpdatesKeep
  <2>3. overlapped' = TRUE => SettingsInv'
    BY DEF SettingsInv
  <2>4. SettingsAsAsked' => SettingsInv'
    BY DEF SettingsInv, SettingsAsAsked
  <2> QED
    BY <2>2, <2>3, <2>4
<1>1. ASSUME NEW r \in Requests, NEW change \in Change, ReadSettings(r, change)
      PROVE  SettingsAsAsked'
  <2>1. /\ settings' = settings /\ asked' = asked
        /\ ~overlapped /\ (change # NoChange => Updating = {})
    <3>1. overlapped' = (overlapped \/ (change # NoChange /\ Updating # {}))
      BY <1>1 DEF ReadSettings
    <3>2. settings' = settings /\ asked' = asked
      BY <1>1 DEF ReadSettings
    <3>3. overlapped \in BOOLEAN
      BY DEF TypeOK
    <3> QED
      BY <3>1, <3>2, <3>3
  <2>2. SettingsAsAsked
    BY <2>1 DEF SettingsInv, SettingsAsAsked
  <2>3. PICK d \in settings \union {DefaultSettings} :
          \/ Becomes(r, "default", 0, 0, 0, DefaultSettings, change)
          \/ /\ d \in settings /\ change # NoChange
             /\ Becomes(r, "update", 0, 0, 0, d, change)
    BY <1>1, ReadSettingsMove
  <2>4. /\ \A q \in Requests \ {r} : req'[q] = req[q]
        /\ req'[r].change = change
        /\ req'[r].pc = "update" => req'[r].base = asked /\ change # NoChange
    <3>1. CASE Becomes(r, "default", 0, 0, 0, DefaultSettings, change)
      BY <3>1, BecomesAt DEF At
    <3>2. CASE d \in settings /\ change # NoChange /\ Becomes(r, "update", 0, 0, 0, d, change)
      BY <2>2, <3>2, BecomesAt DEF At, SettingsAsAsked
    <3> QED
      BY <2>3, <3>1, <3>2
  <2>5. req[r].change = NoChange
    BY <1>1, ReadSettingsMove, IdleFields
  <2>6. \A q \in Updating' : q \in Updating \/ (q = r /\ change # NoChange)
    BY <2>4 DEF Updating
  <2>7. \A q \in Requests : req'[q].pc = "update" => req'[q].base = asked /\ q \in Updating'
    BY <2>2, <2>4 DEF SettingsAsAsked, Updating
  <2>8. \A p, q \in Updating' : p = q
    BY <2>1, <2>2, <2>6 DEF SettingsAsAsked
  <2> QED
    BY <2>1, <2>2, <2>7, <2>8 DEF SettingsAsAsked
<1>2. ASSUME NEW r \in Requests, InsertDefaultSettings(r)
      PROVE  SettingsAsAsked'
  <2>1. asked' = asked /\ overlapped' = overlapped
    BY <1>2 DEF InsertDefaultSettings
  <2>2. SettingsAsAsked
    <3>1. overlapped \in BOOLEAN
      BY DEF TypeOK
    <3> QED
      BY <2>1, <3>1 DEF SettingsInv, SettingsAsAsked
  <2>3. settings' = settings \/ (settings = {} /\ settings' = {DefaultSettings})
    BY <1>2 DEF InsertDefaultSettings, InsertedDefault
  <2>4. /\ \A q \in Requests \ {r} : req'[q] = req[q]
        /\ req'[r].change = NoChange \/ req'[r].change = req[r].change
        /\ req'[r].pc = "update" => req'[r].base = asked /\ req'[r].change # NoChange
    <3>1. CASE Goto(r, "reread")
      BY <3>1, GotoAt DEF At
    <3>2. CASE Ends(r)
      BY <3>2, EndsAt DEF At
    <3>3. CASE Loads(r, DefaultSettings) /\ settings = {} /\ req[r].change # NoChange
      BY <2>2, <3>3, LoadsAt DEF At, SettingsAsAsked
    <3> QED
      BY <1>2, <3>1, <3>2, <3>3, InsertDefaultSettingsMove
  <2>5. \A q \in Updating' : q \in Updating
    BY <2>4 DEF Updating
  <2>6. \A q \in Requests : req'[q].pc = "update" => req'[q].base = asked /\ q \in Updating'
    BY <2>2, <2>4 DEF SettingsAsAsked, Updating
  <2> QED
    BY <2>1, <2>2, <2>3, <2>5, <2>6 DEF SettingsAsAsked
<1>3. ASSUME NEW r \in Requests, RereadSettings(r)
      PROVE  SettingsAsAsked'
  <2>1. settings' = settings /\ asked' = asked /\ overlapped' = overlapped
    BY <1>3 DEF RereadSettings, settingVars
  <2>2. SettingsAsAsked
    <3>1. overlapped \in BOOLEAN
      BY DEF TypeOK
    <3> QED
      BY <2>1, <3>1 DEF SettingsInv, SettingsAsAsked
  <2>3. /\ \A q \in Requests \ {r} : req'[q] = req[q]
        /\ req'[r].change = NoChange \/ req'[r].change = req[r].change
        /\ req'[r].pc = "update" => req'[r].base = asked /\ req'[r].change # NoChange
    <3>1. CASE Ends(r)
      BY <3>1, EndsAt DEF At
    <3>2. ASSUME NEW d \in settings, Loads(r, d), req[r].change # NoChange
          PROVE  /\ \A q \in Requests \ {r} : req'[q] = req[q]
                 /\ req'[r].change = NoChange \/ req'[r].change = req[r].change
                 /\ req'[r].pc = "update" => req'[r].base = asked /\ req'[r].change # NoChange
      BY <2>2, <3>2, LoadsAt DEF At, SettingsAsAsked
    <3> QED
      BY <1>3, <3>1, <3>2, RereadSettingsMove
  <2>4. \A q \in Updating' : q \in Updating
    BY <2>3 DEF Updating
  <2>5. \A q \in Requests : req'[q].pc = "update" => req'[q].base = asked /\ q \in Updating'
    BY <2>2, <2>3 DEF SettingsAsAsked, Updating
  <2> QED
    BY <2>1, <2>2, <2>4, <2>5 DEF SettingsAsAsked
<1>4. ASSUME NEW r \in Requests, UpdateAccountSettings(r)
      PROVE  SettingsAsAsked'
  <2>1. overlapped' = overlapped
    BY <1>4 DEF UpdateAccountSettings
  <2>2. SettingsAsAsked
    <3>1. overlapped \in BOOLEAN
      BY DEF TypeOK
    <3> QED
      BY <2>1, <3>1 DEF SettingsInv, SettingsAsAsked
  <2>3. req[r].base = asked /\ r \in Updating
    BY <1>4, <2>2, UpdateAccountSettingsMove DEF SettingsAsAsked
  <2>4. \/ settings' = {asked'}
        \/ settings' = settings /\ asked' = asked
    BY <1>4, <2>3 DEF UpdateAccountSettings
  <2>5. At(r, "idle", 0, 0) /\ req'[r].change = NoChange
    BY <1>4, UpdateAccountSettingsMove, EndsAt
  <2>6. Updating' = {}
    BY <2>2, <2>3, <2>5 DEF SettingsAsAsked, Updating, At
  <2>7. \A q \in Requests : req'[q].pc # "update"
    BY <2>2, <2>3, <2>5 DEF SettingsAsAsked, At
  <2> QED
    BY <2>2, <2>4, <2>6, <2>7 DEF SettingsAsAsked
<1> QED
  BY <1>1, <1>2, <1>3, <1>4, KeptOrSettings

-----------------------------------------------------------------------------
(* The rest of the types *)

\* Requests are counted up to their bound.
LEMMA StartedStep ==
  ASSUME TypeOK, [Next]_vars
  PROVE  started' \in 0..MaxRequests
<1> DEFINE Effect ==
      started' \in 0..MaxRequests
           Keeps == started' = started
<1>1. ASSUME NEW r \in Requests, NEW ebpf \in BOOLEAN, CreateDataSource(r, ebpf)
      PROVE  Effect
  BY <1>1, AgentAccessAssumption DEF CreateDataSource, Start, TypeOK
<1>2. ASSUME NEW r \in Requests, NEW s \in SourceIds, DeleteDataSource(r, s)
      PROVE  Effect
  BY <1>2, AgentAccessAssumption DEF DeleteDataSource, Start, TypeOK
<1>3. ASSUME NEW r \in Requests, NEW s \in SourceIds, CreateAgentEnrollment(r, s)
      PROVE  Effect
  BY <1>3, AgentAccessAssumption DEF CreateAgentEnrollment, Start, TypeOK
<1>4. ASSUME NEW r \in Requests, NEW e \in DOMAIN enrollments, ClaimEnrollment(r, e)
      PROVE  Effect
  BY <1>4, AgentAccessAssumption DEF ClaimEnrollment, Start, TypeOK
<1>5. ASSUME NEW r \in Requests, GetIngestToken(r) PROVE Effect
  BY <1>5, AgentAccessAssumption DEF GetIngestToken, Start, TypeOK
<1>6. ASSUME NEW r \in Requests, RotateIngestToken(r) PROVE Effect
  BY <1>6, AgentAccessAssumption DEF RotateIngestToken, Start, TypeOK
<1>7. ASSUME NEW r \in Requests, AccountIngest(r) PROVE Effect
  BY <1>7, AgentAccessAssumption DEF AccountIngest, Start, TypeOK
<1>8. ASSUME NEW r \in Requests, NEW change \in Change, ReadSettings(r, change)
      PROVE  Effect
  <2>1. started < MaxRequests /\ started' = started + 1
    BY <1>8 DEF ReadSettings, Start
  <2> QED
    BY <2>1, AgentAccessAssumption DEF TypeOK
<1>9. ASSUME NEW r \in Requests,
       \/ ExpireEnrollments(r) \/ DisableAgents(r) \/ InsertEnrollment(r)
       \/ InsertAgent(r) \/ ConnectSource(r) \/ createAccountIngestToken(r)
     PROVE  Keeps
  BY <1>9 DEF sourceVars, tokenVars, settingVars, ExpireEnrollments, Step,
     DisableAgents, InsertEnrollment, InsertAgent, ConnectSource,
     createAccountIngestToken
<1>10. ASSUME NEW r \in Requests,
       \/ MarkIngestTrafficSeen(r) \/ InsertAutoSource(r)
       \/ InsertDefaultSettings(r) \/ RereadSettings(r)
       \/ UpdateAccountSettings(r)
     PROVE  Keeps
  BY <1>10 DEF sourceVars, tokenVars, settingVars, MarkIngestTrafficSeen, Step,
     InsertAutoSource, InsertDefaultSettings, RereadSettings, UpdateAccountSettings
<1>11. ASSUME NEW e \in DOMAIN enrollments, EnrollmentExpires(e)
     PROVE  Keeps
  BY <1>11 DEF sourceVars, tokenVars, settingVars, EnrollmentExpires
<1>12. ASSUME Crash
     PROVE  Keeps
  BY <1>12 DEF sourceVars, tokenVars, settingVars, Crash
<1>13. ASSUME UNCHANGED vars PROVE Keeps
  BY <1>13 DEF vars, sourceVars, tokenVars, settingVars
<1>14. ASSUME Keeps PROVE Effect
  BY <1>14 DEF TypeOK
<1> HIDE DEF Effect, Keeps
<1>q. Effect
  BY <1>1, <1>2, <1>3, <1>4, <1>5, <1>6, <1>7, <1>8, <1>9, <1>10, <1>11, <1>12,
     <1>13, <1>14 DEF Next
<1> QED
  BY <1>q DEF Effect

\* Deletes that failed halfway are deletes of a source.
LEMMA UnfinishedStep ==
  ASSUME TypeOK, RequestInv, [Next]_vars
  PROVE  unfinished' \subseteq SourceIds'
<1>0. SourcesGrow
  BY SourcesStep
<1> DEFINE Effect ==
      unfinished' \subseteq SourceIds'
           Keeps == unfinished' = unfinished
<1>1. ASSUME NEW r \in Requests, NEW s \in SourceIds, DeleteDataSource(r, s)
      PROVE  Effect
  BY <1>1, <1>0 DEF DeleteDataSource, TypeOK, SourceIds, SourcesGrow
<1>2. ASSUME NEW r \in Requests, ExpireEnrollments(r) PROVE Effect
  <2>1. req[r].source \in SourceIds
    BY <1>2, ExpireEnrollmentsMove DEF RequestInv, Holds, Deleting
  <2> QED
    BY <1>2, <1>0, <2>1 DEF ExpireEnrollments, TypeOK, SourceIds, SourcesGrow
<1>3. ASSUME NEW r \in Requests, DisableAgents(r) PROVE Effect
  <2>1. req[r].source \in SourceIds
    BY <1>3, DisableAgentsMove DEF RequestInv, Holds, Deleting
  <2>2. unfinished' \subseteq unfinished \union {req[r].source}
    BY <1>3 DEF DisableAgents
  <2> QED
    BY <1>0, <2>1, <2>2 DEF TypeOK, SourceIds, SourcesGrow
<1>4. ASSUME Crash PROVE Effect
  BY <1>4, <1>0 DEF Crash, TypeOK, RequestInv, Holds, SourceIds, SourcesGrow
<1>5. ASSUME NEW r \in Requests, NEW ebpf \in BOOLEAN, CreateDataSource(r, ebpf)
     PROVE  Keeps
  BY <1>5 DEF sourceVars, tokenVars, settingVars, CreateDataSource, Start
<1>6. ASSUME NEW r \in Requests, NEW s \in SourceIds, CreateAgentEnrollment(r, s)
     PROVE  Keeps
  BY <1>6 DEF sourceVars, tokenVars, settingVars, CreateAgentEnrollment, Start
<1>7. ASSUME NEW r \in Requests,
       \/ InsertEnrollment(r) \/ InsertAgent(r) \/ ConnectSource(r)
       \/ GetIngestToken(r) \/ createAccountIngestToken(r) \/ RotateIngestToken(r)
     PROVE  Keeps
  BY <1>7 DEF sourceVars, tokenVars, settingVars, InsertEnrollment, Step,
     InsertAgent, ConnectSource, GetIngestToken, Start, createAccountIngestToken,
     RotateIngestToken
<1>8. ASSUME NEW r \in Requests,
       \/ AccountIngest(r) \/ MarkIngestTrafficSeen(r) \/ InsertAutoSource(r)
       \/ InsertDefaultSettings(r) \/ RereadSettings(r)
       \/ UpdateAccountSettings(r)
     PROVE  Keeps
  BY <1>8 DEF sourceVars, tokenVars, settingVars, AccountIngest, Start,
     MarkIngestTrafficSeen, Step, InsertAutoSource, InsertDefaultSettings,
     RereadSettings, UpdateAccountSettings
<1>9. ASSUME NEW r \in Requests, NEW e \in DOMAIN enrollments, ClaimEnrollment(r, e)
     PROVE  Keeps
  BY <1>9 DEF sourceVars, tokenVars, settingVars, ClaimEnrollment, Start
<1>10. ASSUME NEW r \in Requests, NEW change \in Change, ReadSettings(r, change)
     PROVE  Keeps
  BY <1>10 DEF sourceVars, tokenVars, settingVars, ReadSettings, Start
<1>11. ASSUME NEW e \in DOMAIN enrollments, EnrollmentExpires(e)
     PROVE  Keeps
  BY <1>11 DEF sourceVars, tokenVars, settingVars, EnrollmentExpires
<1>12. ASSUME UNCHANGED vars PROVE Keeps
  BY <1>12 DEF vars, sourceVars, tokenVars, settingVars
<1>13. ASSUME Keeps PROVE Effect
  BY <1>13, <1>0 DEF TypeOK, SourceIds, SourcesGrow
<1> HIDE DEF Effect, Keeps
<1>q. Effect
  BY <1>0, <1>1, <1>2, <1>3, <1>4, <1>5, <1>6, <1>7, <1>8, <1>9, <1>10, <1>11,
     <1>12, <1>13 DEF Next
<1> QED
  BY <1>q DEF Effect

\* What slipped through, or was spent for nothing, are numbers of enrollments.
LEMMA NumbersStep ==
  ASSUME TypeOK, RequestInv, [Next]_vars
  PROVE  slipped' \union spent' \subseteq Nat
<1>0. EnrollmentsGrow
  BY EnrollmentsStep
<1> DEFINE Effect ==
      slipped' \union spent' \subseteq Nat
           Keeps == slipped' = slipped /\ spent' = spent
<1>1. ASSUME NEW r \in Requests, DisableAgents(r) PROVE Effect
  <2>1. Registering \subseteq Nat
    BY DEF TypeOK, Request, Registering
  <2>2. slipped' \subseteq slipped \union Registering /\ spent' = spent
    <3>1. spent' = spent
      BY <1>1 DEF DisableAgents
    <3>2. \A e \in slipped' : e \in slipped \union Registering
      BY <1>1, DisableAgentsEffect
    <3> QED
      BY <3>1, <3>2
  <2> QED
    BY <2>1, <2>2 DEF TypeOK
<1>2. ASSUME NEW r \in Requests, InsertEnrollment(r) PROVE Effect
  <2> DEFINE new == Append(enrollments, [source |-> req[r].source, status |-> "open"])
  <2>1. /\ slipped' = slipped \/ (enrollments' = new /\ slipped' = slipped \union {Len(new)})
        /\ spent' = spent
    BY <1>2 DEF InsertEnrollment
  <2>2. enrollments' = new => Len(new) \in Nat
    BY <1>0, LenProperties DEF EnrollmentsGrow
  <2> HIDE DEF new
  <2> QED
    BY <2>1, <2>2 DEF TypeOK
<1>3. ASSUME NEW r \in Requests, NEW e \in DOMAIN enrollments, ClaimEnrollment(r, e)
      PROVE  Effect
  <2>1. e \in Nat
    BY Numbers
  <2> QED
    BY <1>3, <2>1 DEF ClaimEnrollment, TypeOK
<1>4. ASSUME NEW r \in Requests, InsertAgent(r) PROVE Effect
  <2>1. req[r].enrollment \in Nat
    BY DEF TypeOK, Request
  <2>2. spent' \subseteq spent \union {req[r].enrollment} /\ slipped' = slipped
    BY <1>4 DEF InsertAgent
  <2> QED
    BY <2>1, <2>2 DEF TypeOK
<1>5. ASSUME Crash PROVE Effect
  <2>1. Registering \subseteq Nat
    BY DEF TypeOK, Request, Registering
  <2> QED
    BY <1>5, <2>1 DEF Crash, TypeOK
<1>6. ASSUME NEW r \in Requests, NEW ebpf \in BOOLEAN, CreateDataSource(r, ebpf)
     PROVE  Keeps
  BY <1>6 DEF sourceVars, tokenVars, settingVars, CreateDataSource, Start
<1>7. ASSUME NEW r \in Requests, NEW s \in SourceIds,
       \/ DeleteDataSource(r, s) \/ CreateAgentEnrollment(r, s)
     PROVE  Keeps
  BY <1>7 DEF sourceVars, tokenVars, settingVars, DeleteDataSource, Start,
     CreateAgentEnrollment
<1>8. ASSUME NEW r \in Requests,
       \/ ExpireEnrollments(r) \/ ConnectSource(r) \/ GetIngestToken(r)
       \/ createAccountIngestToken(r) \/ RotateIngestToken(r) \/ AccountIngest(r)
     PROVE  Keeps
  BY <1>8 DEF sourceVars, tokenVars, settingVars, ExpireEnrollments, Step,
     ConnectSource, GetIngestToken, Start, createAccountIngestToken,
     RotateIngestToken, AccountIngest
<1>9. ASSUME NEW r \in Requests,
       \/ MarkIngestTrafficSeen(r) \/ InsertAutoSource(r)
       \/ InsertDefaultSettings(r) \/ RereadSettings(r)
       \/ UpdateAccountSettings(r)
     PROVE  Keeps
  BY <1>9 DEF sourceVars, tokenVars, settingVars, MarkIngestTrafficSeen, Step,
     InsertAutoSource, InsertDefaultSettings, RereadSettings, UpdateAccountSettings
<1>10. ASSUME NEW r \in Requests, NEW change \in Change, ReadSettings(r, change)
     PROVE  Keeps
  BY <1>10 DEF sourceVars, tokenVars, settingVars, ReadSettings, Start
<1>11. ASSUME NEW e \in DOMAIN enrollments, EnrollmentExpires(e)
     PROVE  Keeps
  BY <1>11 DEF sourceVars, tokenVars, settingVars, EnrollmentExpires
<1>12. ASSUME UNCHANGED vars PROVE Keeps
  BY <1>12 DEF vars, sourceVars, tokenVars, settingVars
<1>13. ASSUME Keeps PROVE Effect
  BY <1>13 DEF TypeOK
<1> HIDE DEF Effect, Keeps
<1>q. Effect
  BY <1>0, <1>1, <1>2, <1>3, <1>4, <1>5, <1>6, <1>7, <1>8, <1>9, <1>10, <1>11,
     <1>12, <1>13 DEF Next
<1> QED
  BY <1>q DEF Effect

\* Types are kept.
LEMMA TypeStep ==
  ASSUME TypeOK, RequestInv, ShownTokenWorks, [Next]_vars
  PROVE  TypeOK'
<1>1. /\ sources' \in Seq(Source) /\ enrollments' \in Seq(Enrollment)
      /\ agents' \in Seq(Agent)
  BY SourcesStep, EnrollmentsStep, AgentsStep DEF SourcesGrow, EnrollmentsGrow, AgentsGrow
<1>2. /\ token' \in 0..MaxRequests /\ shown' \subseteq 1..MaxRequests
  BY TokenStep
<1>3. /\ settings' \subseteq Settings /\ Cardinality(settings') <= 1
      /\ asked' \in Settings /\ overlapped' \in BOOLEAN
  BY SettingsTypes
<1>4. faults' \in 0..MaxFaults
  <2>1. Ok \/ Err
    BY OkOrErr
  <2> QED
    BY <2>1, AgentAccessAssumption DEF Ok, Err, TypeOK
<1>5. slipped' \union spent' \subseteq Nat
  BY NumbersStep
<1>6. unfinished' \subseteq SourceIds'
  BY UnfinishedStep
<1>7. started' \in 0..MaxRequests /\ req' \in [Requests -> Request]
  BY StartedStep, RequestTypes
<1> QED
  BY <1>1, <1>2, <1>3, <1>4, <1>5, <1>6, <1>7 DEF TypeOK

-----------------------------------------------------------------------------
(* Theorems *)

\* Nothing has happened yet.
LEMMA InitInv ==
  ASSUME Init
  PROVE  AgentAccessInv
<1>1. \A q \in Requests : req[q].pc = "idle" /\ req[q].change = NoChange
  BY IdleFields DEF Init
<1>2. TypeOK
  <2>1. /\ << >> \in Seq(Source) /\ << >> \in Seq(Enrollment) /\ << >> \in Seq(Agent)
    OBVIOUS
  <2>2. req \in [Requests -> Request] /\ asked \in Settings
    BY Defaults DEF Init
  <2>3. settings = {} /\ Cardinality(settings) <= 1
    BY OneSettings DEF Init
  <2>4. /\ token \in 0..MaxRequests /\ started \in 0..MaxRequests /\ faults \in 0..MaxFaults
    BY AgentAccessAssumption DEF Init
  <2> QED
    BY <2>1, <2>2, <2>3, <2>4 DEF Init, TypeOK
<1>3. DOMAIN sources = {} /\ DOMAIN enrollments = {} /\ DOMAIN agents = {}
  BY DEF Init
<1>4. RequestInv
  BY <1>1 DEF RequestInv, Holds, Deleting
<1>5. EnrollmentInv /\ DeleteInv
  BY <1>3 DEF EnrollmentInv, DeleteInv
<1>6. SettingsInv /\ ShownTokenWorks
  BY <1>1 DEF Init, SettingsInv, ShownTokenWorks, Updating
<1> QED
  BY <1>2, <1>4, <1>5, <1>6 DEF AgentAccessInv

LEMMA StepInv ==
  ASSUME AgentAccessInv, [Next]_vars
  PROVE  AgentAccessInv'
<1>1. TypeOK /\ RequestInv /\ EnrollmentInv /\ DeleteInv /\ SettingsInv /\ ShownTokenWorks
  BY DEF AgentAccessInv
<1>2. TypeOK' /\ RequestInv'
  BY <1>1, TypeStep, RequestStep
<1>3. EnrollmentInv' /\ DeleteInv'
  BY <1>1, EnrollmentStep, DeleteStep
<1>4. SettingsInv'
  BY <1>1, SettingsStep
<1>5. ShownTokenWorks'
  BY <1>1, TokenStep DEF ShownTokenWorks
<1> QED
  BY <1>2, <1>3, <1>4, <1>5 DEF AgentAccessInv

\* The inductive invariant of the quick start: registrations, deletes, the token and
\* the settings, whatever calls fail and whenever the server dies.
THEOREM AgentAccessInvHolds == Spec => []AgentAccessInv
<1>1. Init => AgentAccessInv
  BY InitInv
<1>2. AgentAccessInv /\ [Next]_vars => AgentAccessInv'
  BY StepInv
<1> QED
  BY <1>1, <1>2, PTL DEF Spec

\* Sources, enrollments, agents, the token, the settings and the local variables of the
\* requests stay within their types; the account has at most one document of settings.
THEOREM AgentAccessTypes == Spec => []TypeOK
<1>1. AgentAccessInv => TypeOK
  BY DEF AgentAccessInv
<1> QED
  BY <1>1, AgentAccessInvHolds, PTL

\* However many registrations race for an enrollment, the claim in handleRegisterAgent
\* lets one through: at most one agent comes of it, and one does unless a call failed
\* or the server died in between.
THEOREM OneAgentPerEnrollment == Spec => []EnrollmentYieldsOneAgent
<1>1. ASSUME AgentAccessInv
      PROVE  EnrollmentYieldsOneAgent
  <2> SUFFICES ASSUME NEW e \in DOMAIN enrollments
               PROVE  LET n == Cardinality({a \in DOMAIN agents : agents[a].enrollment = e})
                      IN  /\ n <= 1 /\ (n = 1 => enrollments[e].status = "used")
                          /\ (enrollments[e].status = "used" /\ e \notin spent \union Registering)
                             => n = 1
    BY DEF EnrollmentYieldsOneAgent
  <2> DEFINE A == {a \in DOMAIN agents : agents[a].enrollment = e}
  <2>1. EnrollmentInv
    BY <1>1 DEF AgentAccessInv
  <2>2. CASE A = {}
    <3>1. Cardinality(A) = 0
      BY <2>2, FS_EmptySet
    <3>2. ~(enrollments[e].status = "used" /\ e \notin spent \union Registering)
      BY <2>1, <2>2 DEF EnrollmentInv
    <3> QED
      BY <3>1, <3>2
  <2>3. ASSUME NEW a \in A
        PROVE  Cardinality(A) = 1 /\ enrollments[e].status = "used"
    <3>1. \A b \in A : b = a
      BY <2>1, <2>3 DEF EnrollmentInv
    <3>2. A = {a}
      BY <2>3, <3>1
    <3>3. enrollments[e].status = "used"
      BY <2>1, <2>3 DEF EnrollmentInv
    <3> HIDE DEF A
    <3> QED
      BY <3>2, <3>3, FS_Singleton
  <2> HIDE DEF A
  <2>4. /\ Cardinality(A) <= 1 /\ (Cardinality(A) = 1 => enrollments[e].status = "used")
        /\ (enrollments[e].status = "used" /\ e \notin spent \union Registering)
           => Cardinality(A) = 1
    <3>1. CASE A = {}
      BY <2>2, <3>1, FS_EmptySet DEF A
    <3>2. CASE A # {}
      BY <2>3, <3>2
    <3> QED
      BY <3>1, <3>2
  <2> QED
    BY <2>4 DEF A
<1> QED
  BY <1>1, AgentAccessInvHolds, PTL

\* An agent whose token FindAgentByTokenHash accepts also gets its configuration; the
\* exceptions are the agents of a delete that is under way or failed halfway, and those
\* that passed the three updates of a delete between its reads and writes.
THEOREM ActiveAgentsAreServed == Spec => []ActiveAgentIsServed
<1>1. ASSUME AgentAccessInv
      PROVE  ActiveAgentIsServed
  <2> SUFFICES ASSUME NEW a \in DOMAIN agents, Authenticates(a), ~ConfigServed(a),
                      agents[a].source \notin unfinished,
                      ~\E r \in Requests : Deleting(r) /\ req[r].source = agents[a].source
               PROVE  agents[a].enrollment \in slipped
    BY DEF ActiveAgentIsServed
  <2>1. EnrollmentInv /\ DeleteInv
    BY <1>1 DEF AgentAccessInv
  <2> DEFINE e == agents[a].enrollment
             s == agents[a].source
  <2>2. /\ e \in DOMAIN enrollments /\ enrollments[e].source = s
        /\ s \in SourceIds /\ sources[s].ebpf
    BY <2>1 DEF EnrollmentInv
  <2>3. sources[s].deleted
    BY <2>2 DEF ConfigServed, Listed
  <2>4. Settled(s)
    BY <2>3 DEF Settled
  <2>5. Alive(e)
    BY DEF Alive, Authenticates
  <2> QED
    BY <2>1, <2>2, <2>4, <2>5 DEF DeleteInv
<1> QED
  BY <1>1, AgentAccessInvHolds, PTL

\* Until somebody rotates it, the token the dashboard shows is the account's: neither
\* the goroutine after a signup nor another reader replaces one already answered.
THEOREM ShownTokensWork == Spec => []ShownTokenWorks
<1>1. AgentAccessInv => ShownTokenWorks
  BY DEF AgentAccessInv
<1> QED
  BY <1>1, AgentAccessInvHolds, PTL

\* Updates of the settings that do not overlap lose nothing, although each of them
\* writes back what it has read and reads may create the defaults at any time.
THEOREM SequentialUpdatesAreKept == Spec => []SequentialUpdatesKept
<1>1. AgentAccessInv => SequentialUpdatesKept
  BY DEF AgentAccessInv, SettingsInv, SequentialUpdatesKept
<1> QED
  BY <1>1, AgentAccessInvHolds, PTL


-----------------------------------------------------------------------------
(* Sources created from traffic *)

AutoListed == {s \in Listed : sources[s].auto}
Inserting == {r \in Requests : req[r].pc = "auto"}

LEMMA AutoIsFinite ==
  ASSUME TypeOK
  PROVE  IsFiniteSet(AutoListed) /\ IsFiniteSet(Inserting)
<1>1. Len(sources) \in Nat /\ DOMAIN sources = 1..Len(sources)
  BY LenProperties DEF TypeOK
<1>2. IsFiniteSet(DOMAIN sources)
  BY <1>1, FS_Interval
<1>3. AutoListed \subseteq DOMAIN sources /\ Inserting \subseteq Requests
  BY DEF AutoListed, Listed, SourceIds, Inserting
<1> QED
  BY <1>2, <1>3, FS_Subset, AgentAccessAssumption

\* Sets that do not grow keep the bound.
LEMMA FewerStay ==
  ASSUME NEW A, NEW B, NEW P, NEW Q, NEW n \in Nat, IsFiniteSet(A), IsFiniteSet(P),
         Cardinality(A) + Cardinality(P) <= n, B \subseteq A, Q \subseteq P
  PROVE  Cardinality(B) + Cardinality(Q) <= n
<1>1. /\ Cardinality(B) <= Cardinality(A) /\ Cardinality(Q) <= Cardinality(P)
      /\ IsFiniteSet(B) /\ IsFiniteSet(Q)
  BY FS_Subset
<1>2. /\ Cardinality(A) \in Nat /\ Cardinality(B) \in Nat
      /\ Cardinality(P) \in Nat /\ Cardinality(Q) \in Nat
  BY <1>1, FS_CardinalityType
<1> QED
  BY <1>1, <1>2

\* An insert of a source is one request less and one source more.
LEMMA OneInserted ==
  ASSUME NEW A, NEW B, NEW P, NEW Q, NEW n \in Nat, IsFiniteSet(A), IsFiniteSet(P),
         Cardinality(A) + Cardinality(P) <= n,
         NEW x, B \subseteq A \union {x}, NEW r \in P, Q \subseteq P \ {r}
  PROVE  Cardinality(B) + Cardinality(Q) <= n
<1>1. /\ IsFiniteSet(A \union {x}) /\ Cardinality(A \union {x}) <= Cardinality(A) + 1
  <2>1. /\ IsFiniteSet(A \union {x}) /\ Cardinality(A) \in Nat
        /\ Cardinality(A \union {x}) = IF x \in A THEN Cardinality(A) ELSE Cardinality(A) + 1
    BY FS_AddElement, FS_CardinalityType
  <2> QED
    BY <2>1
<1>2. /\ IsFiniteSet(P \ {r}) /\ Cardinality(P \ {r}) = Cardinality(P) - 1
  BY FS_RemoveElement
<1>3. /\ Cardinality(A) \in Nat /\ Cardinality(P) \in Nat
  BY FS_CardinalityType
<1>4. Cardinality(A \union {x}) \in Nat /\ Cardinality(P \ {r}) \in Nat
  BY <1>1, <1>2, FS_CardinalityType
<1>5. Cardinality(A \union {x}) + Cardinality(P \ {r}) <= n
  BY <1>1, <1>2, <1>3, <1>4
<1> QED
  BY <1>1, <1>2, <1>5, FewerStay

\* Steps that list no further source of traffic and have none inserted.
NoneInserted ==
    /\ \A s \in DOMAIN sources' :
         sources'[s].auto /\ ~sources'[s].deleted =>
           s \in DOMAIN sources /\ sources[s].auto /\ ~sources[s].deleted
    /\ \A q \in Requests : req'[q].pc = "auto" => req[q].pc = "auto"

LEMMA AutoAddedPlainly ==
  ASSUME TypeOK, NEW x \in Source, ~x.auto, sources' = Append(sources, x)
  PROVE  \A s \in DOMAIN sources' :
           sources'[s].auto /\ ~sources'[s].deleted =>
             s \in DOMAIN sources /\ sources[s].auto /\ ~sources[s].deleted
<1>1. sources \in Seq(Source)
  BY DEF TypeOK
<1> QED
  BY <1>1, NextMember

LEMMA AutoStatus ==
  ASSUME TypeOK, NEW s \in DOMAIN sources, NEW x \in {"PENDING", "CONNECTED", "DELETED"},
         sources' = [sources EXCEPT ![s].status = x]
  PROVE  \A t \in DOMAIN sources' :
           sources'[t].auto /\ ~sources'[t].deleted =>
             t \in DOMAIN sources /\ sources[t].auto /\ ~sources[t].deleted
  BY SourceStatus DEF SourcesGrow

\* Only the two calls of MarkIngestTrafficSeen are about sources created from
\* traffic.
LEMMA NoneInsertedOr ==
  ASSUME TypeOK, RequestInv, [Next]_vars
  PROVE  \/ NoneInserted
         \/ \E r \in Requests : MarkIngestTrafficSeen(r) \/ InsertAutoSource(r)
<1> DEFINE Effect ==
      \/ NoneInserted
      \/ \E r \in Requests : MarkIngestTrafficSeen(r) \/ InsertAutoSource(r)
           Keeps == NoneInserted
<1>1. ASSUME NEW r \in Requests, NEW ebpf \in BOOLEAN, CreateDataSource(r, ebpf)
      PROVE  Effect
  <2>1. \A s \in DOMAIN sources' :
          sources'[s].auto /\ ~sources'[s].deleted =>
            s \in DOMAIN sources /\ sources[s].auto /\ ~sources[s].deleted
    <3>1. \/ sources' = sources
          \/ \E x \in Source : ~x.auto /\ sources' = Append(sources, x)
      BY <1>1 DEF CreateDataSource, NewSource, Source
    <3> QED
      BY <3>1, AutoAddedPlainly
  <2> QED
    BY <1>1, <2>1, CreateDataSourceMove DEF NoneInserted
<1>2. ASSUME NEW r \in Requests, NEW s \in SourceIds, DeleteDataSource(r, s)
      PROVE  Effect
  <2>1. \A t \in DOMAIN sources' :
          sources'[t].auto /\ ~sources'[t].deleted =>
            t \in DOMAIN sources /\ sources[t].auto /\ ~sources[t].deleted
    <3>1. CASE sources' = sources
      BY <3>1
    <3>2. CASE sources' = [sources EXCEPT ![s].status = "DELETED", ![s].deleted = TRUE]
      BY <3>2, SourceDeleted DEF SourceIds
    <3> QED
      BY <1>2, <3>1, <3>2 DEF DeleteDataSource
  <2>2. req' = req \/ \E p, t, d : At(r, p, t, d) /\ p # "auto"
    BY <1>2, DeleteDataSourceMove, EntersAt
  <2> QED
    BY <2>1, <2>2 DEF NoneInserted, At
<1>3. ASSUME NEW r \in Requests, NEW s \in SourceIds, CreateAgentEnrollment(r, s)
      PROVE  Effect
  <2>1. sources' = sources
    BY <1>3 DEF CreateAgentEnrollment, sourceVars
  <2>2. \E p, t, d : At(r, p, t, d) /\ p # "auto"
    BY <1>3, CreateAgentEnrollmentMove, EntersAt
  <2> QED
    BY <2>1, <2>2 DEF NoneInserted, At
<1>4. ASSUME NEW r \in Requests, ExpireEnrollments(r) PROVE Effect
  <2>1. sources' = sources
    BY <1>4 DEF ExpireEnrollments, sourceVars
  <2>2. \E p, t, d : At(r, p, t, d) /\ p # "auto"
    BY <1>4, ExpireEnrollmentsMove, EndsAt, EntersAt
  <2> QED
    BY <2>1, <2>2 DEF NoneInserted, At
<1>5. ASSUME NEW r \in Requests, DisableAgents(r) PROVE Effect
  <2>1. sources' = sources
    BY <1>5 DEF DisableAgents, sourceVars
  <2>2. \E p, t, d : At(r, p, t, d) /\ p # "auto"
    BY <1>5, DisableAgentsMove, EndsAt
  <2> QED
    BY <2>1, <2>2 DEF NoneInserted, At
<1>6. ASSUME NEW r \in Requests, InsertEnrollment(r) PROVE Effect
  <2>1. sources' = sources
    BY <1>6 DEF InsertEnrollment, sourceVars
  <2>2. \E p, t, d : At(r, p, t, d) /\ p # "auto"
    BY <1>6, InsertEnrollmentMove, EndsAt
  <2> QED
    BY <2>1, <2>2 DEF NoneInserted, At
<1>7. ASSUME NEW r \in Requests, NEW e \in DOMAIN enrollments, ClaimEnrollment(r, e)
      PROVE  Effect
  <2>1. sources' = sources
    BY <1>7 DEF ClaimEnrollment, sourceVars
  <2>2. req' = req \/ \E p, t, d : At(r, p, t, d) /\ p # "auto"
    BY <1>7, ClaimEnrollmentMove, EntersAt
  <2> QED
    BY <2>1, <2>2 DEF NoneInserted, At
<1>8. ASSUME NEW r \in Requests, InsertAgent(r) PROVE Effect
  <2>1. sources' = sources
    BY <1>8 DEF InsertAgent, sourceVars
  <2>2. \E p, t, d : At(r, p, t, d) /\ p # "auto"
    BY <1>8, InsertAgentMove, GotoAt, EndsAt
  <2> QED
    BY <2>1, <2>2 DEF NoneInserted, At
<1>9. ASSUME NEW r \in Requests, ConnectSource(r) PROVE Effect
  <2>1. \A s \in DOMAIN sources' :
          sources'[s].auto /\ ~sources'[s].deleted =>
            s \in DOMAIN sources /\ sources[s].auto /\ ~sources[s].deleted
    <3>1. \/ sources' = sources
          \/ sources' = [sources EXCEPT ![req[r].source].status = "CONNECTED"]
      BY <1>9 DEF ConnectSource
    <3>2. req[r].source \in DOMAIN sources
      BY <1>9, ConnectSourceMove DEF RequestInv, Holds, SourceIds
    <3> QED
      BY <3>1, <3>2, AutoStatus
  <2>2. \E p, t, d : At(r, p, t, d) /\ p # "auto"
    BY <1>9, ConnectSourceMove, EndsAt
  <2> QED
    BY <2>1, <2>2 DEF NoneInserted, At
<1>10. ASSUME NEW r \in Requests, GetIngestToken(r) PROVE Effect
  <2>1. sources' = sources
    BY <1>10 DEF GetIngestToken, sourceVars
  <2>2. req' = req \/ \E p, t, d : At(r, p, t, d) /\ p # "auto"
    BY <1>10, GetIngestTokenMove, BecomesAt
  <2> QED
    BY <2>1, <2>2 DEF NoneInserted, At
<1>11. ASSUME NEW r \in Requests, createAccountIngestToken(r) PROVE Effect
  <2>1. sources' = sources
    BY <1>11 DEF createAccountIngestToken, sourceVars
  <2>2. \E p, t, d : At(r, p, t, d) /\ p # "auto"
    BY <1>11, createAccountIngestTokenMove, EndsAt
  <2> QED
    BY <2>1, <2>2 DEF NoneInserted, At
<1>12. ASSUME NEW r \in Requests, RotateIngestToken(r) PROVE Effect
  <2>1. sources' = sources
    BY <1>12 DEF RotateIngestToken, sourceVars
  <2> QED
    BY <1>12, <2>1, RotateIngestTokenMove DEF NoneInserted
<1>13. ASSUME NEW r \in Requests, AccountIngest(r) PROVE Effect
  <2>1. sources' = sources
    BY <1>13 DEF AccountIngest, sourceVars
  <2>2. \E p, t, d : At(r, p, t, d) /\ p # "auto"
    BY <1>13, AccountIngestMove, EntersAt
  <2> QED
    BY <2>1, <2>2 DEF NoneInserted, At
<1>14. ASSUME NEW r \in Requests, MarkIngestTrafficSeen(r) PROVE Effect
  BY <1>14
<1>15. ASSUME NEW r \in Requests, InsertAutoSource(r) PROVE Effect
  BY <1>15
<1>16. ASSUME NEW r \in Requests, NEW change \in Change, ReadSettings(r, change)
      PROVE  Effect
  <2>1. sources' = sources
    BY <1>16 DEF ReadSettings, sourceVars
  <2>2. PICK d \in settings \union {DefaultSettings} :
          \/ Becomes(r, "default", 0, 0, 0, DefaultSettings, change)
          \/ Becomes(r, "update", 0, 0, 0, d, change)
    BY <1>16, ReadSettingsMove
  <2>3. At(r, "default", 0, 0) \/ At(r, "update", 0, 0)
    BY <2>2, BecomesAt
  <2> QED
    BY <2>1, <2>3 DEF NoneInserted, At
<1>17. ASSUME NEW r \in Requests, InsertDefaultSettings(r) PROVE Effect
  <2>1. sources' = sources
    BY <1>17 DEF InsertDefaultSettings, sourceVars
  <2>2. \E p, t, d : At(r, p, t, d) /\ p # "auto"
    BY <1>17, InsertDefaultSettingsMove, GotoAt, LoadsAt, EndsAt
  <2> QED
    BY <2>1, <2>2 DEF NoneInserted, At
<1>18. ASSUME NEW r \in Requests, RereadSettings(r) PROVE Effect
  <2>1. sources' = sources
    BY <1>18 DEF RereadSettings, sourceVars
  <2>2. \E p, t, d : At(r, p, t, d) /\ p # "auto"
    BY <1>18, RereadSettingsMove, LoadsAt, EndsAt
  <2> QED
    BY <2>1, <2>2 DEF NoneInserted, At
<1>19. ASSUME NEW r \in Requests, UpdateAccountSettings(r) PROVE Effect
  <2>1. sources' = sources
    BY <1>19 DEF UpdateAccountSettings, sourceVars
  <2>2. \E p, t, d : At(r, p, t, d) /\ p # "auto"
    BY <1>19, UpdateAccountSettingsMove, EndsAt
  <2> QED
    BY <2>1, <2>2 DEF NoneInserted, At
<1>20. ASSUME NEW e \in DOMAIN enrollments, EnrollmentExpires(e) PROVE Effect
  BY <1>20 DEF EnrollmentExpires, NoneInserted
<1>21. ASSUME Crash PROVE Effect
  BY <1>21, IdleFields DEF Crash, NoneInserted
<1>22. ASSUME UNCHANGED vars PROVE Keeps
  BY <1>22 DEF vars, sourceVars, NoneInserted
<1>23. ASSUME Keeps PROVE Effect
  BY <1>23
<1> HIDE DEF Effect, Keeps
<1>q. Effect
  BY <1>1, <1>2, <1>3, <1>4, <1>5, <1>6, <1>7, <1>8, <1>9, <1>10, <1>11, <1>12,
     <1>13, <1>14, <1>15, <1>16, <1>17, <1>18, <1>19, <1>20, <1>21, <1>22, <1>23 DEF
     Next
<1> QED
  BY <1>q DEF Effect

\* The bound is kept by every step.
LEMMA AutoStep ==
  ASSUME TypeOK, RequestInv, TypeOK', AutoSourcesBounded, [Next]_vars
  PROVE  AutoSourcesBounded'
<1>0. /\ IsFiniteSet(AutoListed) /\ IsFiniteSet(Inserting)
      /\ Cardinality(Requests) \in Nat
      /\ Cardinality(AutoListed) + Cardinality(Inserting) <= Cardinality(Requests)
  BY AutoIsFinite, AgentAccessAssumption, FS_CardinalityType
     DEF AutoSourcesBounded, AutoListed, Inserting
<1>1. CASE NoneInserted
  <2>1. AutoListed' \subseteq AutoListed /\ Inserting' \subseteq Inserting
    BY <1>1 DEF NoneInserted, AutoListed, Listed, SourceIds, Inserting
  <2>2. Cardinality(AutoListed') + Cardinality(Inserting') <= Cardinality(Requests)
    BY <1>0, <2>1, FewerStay
  <2> QED
    BY <2>2 DEF AutoSourcesBounded, AutoListed, Inserting
<1>2. ASSUME NEW r \in Requests, MarkIngestTrafficSeen(r)
      PROVE  AutoSourcesBounded'
  <2>1. CASE Listed = {} /\ sources' = sources
    <3>1. AutoListed' = {}
      BY <2>1 DEF AutoListed, Listed, SourceIds
    <3>2. Inserting' \subseteq Requests
      BY DEF Inserting
    <3>3. Cardinality({}) = 0 /\ IsFiniteSet({})
      BY FS_EmptySet
    <3>4. Cardinality({}) + Cardinality(Requests) <= Cardinality(Requests)
      BY <1>0, <3>3
    <3>5. Cardinality(AutoListed') + Cardinality(Inserting') <= Cardinality(Requests)
      BY <1>0, <3>1, <3>2, <3>3, <3>4, FewerStay, AgentAccessAssumption
    <3> QED
      BY <3>5 DEF AutoSourcesBounded, AutoListed, Inserting
  <2>2. ASSUME Done(r),
               \/ sources' = sources
               \/ \E s \in Listed : sources' = [sources EXCEPT ![s].status = "CONNECTED"]
        PROVE  AutoSourcesBounded'
    <3>1. Ends(r)
      BY <2>2 DEF Done, Become, Ends, Enters, Becomes, Idle, Local
    <3>2. At(r, "idle", 0, 0)
      BY <3>1, EndsAt
    <3>3. \A s \in DOMAIN sources' :
            sources'[s].auto /\ ~sources'[s].deleted =>
              s \in DOMAIN sources /\ sources[s].auto /\ ~sources[s].deleted
      BY <2>2, AutoStatus DEF Listed, SourceIds
    <3>4. NoneInserted
      BY <3>2, <3>3 DEF NoneInserted, At
    <3> QED
      BY <1>1, <3>4
  <2> QED
    BY <1>2, <2>1, <2>2 DEF MarkIngestTrafficSeen, Markable
<1>3. ASSUME NEW r \in Requests, InsertAutoSource(r)
      PROVE  AutoSourcesBounded'
  <2>1. At(r, "idle", 0, 0) /\ r \in Inserting
    BY <1>3, InsertAutoSourceMove, EndsAt DEF Inserting
  <2>2. Inserting' \subseteq Inserting \ {r}
    BY <2>1 DEF Inserting, At
  <2>3. AutoListed' \subseteq AutoListed \union {Len(sources) + 1}
    <3>1. CASE sources' = sources
      BY <3>1 DEF AutoListed, Listed, SourceIds
    <3>2. ASSUME NEW x \in Source, sources' = Append(sources, x)
          PROVE  AutoListed' \subseteq AutoListed \union {Len(sources) + 1}
      <4>1. /\ DOMAIN sources' = DOMAIN sources \union {Len(sources) + 1}
            /\ \A s \in DOMAIN sources : sources'[s] = sources[s]
        BY <3>2, NextMember DEF TypeOK
      <4> QED
        BY <4>1 DEF AutoListed, Listed, SourceIds
    <3>3. \/ sources' = sources
          \/ \E x \in Source : sources' = Append(sources, x)
      BY <1>3 DEF InsertAutoSource, NewSource, Source
    <3> QED
      BY <3>1, <3>2, <3>3
  <2>4. Cardinality(AutoListed') + Cardinality(Inserting') <= Cardinality(Requests)
    BY <1>0, <2>1, <2>2, <2>3, OneInserted
  <2> QED
    BY <2>4 DEF AutoSourcesBounded, AutoListed, Inserting
<1> QED
  BY <1>1, <1>2, <1>3, NoneInsertedOr

\* Although MarkIngestTrafficSeen looks for a source and inserts one in two calls, a
\* burst of accepted batches leaves at most as many sources as there are requests, and
\* none is added while one is listed.
THEOREM AutoSourcesAreBounded == Spec => []AutoSourcesBounded
<1>1. Init => AutoSourcesBounded
  <2>1. ASSUME Init
        PROVE  AutoSourcesBounded
    <3>1. DOMAIN sources = {} /\ \A q \in Requests : req[q].pc = "idle"
      BY <2>1, IdleFields DEF Init
    <3>2. AutoListed = {} /\ Inserting = {}
      BY <3>1 DEF AutoListed, Listed, SourceIds, Inserting
    <3>3. Cardinality({}) = 0 /\ Cardinality(Requests) \in Nat
      BY FS_EmptySet, FS_CardinalityType, AgentAccessAssumption
    <3>4. Cardinality(AutoListed) + Cardinality(Inserting) <= Cardinality(Requests)
      BY <3>2, <3>3
    <3> QED
      BY <3>4 DEF AutoSourcesBounded, AutoListed, Inserting
  <2> QED
    BY <2>1
<1>2. AutoSourcesBounded /\ AgentAccessInv /\ AgentAccessInv' /\ [Next]_vars => AutoSourcesBounded'
  BY AutoStep DEF AgentAccessInv
<1> QED
  BY <1>1, <1>2, AgentAccessInvHolds, PTL DEF Spec
=============================================================================
