--------------------------- MODULE IdentityProofs ---------------------------
(***************************************************************************)
(* Theorems about Identity for every set of requests, addresses and OAuth  *)
(* identities, every number of generated ids and every number of faults.   *)
(*                                                                         *)
(* IdentityInv is inductive: it says what the local variables of a request *)
(* mean between two MongoDB calls, and which request alone may undo an     *)
(* account.  TrimInv carries the bound on the number of sessions.          *)
(***************************************************************************)
EXTENDS Identity, FiniteSetTheorems, TLAPS

\* Where a request has generated an account that it may still have to undo.
Provisioning == {"user", "linkNew", "undoUser", "undoAccount"}

\* Generated ids and session numbers are new.
FreshInv ==
    /\ \A u \in users : u.id < nextId
    /\ \A l \in identities : l.user < nextId
    /\ \A s \in SessionIds : sessions[s].user < nextId
    /\ \A r \in Requests : req[r].user < nextId
    /\ \A r \in Requests : \A s \in req[r].old : sessions[s].status # "none"
    /\ \A s \in SessionIds : s >= nextSession => sessions[s].status = "none"

\* What the locals of a request mean at each of its steps.
RequestInv ==
    \A r \in Requests :
        LET q == req[r] IN
        /\ q.pc \in Provisioning \union {"link"} => q.user \in Ids
        /\ q.pc \in {"byEmail", "create", "link", "linkNew"} => q.external \in Externals
        /\ q.pc = "rotate" => q.session \in SessionIds
        /\ q.pc = "link" => q.verified /\ (UserExists(q.user) \/ q.user \in lostLink)
        /\ q.pc = "linkNew" => UserExists(q.user)
        /\ q.pc = "undoUser" => q.user \in lostLink
        /\ q.pc = "undoAccount" /\ UserExists(q.user) => q.user \in lostUser

\* Only one request may undo an account, and until the user is inserted nothing
\* else refers to its id.
ProvisionInv ==
    /\ \A r, p \in Requests :
        req[r].pc \in Provisioning /\ req[p].pc \in Provisioning /\ req[r].user = req[p].user
        => r = p
    /\ \A r \in Requests : req[r].pc = "user" =>
        /\ req[r].user \in accounts
        /\ \A u \in users : u.id # req[r].user
        /\ \A l \in identities : l.user # req[r].user
        /\ \A s \in SessionIds : sessions[s].user # req[r].user
        /\ \A p \in Requests : req[p].user = req[r].user => p = r

\* The index users_email_unique, and a callback's user has the callback's
\* address; a user it provisioned has its identity too.
AddressInv ==
    /\ \A u, v \in users : u.email = v.email \/ u.id = v.id => u = v
    /\ \A r \in Requests, u \in users :
        LET q == req[r] IN
        /\ q.pc \in {"link", "linkNew", "userById", "getAccount", "session"}
        /\ q.external # NoExternal /\ u.id = q.user
        => u.email = q.email /\ (q.pc = "linkNew" => u.via = q.external)

\* The conjunction that every step preserves.
IdentityInv ==
    /\ TypeOK /\ FreshInv /\ RequestInv /\ ProvisionInv /\ AddressInv
    /\ UserHasAccount /\ IdentityHasUser /\ VerifiedLink

\* The requests that are about to revoke sessions of user u, and those of them
\* that have not listed the sessions yet or will still revoke what they listed.
Revoking(u) == {r \in Requests : req[r].pc = "revoke" /\ req[r].user = u}
Trimming(u) == {r \in Requests : req[r].pc \in {"list", "revoke"} /\ req[r].user = u}
Listed(A) == UNION {req[r].old : r \in A}

\* Whichever requests A carry out their revocation next, they leave at most one
\* session too many for each other request and for each lost one.
TrimInv ==
    \A u \in Ids : \A A \in SUBSET Revoking(u) :
        Cardinality(SessionsOf(u) \ Listed(A))
        <= Keep + Cardinality(Trimming(u) \ A) + faults * Cardinality(Requests)
-----------------------------------------------------------------------------
(* What a step does to the local variables of its request, field by field. *)

\* The identity a callback stores for its user.
NewLink(q) == [external |-> q.external, user |-> q.user, email |-> q.email, verified |-> q.verified]

\* Request r takes these values; the other requests keep theirs.
Becomes(r, pc, user, email, external, verified, old) ==
    /\ req' \in [Requests -> Request]
    /\ \A p \in Requests : p # r => req'[p] = req[p]
    /\ req'[r].pc = pc /\ req'[r].user = user /\ req'[r].email = email
    /\ req'[r].external = external /\ req'[r].verified = verified /\ req'[r].old = old

\* It keeps its locals and goes on elsewhere, keeps only the user, or ends.
GoesTo(r, pc) ==
    Becomes(r, pc, req[r].user, req[r].email, req[r].external, req[r].verified, req[r].old)
Carries(r, pc, user) == Becomes(r, pc, user, NoEmail, NoExternal, FALSE, {})
Ends(r) == Carries(r, "idle", 0)

\* What a step can do to session s: open it, end it, let it age, or rotate it.
Opens(s) ==
    /\ s = nextSession /\ nextSession' = nextSession + 1 /\ sessions'[s].status = "live"
    /\ \E r \in Requests : req[r].pc = "session" /\ sessions'[s].user = req[r].user
    /\ sessions'[s].access = nextToken /\ sessions'[s].refresh = nextToken
Closes(s) ==
    /\ sessions'[s].user = sessions[s].user
    /\ \/ live(s) /\ sessions'[s].status \in {"revoked", "gone"}
       \/ sessions[s].status = "revoked" /\ sessions'[s].status = "revoked"
Ages(s) ==
    /\ live(s) /\ sessions'[s].status = "live" /\ sessions'[s].user = sessions[s].user
    /\ sessions'[s].access = sessions[s].access /\ sessions'[s].refresh = sessions[s].refresh
    /\ sessions[s].age # "expired" /\ sessions'[s].age # "fresh"
Rotates(s) ==
    /\ live(s) /\ sessions'[s].status = "live" /\ sessions'[s].user = sessions[s].user
    /\ sessions'[s].access = nextToken /\ sessions'[s].refresh = nextToken

\* The steps of a request that matter to users, accounts and identities, from the
\* generation of an account to the session; every other step leads Aside.
Aside(p) ==
    /\ req'[p].pc \in {"idle", "account", "byEmail", "create", "list", "revoke", "rotate", "logout"}
    /\ req'[p].pc \in {"byEmail", "create"} => req'[p].external \in Externals
    /\ req'[p].pc = "rotate" => req'[p].session \in SessionIds
Generates(p) ==
    /\ req'[p].pc = "user" /\ req'[p].user = nextId /\ nextId \in Ids /\ nextId' = nextId + 1
    /\ nextId \in accounts' /\ UNCHANGED <<users, identities, sessions>>
    /\ \A o \in Requests : o # p => req'[o] = req[o]
SamePerson(p) ==
    req'[p].user = req[p].user /\ req'[p].email = req[p].email /\ req'[p].external = req[p].external
Inserts(p) ==
    /\ req[p].pc = "user" /\ SamePerson(p) /\ users' = users \union {NewUser(req[p])}
    /\ req'[p].pc = IF req[p].external = NoExternal THEN "session" ELSE "linkNew"
FailsToInsert(p) ==
    /\ req[p].pc = "user" /\ req'[p].pc = "undoAccount" /\ req'[p].user = req[p].user
    /\ users' = users \/ req[p].user \in lostUser'
Links(p) ==
    /\ req[p].pc \in {"link", "linkNew"} /\ req'[p].pc \in {"session", "getAccount"}
    /\ SamePerson(p) /\ users' = users
FailsToLink(p) ==
    /\ req[p].pc = "linkNew" /\ req'[p].pc = "undoUser" /\ req'[p].user = req[p].user
    /\ req[p].user \in lostLink'
Undoes(p) ==
    /\ req[p].pc = "undoUser" /\ req'[p].pc = "undoAccount" /\ req'[p].user = req[p].user
    /\ (\A u \in users' : u.id # req[p].user) \/ req[p].user \in lostUser'
Finds(p) ==
    /\ req[p].pc = "byEmail" /\ req'[p].pc = "link" /\ req'[p].verified
    /\ req'[p].email = req[p].email /\ req'[p].external = req[p].external
    /\ users' = users /\ \E u \in users : u.id = req'[p].user /\ u.email = req'[p].email
Trusts(p) ==
    req'[p].pc \in {"userById", "getAccount"} /\ req'[p].external = NoExternal
GoesOn(p) ==
    /\ req[p].pc \in {"userById", "getAccount"} /\ req'[p].pc \in {"getAccount", "session"}
    /\ SamePerson(p) /\ users' = users

\* A step takes the user of a request from what is stored, or generates it.
KnownUser(n) ==
    \/ n = nextId /\ nextId' = nextId + 1
    \/ \E u \in users : n = u.id
    \/ \E l \in identities : n = l.user

\* Request r inserts user u, and goes on.
Adds(r, u) ==
    /\ req[r].pc = "user" /\ req'[r].pc # "user"
    /\ u = NewUser(req[r]) /\ AddressFree(req[r])

\* The record of an idle request.
LEMMA IdleRecord ==
  /\ Idle \in Request /\ Idle.pc = "idle" /\ Idle.user = 0 /\ Idle.email = NoEmail
  /\ Idle.external = NoExternal /\ Idle.verified = FALSE /\ Idle.old = {}
  BY IdentityAssumption DEF Idle, Request, Steps

\* Assigning a record to req[r] assigns its fields.
LEMMA BecomeFields ==
  ASSUME req \in [Requests -> Request], NEW r \in Requests, NEW q \in Request, Become(r, q)
  PROVE  Becomes(r, q.pc, q.user, q.email, q.external, q.verified, q.old)
  BY DEF Become, Becomes

\* The request ends, goes on, or starts to undo what it did.
LEMMA Moves ==
  ASSUME req \in [Requests -> Request], NEW r \in Requests, NEW p \in Steps
  PROVE  /\ Done(r) => Ends(r)
         /\ Goto(r, p) => GoesTo(r, p)
         /\ Undo(r, p) => Carries(r, p, req[r].user)
<1> req[r] \in Request
  OBVIOUS
<1>1. Done(r) => Ends(r)
  BY IdleRecord, BecomeFields DEF Done, Ends, Carries
<1>2. ASSUME Goto(r, p) PROVE GoesTo(r, p)
  <2> DEFINE q == [req[r] EXCEPT !.pc = p]
  <2>1. /\ q \in Request /\ q.pc = p /\ q.user = req[r].user /\ q.email = req[r].email
        /\ q.external = req[r].external /\ q.verified = req[r].verified /\ q.old = req[r].old
    BY DEF Request
  <2>2. Become(r, q)
    BY <1>2 DEF Goto
  <2> HIDE DEF q
  <2> QED
    BY <2>1, <2>2, BecomeFields DEF GoesTo
<1>3. ASSUME Undo(r, p) PROVE Carries(r, p, req[r].user)
  <2> DEFINE q == [Idle EXCEPT !.pc = p, !.user = req[r].user]
  <2>1. /\ q \in Request /\ q.pc = p /\ q.user = req[r].user /\ q.email = NoEmail
        /\ q.external = NoExternal /\ q.verified = FALSE /\ q.old = {}
    BY IdleRecord DEF Request
  <2>2. Become(r, q)
    BY <1>3 DEF Undo
  <2> HIDE DEF q
  <2> QED
    BY <2>1, <2>2, BecomeFields DEF Carries
<1> QED
  BY <1>1, <1>2, <1>3

\* It remembers a user it generated or found.
LEMMA UserMoves ==
  ASSUME req \in [Requests -> Request], NEW r \in Requests, NEW p \in Steps, NEW u \in 0..MaxUsers
  PROVE  /\ Become(r, [Idle EXCEPT !.pc = p, !.user = u]) => Carries(r, p, u)
         /\ Become(r, [req[r] EXCEPT !.pc = p, !.user = u]) =>
                Becomes(r, p, u, req[r].email, req[r].external, req[r].verified, req[r].old)
<1> req[r] \in Request
  OBVIOUS
<1>1. ASSUME Become(r, [Idle EXCEPT !.pc = p, !.user = u]) PROVE Carries(r, p, u)
  <2> DEFINE q == [Idle EXCEPT !.pc = p, !.user = u]
  <2>1. /\ q \in Request /\ q.pc = p /\ q.user = u /\ q.email = NoEmail
        /\ q.external = NoExternal /\ q.verified = FALSE /\ q.old = {}
    BY IdleRecord DEF Request
  <2>2. Become(r, q)
    BY <1>1
  <2> HIDE DEF q
  <2> QED
    BY <2>1, <2>2, BecomeFields DEF Carries
<1>2. ASSUME Become(r, [req[r] EXCEPT !.pc = p, !.user = u])
      PROVE  Becomes(r, p, u, req[r].email, req[r].external, req[r].verified, req[r].old)
  <2> DEFINE q == [req[r] EXCEPT !.pc = p, !.user = u]
  <2>1. /\ q \in Request /\ q.pc = p /\ q.user = u /\ q.email = req[r].email
        /\ q.external = req[r].external /\ q.verified = req[r].verified /\ q.old = req[r].old
    BY DEF Request
  <2>2. Become(r, q)
    BY <1>2
  <2> HIDE DEF q
  <2> QED
    BY <2>1, <2>2, BecomeFields
<1> QED
  BY <1>1, <1>2

\* It starts with an address.
LEMMA AddressMoves ==
  ASSUME req \in [Requests -> Request], NEW r \in Requests, NEW p \in Steps,
         NEW e \in Emails \union {NoEmail}, Become(r, [Idle EXCEPT !.pc = p, !.email = e])
  PROVE  Becomes(r, p, 0, e, NoExternal, FALSE, {})
<1> DEFINE q == [Idle EXCEPT !.pc = p, !.email = e]
<1>1. /\ q \in Request /\ q.pc = p /\ q.user = 0 /\ q.email = e
      /\ q.external = NoExternal /\ q.verified = FALSE /\ q.old = {}
  BY IdleRecord DEF Request
<1>2. Become(r, q)
  OBVIOUS
<1> HIDE DEF q
<1> QED
  BY <1>1, <1>2, BecomeFields

\* It starts with the profile of a callback.
LEMMA ProfileMoves ==
  ASSUME req \in [Requests -> Request], NEW r \in Requests, NEW p \in Steps,
         NEW e \in Emails \union {NoEmail}, NEW x \in Externals, NEW v \in BOOLEAN,
         Become(r, [[Idle EXCEPT !.external = x, !.email = e, !.verified = v] EXCEPT !.pc = p])
  PROVE  Becomes(r, p, 0, e, x, v, {})
<1> DEFINE q == [[Idle EXCEPT !.external = x, !.email = e, !.verified = v] EXCEPT !.pc = p]
<1>1. /\ q \in Request /\ q.pc = p /\ q.user = 0 /\ q.email = e
      /\ q.external = x /\ q.verified = v /\ q.old = {}
  BY IdleRecord DEF Request
<1>2. Become(r, q)
  OBVIOUS
<1> HIDE DEF q
<1> QED
  BY <1>1, <1>2, BecomeFields

\* It drops the verification once linked, remembers listed sessions, or starts
\* with a session or a token.
LEMMA SessionMoves ==
  ASSUME req \in [Requests -> Request], NEW r \in Requests, NEW p \in Steps
  PROVE  /\ Become(r, [req[r] EXCEPT !.pc = p, !.verified = FALSE]) =>
                Becomes(r, p, req[r].user, req[r].email, req[r].external, FALSE, req[r].old)
         /\ \A old \in SUBSET SessionIds : Become(r, [req[r] EXCEPT !.pc = p, !.old = old]) =>
                Becomes(r, p, req[r].user, req[r].email, req[r].external, req[r].verified, old)
         /\ \A s \in SessionIds : Become(r, [Idle EXCEPT !.pc = p, !.session = s]) => Carries(r, p, 0)
         /\ \A t \in Tokens : Become(r, [Idle EXCEPT !.pc = p, !.token = t]) => Carries(r, p, 0)
<1> req[r] \in Request
  OBVIOUS
<1>1. ASSUME Become(r, [req[r] EXCEPT !.pc = p, !.verified = FALSE])
      PROVE  Becomes(r, p, req[r].user, req[r].email, req[r].external, FALSE, req[r].old)
  <2> DEFINE q == [req[r] EXCEPT !.pc = p, !.verified = FALSE]
  <2>1. /\ q \in Request /\ q.pc = p /\ q.user = req[r].user /\ q.email = req[r].email
        /\ q.external = req[r].external /\ q.verified = FALSE /\ q.old = req[r].old
    BY DEF Request
  <2>2. Become(r, q)
    BY <1>1
  <2> HIDE DEF q
  <2> QED
    BY <2>1, <2>2, BecomeFields
<1>2. ASSUME NEW old \in SUBSET SessionIds, Become(r, [req[r] EXCEPT !.pc = p, !.old = old])
      PROVE  Becomes(r, p, req[r].user, req[r].email, req[r].external, req[r].verified, old)
  <2> DEFINE q == [req[r] EXCEPT !.pc = p, !.old = old]
  <2>1. /\ q \in Request /\ q.pc = p /\ q.user = req[r].user /\ q.email = req[r].email
        /\ q.external = req[r].external /\ q.verified = req[r].verified /\ q.old = old
    BY DEF Request
  <2>2. Become(r, q)
    BY <1>2
  <2> HIDE DEF q
  <2> QED
    BY <2>1, <2>2, BecomeFields
<1>3. ASSUME NEW s \in SessionIds, Become(r, [Idle EXCEPT !.pc = p, !.session = s])
      PROVE  Carries(r, p, 0)
  <2> DEFINE q == [Idle EXCEPT !.pc = p, !.session = s]
  <2> s \in 0..MaxSessions
    BY IdentityAssumption DEF SessionIds
  <2>1. /\ q \in Request /\ q.pc = p /\ q.user = 0 /\ q.email = NoEmail
        /\ q.external = NoExternal /\ q.verified = FALSE /\ q.old = {}
    BY IdleRecord DEF Request
  <2>2. Become(r, q)
    BY <1>3
  <2> HIDE DEF q
  <2> QED
    BY <2>1, <2>2, BecomeFields DEF Carries
<1>4. ASSUME NEW t \in Tokens, Become(r, [Idle EXCEPT !.pc = p, !.token = t])
      PROVE  Carries(r, p, 0)
  <2> DEFINE q == [Idle EXCEPT !.pc = p, !.token = t]
  <2> t \in 0..MaxTokens
    BY IdentityAssumption DEF Tokens
  <2>1. /\ q \in Request /\ q.pc = p /\ q.user = 0 /\ q.email = NoEmail
        /\ q.external = NoExternal /\ q.verified = FALSE /\ q.old = {}
    BY IdleRecord DEF Request
  <2>2. Become(r, q)
    BY <1>4
  <2> HIDE DEF q
  <2> QED
    BY <2>1, <2>2, BecomeFields DEF Carries
<1> QED
  BY <1>1, <1>2, <1>3, <1>4

\* A signup starts with its address and no user.
LEMMA SignupMove ==
  ASSUME TypeOK, NEW r \in Requests, NEW e \in Emails, Signup(r, e)
  PROVE  Becomes(r, "account", 0, e, NoExternal, FALSE, {})
  BY AddressMoves DEF Signup, TypeOK, Steps

\* The account inserted is the generated one; after an error the request ends.
LEMMA InsertAccountMove ==
  ASSUME TypeOK, NEW r \in Requests, InsertAccount(r)
  PROVE  \/ /\ accounts' = accounts \union {nextId} /\ faults' = faults
            /\ Becomes(r, "user", nextId, req[r].email, req[r].external, req[r].verified, req[r].old)
         \/ /\ accounts' \in {accounts, accounts \union {nextId}} /\ faults < MaxFaults
            /\ faults' = faults + 1 /\ Ends(r)
<1> USE IdentityAssumption DEF TypeOK
<1>1. nextId \in 0..MaxUsers
  BY DEF InsertAccount
<1>2. CASE /\ faults' = faults /\ accounts' = accounts \union {nextId}
           /\ Become(r, [req[r] EXCEPT !.pc = "user", !.user = nextId])
  <2>1. Becomes(r, "user", nextId, req[r].email, req[r].external, req[r].verified, req[r].old)
    BY <1>1, <1>2, UserMoves DEF Steps
  <2> QED
    BY <1>2, <2>1
<1>3. CASE Err /\ accounts' \in {accounts, accounts \union {nextId}} /\ Done(r)
  BY <1>3, Moves DEF Err, Steps
<1> QED
  BY <1>2, <1>3 DEF InsertAccount, Ok

\* The user is inserted only if the address is free, or the account is undone.
LEMMA InsertUserMove ==
  ASSUME TypeOK, NEW r \in Requests, InsertUser(r)
  PROVE  \/ /\ users' = users \union {NewUser(req[r])} /\ AddressFree(req[r])
            /\ UNCHANGED <<faults, lostUser>>
            /\ GoesTo(r, IF req[r].external = NoExternal THEN "session" ELSE "linkNew")
         \/ /\ UNCHANGED <<users, lostUser>> /\ faults' \in {faults, faults + 1} /\ faults' <= MaxFaults
            /\ Carries(r, "undoAccount", req[r].user)
         \/ /\ users' = users \union {NewUser(req[r])} /\ AddressFree(req[r])
            /\ lostUser' = lostUser \union {req[r].user} /\ faults < MaxFaults /\ faults' = faults + 1
            /\ Carries(r, "undoAccount", req[r].user)
<1> USE IdentityAssumption DEF TypeOK
<1>1. Undo(r, "undoAccount") => Carries(r, "undoAccount", req[r].user)
  BY Moves DEF Steps
<1>2. CASE /\ faults' = faults /\ AddressFree(req[r]) /\ users' = users \union {NewUser(req[r])}
           /\ lostUser' = lostUser
           /\ Goto(r, IF req[r].external = NoExternal THEN "session" ELSE "linkNew")
  <2>1. GoesTo(r, IF req[r].external = NoExternal THEN "session" ELSE "linkNew")
    BY <1>2, Moves DEF Steps
  <2> QED
    BY <1>2, <2>1
<1>3. CASE /\ Ok \/ Err
           /\ UNCHANGED <<users, lostUser>> /\ Undo(r, "undoAccount")
  BY <1>1, <1>3 DEF Ok, Err
<1>4. CASE /\ Err /\ AddressFree(req[r]) /\ users' = users \union {NewUser(req[r])}
           /\ lostUser' = lostUser \union {req[r].user} /\ Undo(r, "undoAccount")
  BY <1>1, <1>4 DEF Err
<1> QED
  BY <1>2, <1>3, <1>4 DEF InsertUser, Ok

\* The identity is stored unless the external id has one; only a new user's
\* request undoes the user.
LEMMA linkOAuthIdentityMove ==
  ASSUME TypeOK, NEW r \in Requests, linkOAuthIdentity(r)
  PROVE  \/ /\ UNCHANGED <<faults, lostLink>>
            /\ identities' = IF findOAuthIdentity(req[r].external) = {}
                                THEN identities \union {NewLink(req[r])} ELSE identities
            /\ Becomes(r, IF req[r].pc = "linkNew" THEN "session" ELSE "getAccount", req[r].user,
                       req[r].email, req[r].external, FALSE, req[r].old)
         \/ /\ faults < MaxFaults /\ faults' = faults + 1
            /\ identities' \in {identities, identities \union {NewLink(req[r])}}
            /\ IF req[r].pc = "linkNew"
                 THEN lostLink' = lostLink \union {req[r].user} /\ Carries(r, "undoUser", req[r].user)
                 ELSE lostLink' = lostLink /\ Ends(r)
<1> USE IdentityAssumption DEF TypeOK
<1> DEFINE q == req[r]
           next == IF q.pc = "linkNew" THEN "session" ELSE "getAccount"
           stored == IF findOAuthIdentity(q.external) = {} THEN identities \union {NewLink(q)} ELSE identities
<1>1. next \in Steps
  BY DEF Steps
<1>2. CASE /\ faults' = faults /\ lostLink' = lostLink /\ identities' = stored
           /\ Become(r, [q EXCEPT !.pc = next, !.verified = FALSE])
  <2>1. Becomes(r, next, q.user, q.email, q.external, FALSE, q.old)
    <3> HIDE DEF next
    <3> QED
      BY <1>1, <1>2, SessionMoves
  <2> QED
    BY <1>2, <2>1
<1>3. CASE /\ faults < MaxFaults /\ faults' = faults + 1
           /\ identities' \in {identities, identities \union {NewLink(q)}}
           /\ lostLink' = IF q.pc = "linkNew" THEN lostLink \union {q.user} ELSE lostLink
           /\ LinkFailed(r)
  BY <1>3, Moves DEF LinkFailed, Steps
<1> QED
  BY <1>2, <1>3 DEF linkOAuthIdentity, Ok, Err, NewLink


\* The account is undone next.
LEMMA UndoUserMove ==
  ASSUME TypeOK, NEW r \in Requests, UndoUser(r)
  PROVE  Carries(r, "undoAccount", req[r].user)
  BY Moves DEF UndoUser, TypeOK, Steps

\* The request ends.
LEMMA UndoAccountMove ==
  ASSUME TypeOK, NEW r \in Requests, UndoAccount(r)
  PROVE  Ends(r)
  BY Moves DEF UndoAccount, TypeOK, Steps

\* A login goes on with the user it found.
LEMMA LoginMove ==
  ASSUME TypeOK, NEW r \in Requests, NEW u \in users, Login(r, u)
  PROVE  Carries(r, "getAccount", u.id)
<1>1. u.id \in 0..MaxUsers
  BY IdentityAssumption DEF TypeOK, User, Ids
<1>2. Become(r, [Idle EXCEPT !.pc = "getAccount", !.user = u.id])
  BY DEF Login
<1> QED
  BY <1>1, <1>2, UserMoves DEF TypeOK, Steps

\* A callback trusts a known identity, or starts with its profile.
LEMMA OAuthCallbackMove ==
  ASSUME TypeOK, NEW r \in Requests, NEW x \in Externals,
         NEW e \in Emails \union {NoEmail}, NEW v \in BOOLEAN, OAuthCallback(r, x, e, v)
  PROVE  /\ v => e # NoEmail
         /\ \/ \E l \in identities : Carries(r, "userById", l.user)
            \/ e = NoEmail /\ Becomes(r, "account", 0, e, x, v, {})
            \/ e # NoEmail /\ Becomes(r, "byEmail", 0, e, x, v, {})
<1> USE DEF TypeOK
<1>1. v => e # NoEmail
  BY DEF OAuthCallback, Profiles
<1> DEFINE q == [Idle EXCEPT !.external = x, !.email = e, !.verified = v]
<1>2. CASE findOAuthIdentity(x) # {}
  <2>1. PICK l \in findOAuthIdentity(x) : Become(r, [Idle EXCEPT !.pc = "userById", !.user = l.user])
    BY <1>2 DEF OAuthCallback
  <2>2. l \in identities /\ l.user \in 0..MaxUsers
    BY IdentityAssumption DEF findOAuthIdentity, Link, Ids
  <2>3. Carries(r, "userById", l.user)
    BY <2>1, <2>2, UserMoves DEF Steps
  <2> QED
    BY <1>1, <2>2, <2>3
<1>3. CASE findOAuthIdentity(x) = {}
  <2>1. Become(r, [q EXCEPT !.pc = IF e = NoEmail THEN "account" ELSE "byEmail"])
    BY <1>3 DEF OAuthCallback
  <2>2. CASE e = NoEmail
    <3>1. Become(r, [q EXCEPT !.pc = "account"])
      BY <2>1, <2>2
    <3>2. Becomes(r, "account", 0, e, x, v, {})
      BY <3>1, ProfileMoves DEF Steps
    <3> QED
      BY <1>1, <2>2, <3>2
  <2>3. CASE e # NoEmail
    <3>1. Become(r, [q EXCEPT !.pc = "byEmail"])
      BY <2>1, <2>3
    <3>2. Becomes(r, "byEmail", 0, e, x, v, {})
      BY <3>1, ProfileMoves DEF Steps
    <3> QED
      BY <1>1, <2>3, <3>2
  <2> QED
    BY <2>2, <2>3
<1> QED
  BY <1>2, <1>3

\* The callback links the user it found if the address is verified, creates
\* one if there is none, or ends.
LEMMA OAuthByEmailMove ==
  ASSUME TypeOK, NEW r \in Requests, OAuthByEmail(r)
  PROVE  \/ /\ req[r].verified
            /\ \E u \in users : u.email = req[r].email
                              /\ Becomes(r, "link", u.id, req[r].email, req[r].external, req[r].verified, req[r].old)
         \/ Ends(r)
         \/ GoesTo(r, "create")
<1> USE DEF TypeOK
<1>1. CASE MayLink(req[r]) /\ \E u \in FindUserByEmail(req[r].email) :
             Become(r, [req[r] EXCEPT !.pc = "link", !.user = u.id])
  <2>1. PICK u \in FindUserByEmail(req[r].email) :
           Become(r, [req[r] EXCEPT !.pc = "link", !.user = u.id])
    BY <1>1
  <2>2. u \in users /\ u.email = req[r].email /\ u.id \in 0..MaxUsers
    BY IdentityAssumption DEF FindUserByEmail, User, Ids
  <2>3. Becomes(r, "link", u.id, req[r].email, req[r].external, req[r].verified, req[r].old)
    BY <2>1, <2>2, UserMoves DEF Steps
  <2> QED
    BY <1>1, <2>2, <2>3 DEF MayLink
<1>2. CASE Done(r)
  BY <1>2, Moves DEF Steps
<1>3. CASE Goto(r, "create")
  BY <1>3, Moves DEF Steps
<1> QED
  BY <1>1, <1>2, <1>3 DEF OAuthByEmail

\* The callback goes on to provision an account, or ends.
LEMMA OAuthCreateMove ==
  ASSUME TypeOK, NEW r \in Requests, OAuthCreate(r)
  PROVE  GoesTo(r, "account") \/ Ends(r)
  BY Moves DEF OAuthCreate, TypeOK, Steps

\* The callback of a known identity goes on if its user is stored.
LEMMA findUserByIDMove ==
  ASSUME TypeOK, NEW r \in Requests, findUserByID(r)
  PROVE  GoesTo(r, "getAccount") \/ Ends(r)
  BY Moves DEF findUserByID, TypeOK, Steps

\* The session follows if the account is stored.
LEMMA GetAccountMove ==
  ASSUME TypeOK, NEW r \in Requests, GetAccount(r)
  PROVE  GoesTo(r, "session") \/ Ends(r)
  BY Moves DEF GetAccount, TypeOK, Steps

\* The request ends.
LEMMA LookupFailsMove ==
  ASSUME TypeOK, NEW r \in Requests, LookupFails(r)
  PROVE  Ends(r)
  BY Moves DEF LookupFails, TypeOK, Steps

\* The sessions are trimmed next, unless the insert reported an error.
LEMMA CreateSessionMove ==
  ASSUME TypeOK, NEW r \in Requests, CreateSession(r)
  PROVE  \/ /\ faults' = faults /\ sessions' = [sessions EXCEPT ![nextSession] = NewSession(req[r].user)]
            /\ Carries(r, "list", req[r].user)
         \/ /\ faults < MaxFaults /\ faults' = faults + 1 /\ Ends(r)
            /\ sessions' \in {sessions, [sessions EXCEPT ![nextSession] = NewSession(req[r].user)]}
<1> USE DEF TypeOK
<1>1. req[r].user \in 0..MaxUsers
  BY DEF Request
<1>2. Become(r, [Idle EXCEPT !.pc = "list", !.user = req[r].user]) => Carries(r, "list", req[r].user)
  BY <1>1, UserMoves DEF Steps
<1>3. Done(r) => Ends(r)
  BY Moves DEF Steps
<1> QED
  BY <1>2, <1>3 DEF CreateSession, Ok, Err

\* Old sessions are revoked next, if there are any.
LEMMA ListOldSessionsMove ==
  ASSUME TypeOK, NEW r \in Requests, ListOldSessions(r)
  PROVE  \/ faults' = faults /\ OldSessions(req[r].user) = {} /\ Ends(r)
         \/ /\ faults' = faults
            /\ Becomes(r, "revoke", req[r].user, req[r].email, req[r].external, req[r].verified,
                       OldSessions(req[r].user))
         \/ faults < MaxFaults /\ faults' = faults + 1 /\ Ends(r)
<1> USE DEF TypeOK
<1> DEFINE old == OldSessions(req[r].user)
<1>1. old \in SUBSET SessionIds
  BY DEF OldSessions, SessionsOf
<1>2. Become(r, [req[r] EXCEPT !.pc = "revoke", !.old = old]) =>
        Becomes(r, "revoke", req[r].user, req[r].email, req[r].external, req[r].verified, old)
  <2> HIDE DEF old
  <2> QED
    BY <1>1, SessionMoves DEF Steps
<1>3. Done(r) => Ends(r)
  BY Moves DEF Steps
<1>4. faults' = faults \/ (faults < MaxFaults /\ faults' = faults + 1 /\ Done(r))
  BY DEF ListOldSessions, Ok, Err
<1>5. \/ old = {} /\ Done(r)
      \/ Become(r, [req[r] EXCEPT !.pc = "revoke", !.old = old])
      \/ faults < MaxFaults /\ faults' = faults + 1 /\ Done(r)
  BY DEF ListOldSessions, Err
<1> HIDE DEF old
<1>6. \/ faults' = faults /\ old = {} /\ Ends(r)
      \/ /\ faults' = faults
         /\ Becomes(r, "revoke", req[r].user, req[r].email, req[r].external, req[r].verified, old)
      \/ faults < MaxFaults /\ faults' = faults + 1 /\ Ends(r)
  BY <1>2, <1>3, <1>4, <1>5
<1> QED
  BY <1>6 DEF old

\* The request ends.
LEMMA RevokeOldSessionsMove ==
  ASSUME TypeOK, NEW r \in Requests, RevokeOldSessions(r)
  PROVE  Ends(r)
  BY Moves DEF RevokeOldSessions, TypeOK, Steps

\* The session is rotated next.
LEMMA RefreshMove ==
  ASSUME TypeOK, NEW r \in Requests, NEW t \in Tokens, Refresh(r, t)
  PROVE  Carries(r, "rotate", 0)
  BY SessionMoves DEF Refresh, TypeOK, Steps

\* The request ends.
LEMMA RotateSessionTokensMove ==
  ASSUME TypeOK, NEW r \in Requests, RotateSessionTokens(r)
  PROVE  Ends(r)
  BY Moves DEF RotateSessionTokens, TypeOK, Steps

\* The session of the token is revoked next.
LEMMA LogoutMove ==
  ASSUME TypeOK, NEW r \in Requests, NEW a \in Tokens, NEW t \in Tokens, Logout(r, a, t)
  PROVE  Carries(r, "logout", 0)
  BY SessionMoves DEF Logout, TypeOK, Steps

\* The request ends.
LEMMA RevokeSessionByRefreshTokenHashMove ==
  ASSUME TypeOK, NEW r \in Requests, RevokeSessionByRefreshTokenHash(r)
  PROVE  Ends(r)
  BY Moves DEF RevokeSessionByRefreshTokenHash, TypeOK, Steps

\* Each call succeeds or counts as a fault.
LEMMA OkOrErr ==
  ASSUME [Next]_vars
  PROVE  Ok \/ Err
<1> USE DEF Ok
<1> DEFINE Effect ==
      Ok \/ Err
           Keeps == Ok \/ Err
<1>1. ASSUME NEW r \in Requests, NEW e \in Emails, Signup(r, e)
     PROVE  Keeps
  BY <1>1 DEF Signup, peopleVars, idVars, lostVars
<1>2. ASSUME NEW r \in Requests,
       \/ InsertAccount(r) \/ InsertUser(r) \/ linkOAuthIdentity(r) \/ UndoUser(r)
     PROVE  Keeps
  BY <1>2 DEF peopleVars, InsertAccount, lostVars, InsertUser, linkOAuthIdentity,
     idVars, UndoUser
<1>3. ASSUME NEW r \in Requests,
       \/ UndoAccount(r) \/ OAuthByEmail(r) \/ OAuthCreate(r) \/ findUserByID(r)
     PROVE  Keeps
  BY <1>3 DEF UndoAccount, idVars, lostVars, OAuthByEmail, peopleVars, OAuthCreate,
     findUserByID
<1>4. ASSUME NEW r \in Requests,
       \/ GetAccount(r) \/ LookupFails(r) \/ CreateSession(r)
       \/ ListOldSessions(r)
     PROVE  Keeps
  BY <1>4 DEF GetAccount, peopleVars, idVars, lostVars, LookupFails, CreateSession,
     ListOldSessions
<1>5. ASSUME NEW r \in Requests,
       \/ RevokeOldSessions(r) \/ RotateSessionTokens(r)
       \/ RevokeSessionByRefreshTokenHash(r)
     PROVE  Keeps
  BY <1>5 DEF RevokeOldSessions, peopleVars, idVars, lostVars, RotateSessionTokens,
     RevokeSessionByRefreshTokenHash
<1>6. ASSUME NEW r \in Requests, NEW u \in users, Login(r, u)
     PROVE  Keeps
  BY <1>6 DEF Login, peopleVars, idVars, lostVars
<1>7. ASSUME NEW r \in Requests, NEW x \in Externals, NEW e \in Emails \union {NoEmail}, NEW v \in BOOLEAN,
             OAuthCallback(r, x, e, v)
     PROVE  Keeps
  BY <1>7 DEF OAuthCallback, peopleVars, idVars, lostVars
<1>8. ASSUME NEW r \in Requests, NEW t \in Tokens, Refresh(r, t)
     PROVE  Keeps
  BY <1>8 DEF Refresh, peopleVars, idVars, lostVars
<1>9. ASSUME NEW r \in Requests, NEW a \in Tokens, NEW t \in Tokens, Logout(r, a, t)
     PROVE  Keeps
  BY <1>9 DEF Logout, peopleVars, idVars, lostVars
<1>10. ASSUME NEW s \in SessionIds,
       \/ Expire(s) \/ RemoveExpired(s)
     PROVE  Keeps
  BY <1>10 DEF Expire, peopleVars, idVars, lostVars, RemoveExpired
<1>11. ASSUME Crash
     PROVE  Keeps
  BY <1>11 DEF Crash, peopleVars, idVars, lostVars
<1>12. ASSUME UNCHANGED vars PROVE Keeps
  BY <1>12 DEF vars
<1>13. ASSUME Keeps PROVE Effect
  BY <1>13
<1> HIDE DEF Effect, Keeps
<1>q. Effect
  BY <1>1, <1>2, <1>3, <1>4, <1>5, <1>6, <1>7, <1>8, <1>9, <1>10, <1>11, <1>12,
     <1>13 DEF Next
<1> QED
  BY <1>q DEF Effect

\* A step leaves the local variables of requests in their types.
LEMMA RequestTypes ==
  ASSUME TypeOK, [Next]_vars
  PROVE  req' \in [Requests -> Request]
<1> DEFINE Effect ==
      req' \in [Requests -> Request]
           Keeps == req' = req
<1>1. ASSUME NEW r \in Requests, NEW e \in Emails, Signup(r, e) PROVE Effect
  BY <1>1, SignupMove DEF Becomes, GoesTo, Carries, Ends
<1>2. ASSUME NEW r \in Requests, InsertAccount(r) PROVE Effect
  BY <1>2, InsertAccountMove DEF Becomes, GoesTo, Carries, Ends
<1>3. ASSUME NEW r \in Requests, InsertUser(r) PROVE Effect
  BY <1>3, InsertUserMove DEF Becomes, GoesTo, Carries, Ends
<1>4. ASSUME NEW r \in Requests, linkOAuthIdentity(r) PROVE Effect
  BY <1>4, linkOAuthIdentityMove DEF Becomes, GoesTo, Carries, Ends
<1>5. ASSUME NEW r \in Requests, UndoUser(r) PROVE Effect
  BY <1>5, UndoUserMove DEF Becomes, GoesTo, Carries, Ends
<1>6. ASSUME NEW r \in Requests, UndoAccount(r) PROVE Effect
  BY <1>6, UndoAccountMove DEF Becomes, GoesTo, Carries, Ends
<1>7. ASSUME NEW r \in Requests, NEW u \in users, Login(r, u) PROVE Effect
  BY <1>7, LoginMove DEF Becomes, GoesTo, Carries, Ends
<1>8. ASSUME NEW r \in Requests, NEW x \in Externals, NEW e \in Emails \union {NoEmail}, NEW v \in BOOLEAN,
             OAuthCallback(r, x, e, v)
      PROVE  Effect
  <2>1. \/ \E l \in identities : Carries(r, "userById", l.user)
        \/ Becomes(r, "account", 0, e, x, v, {})
        \/ Becomes(r, "byEmail", 0, e, x, v, {})
    BY <1>8, OAuthCallbackMove
  <2> QED
    BY <2>1 DEF Becomes, Carries
<1>9. ASSUME NEW r \in Requests, OAuthByEmail(r) PROVE Effect
  BY <1>9, OAuthByEmailMove, Zenon DEF Becomes, GoesTo, Carries, Ends
<1>10. ASSUME NEW r \in Requests, OAuthCreate(r) PROVE Effect
  BY <1>10, OAuthCreateMove DEF Becomes, GoesTo, Carries, Ends
<1>11. ASSUME NEW r \in Requests, findUserByID(r) PROVE Effect
  BY <1>11, findUserByIDMove DEF Becomes, GoesTo, Carries, Ends
<1>12. ASSUME NEW r \in Requests, GetAccount(r) PROVE Effect
  BY <1>12, GetAccountMove DEF Becomes, GoesTo, Carries, Ends
<1>13. ASSUME NEW r \in Requests, LookupFails(r) PROVE Effect
  BY <1>13, LookupFailsMove DEF Becomes, GoesTo, Carries, Ends
<1>14. ASSUME NEW r \in Requests, CreateSession(r) PROVE Effect
  BY <1>14, CreateSessionMove DEF Becomes, GoesTo, Carries, Ends
<1>15. ASSUME NEW r \in Requests, ListOldSessions(r) PROVE Effect
  BY <1>15, ListOldSessionsMove DEF Becomes, GoesTo, Carries, Ends
<1>16. ASSUME NEW r \in Requests, RevokeOldSessions(r) PROVE Effect
  BY <1>16, RevokeOldSessionsMove DEF Becomes, GoesTo, Carries, Ends
<1>17. ASSUME NEW r \in Requests, NEW t \in Tokens, Refresh(r, t) PROVE Effect
  BY <1>17, RefreshMove DEF Becomes, GoesTo, Carries, Ends
<1>18. ASSUME NEW r \in Requests, RotateSessionTokens(r) PROVE Effect
  BY <1>18, RotateSessionTokensMove DEF Becomes, GoesTo, Carries, Ends
<1>19. ASSUME NEW r \in Requests, NEW a \in Tokens, NEW t \in Tokens, Logout(r, a, t)
      PROVE  Effect
  BY <1>19, LogoutMove DEF Becomes, GoesTo, Carries, Ends
<1>20. ASSUME NEW r \in Requests, RevokeSessionByRefreshTokenHash(r) PROVE Effect
  BY <1>20, RevokeSessionByRefreshTokenHashMove DEF Becomes, GoesTo, Carries, Ends
<1>21. ASSUME Crash PROVE Effect
  BY <1>21, IdleRecord DEF Crash
<1>22. ASSUME NEW s \in SessionIds,
       \/ Expire(s) \/ RemoveExpired(s)
     PROVE  Keeps
  BY <1>22 DEF Expire, peopleVars, idVars, lostVars, RemoveExpired
<1>23. ASSUME UNCHANGED vars PROVE Keeps
  BY <1>23 DEF vars
<1>24. ASSUME Keeps PROVE Effect
  BY <1>24 DEF TypeOK
<1> HIDE DEF Effect, Keeps
<1>q. Effect
  BY <1>1, <1>2, <1>3, <1>4, <1>5, <1>6, <1>7, <1>8, <1>9, <1>10, <1>11, <1>12,
     <1>13, <1>14, <1>15, <1>16, <1>17, <1>18, <1>19, <1>20, <1>21, <1>22, <1>23,
     <1>24 DEF Next
<1> QED
  BY <1>q DEF Effect

\* A step leaves the stored users, accounts and identities in their types.
LEMMA PeopleTypes ==
  ASSUME TypeOK, RequestInv, [Next]_vars
  PROVE  /\ users' \subseteq User /\ accounts' \subseteq Ids /\ identities' \subseteq Link
         /\ lostUser' \subseteq Ids /\ lostLink' \subseteq Ids
<1> USE IdentityAssumption DEF TypeOK
<1> DEFINE Effect ==
      /\ users' \subseteq User /\ accounts' \subseteq Ids /\ identities' \subseteq Link
      /\ lostUser' \subseteq Ids /\ lostLink' \subseteq Ids
           Keeps == UNCHANGED <<users, accounts, identities, lostUser, lostLink>>
<1>1. ASSUME NEW r \in Requests, InsertAccount(r) PROVE Effect
  BY <1>1 DEF InsertAccount, lostVars, Ids
<1>2. ASSUME NEW r \in Requests, InsertUser(r) PROVE Effect
  <2>1. req[r] \in Request /\ req[r].user \in Ids
    BY <1>2 DEF InsertUser, RequestInv, Provisioning
  <2>2. NewUser(req[r]) \in User
    BY <2>1 DEF NewUser, User, Request
  <2>3. users' \subseteq User /\ lostUser' \subseteq Ids
    BY <1>2, <2>1, <2>2, InsertUserMove
  <2> QED
    BY <1>2, <2>3 DEF InsertUser
<1>3. ASSUME NEW r \in Requests, linkOAuthIdentity(r) PROVE Effect
  <2>1. req[r] \in Request /\ req[r].user \in Ids /\ req[r].external \in Externals
    BY <1>3 DEF linkOAuthIdentity, RequestInv, Provisioning
  <2>2. NewLink(req[r]) \in Link
    BY <2>1 DEF NewLink, Link, Request
  <2>3. identities' \subseteq Link /\ lostLink' \subseteq Ids
    BY <1>3, <2>1, <2>2, linkOAuthIdentityMove
  <2> QED
    BY <1>3, <2>3 DEF linkOAuthIdentity
<1>4. ASSUME NEW r \in Requests, UndoUser(r) PROVE Effect
  <2>1. req[r].user \in Ids
    BY <1>4 DEF UndoUser, RequestInv, Provisioning
  <2>2. users' \subseteq users /\ lostUser' \subseteq lostUser \union {req[r].user}
    BY <1>4 DEF UndoUser
  <2> QED
    BY <1>4, <2>1, <2>2 DEF UndoUser
<1>5. ASSUME NEW r \in Requests, UndoAccount(r) PROVE Effect
  BY <1>5 DEF UndoAccount, lostVars
<1>6. ASSUME NEW r \in Requests, NEW e \in Emails, Signup(r, e)
     PROVE  Keeps
  BY <1>6 DEF Signup, peopleVars, idVars, lostVars
<1>7. ASSUME NEW r \in Requests, NEW u \in users, Login(r, u)
     PROVE  Keeps
  BY <1>7 DEF Login, peopleVars, idVars, lostVars
<1>8. ASSUME NEW r \in Requests, NEW x \in Externals, NEW e \in Emails \union {NoEmail}, NEW v \in BOOLEAN,
             OAuthCallback(r, x, e, v)
     PROVE  Keeps
  BY <1>8 DEF OAuthCallback, peopleVars, idVars, lostVars
<1>9. ASSUME NEW r \in Requests,
       \/ OAuthByEmail(r) \/ OAuthCreate(r) \/ findUserByID(r) \/ GetAccount(r)
       \/ LookupFails(r) \/ CreateSession(r) \/ ListOldSessions(r)
       \/ RevokeOldSessions(r)
     PROVE  Keeps
  BY <1>9 DEF OAuthByEmail, peopleVars, idVars, lostVars, OAuthCreate, findUserByID,
     GetAccount, LookupFails, CreateSession, ListOldSessions, RevokeOldSessions
<1>10. ASSUME NEW r \in Requests,
       \/ RotateSessionTokens(r) \/ RevokeSessionByRefreshTokenHash(r)
     PROVE  Keeps
  BY <1>10 DEF RotateSessionTokens, peopleVars, lostVars,
     RevokeSessionByRefreshTokenHash, idVars
<1>11. ASSUME NEW r \in Requests, NEW t \in Tokens, Refresh(r, t)
     PROVE  Keeps
  BY <1>11 DEF Refresh, peopleVars, idVars, lostVars
<1>12. ASSUME NEW r \in Requests, NEW a \in Tokens, NEW t \in Tokens, Logout(r, a, t)
     PROVE  Keeps
  BY <1>12 DEF Logout, peopleVars, idVars, lostVars
<1>13. ASSUME NEW s \in SessionIds,
       \/ Expire(s) \/ RemoveExpired(s)
     PROVE  Keeps
  BY <1>13 DEF Expire, peopleVars, idVars, lostVars, RemoveExpired
<1>14. ASSUME Crash
     PROVE  Keeps
  BY <1>14 DEF Crash, peopleVars, idVars, lostVars
<1>15. ASSUME UNCHANGED vars PROVE Keeps
  BY <1>15 DEF vars
<1>16. ASSUME Keeps PROVE Effect
  BY <1>16
<1> HIDE DEF Effect, Keeps
<1>q. Effect
  BY <1>1, <1>2, <1>3, <1>4, <1>5, <1>6, <1>7, <1>8, <1>9, <1>10, <1>11, <1>12,
     <1>13, <1>14, <1>15, <1>16 DEF Next
<1> QED
  BY <1>q DEF Effect

\* The records that the operations on sessions write.
LEMMA SessionRecords ==
  ASSUME TypeOK
  PROVE  /\ \A u \in 0..MaxUsers : nextToken <= MaxTokens => NewSession(u) \in Session
         /\ \A s \in SessionIds, status \in {"revoked", "gone"} : Ended(s, status) \in Session
         /\ \A S : Revoke(S) \in [SessionIds -> Session]
         /\ \A s \in SessionIds : nextToken <= MaxTokens => Rotated(s) \in [SessionIds -> Session]
<1> USE IdentityAssumption DEF TypeOK
<1>1. \A u \in 0..MaxUsers : nextToken <= MaxTokens => NewSession(u) \in Session
  BY DEF NewSession, Session
<1>2. \A s \in SessionIds, status \in {"revoked", "gone"} : Ended(s, status) \in Session
  BY DEF Ended, Session
<1>3. \A S : Revoke(S) \in [SessionIds -> Session]
  <2> HIDE DEF Session
  <2> QED
    BY <1>2 DEF Revoke
<1>4. ASSUME NEW s \in SessionIds, nextToken <= MaxTokens PROVE Rotated(s) \in [SessionIds -> Session]
  <2>1. [sessions[s] EXCEPT !.access = nextToken, !.refresh = nextToken, !.age = "fresh"] \in Session
    <3>1. sessions[s] \in Session /\ nextToken \in 0..MaxTokens
      BY <1>4
    <3> QED
      BY <3>1 DEF Session
  <2>2. Rotated(s) = IF live(s)
          THEN [sessions EXCEPT ![s] = [sessions[s] EXCEPT !.access = nextToken,
                                                           !.refresh = nextToken, !.age = "fresh"]]
          ELSE sessions
    BY DEF Rotated
  <2> HIDE DEF Session
  <2> QED
    BY <2>1, <2>2
<1> QED
  BY <1>1, <1>2, <1>3, <1>4

\* A step leaves the sessions and the counters in their types.
LEMMA SessionTypes ==
  ASSUME TypeOK, RequestInv, [Next]_vars
  PROVE  /\ sessions' \in [SessionIds -> Session] /\ nextId' \in 1..(MaxUsers + 1)
         /\ nextSession' \in 1..(MaxSessions + 1) /\ nextToken' \in 1..(MaxTokens + 1)
<1> USE IdentityAssumption, SessionRecords DEF TypeOK
<1> DEFINE Effect ==
      /\ sessions' \in [SessionIds -> Session] /\ nextId' \in 1..(MaxUsers + 1)
      /\ nextSession' \in 1..(MaxSessions + 1) /\ nextToken' \in 1..(MaxTokens + 1)
           Keeps == UNCHANGED <<sessions, nextId, nextSession, nextToken>>
<1>1. ASSUME NEW r \in Requests, InsertAccount(r) PROVE Effect
  BY <1>1 DEF InsertAccount
<1>2. ASSUME NEW r \in Requests, CreateSession(r) PROVE Effect
  <2>1. req[r].user \in 0..MaxUsers /\ nextSession \in SessionIds /\ nextToken <= MaxTokens
    BY <1>2 DEF CreateSession, Request, SessionIds
  <2>2. sessions' \in {sessions, [sessions EXCEPT ![nextSession] = NewSession(req[r].user)]}
    BY <1>2 DEF CreateSession
  <2>3. sessions' \in [SessionIds -> Session]
    BY <2>1, <2>2
  <2> QED
    BY <1>2, <2>3 DEF CreateSession
<1>3. ASSUME NEW r \in Requests, RevokeOldSessions(r) PROVE Effect
  BY <1>3 DEF RevokeOldSessions, idVars
<1>4. ASSUME NEW r \in Requests, RotateSessionTokens(r) PROVE Effect
  <2>1. sessions' = sessions \/ sessions' = Rotated(req[r].session)
    BY <1>4 DEF RotateSessionTokens
  <2>2. req[r].session \in SessionIds
    BY <1>4 DEF RequestInv, RotateSessionTokens
  <2>3. sessions' \in [SessionIds -> Session]
    BY <1>4, <2>1, <2>2 DEF RotateSessionTokens
  <2> QED
    BY <1>4, <2>3 DEF RotateSessionTokens
<1>5. ASSUME NEW r \in Requests, RevokeSessionByRefreshTokenHash(r) PROVE Effect
  BY <1>5 DEF RevokeSessionByRefreshTokenHash, idVars
<1>6. ASSUME NEW s \in SessionIds, Expire(s) PROVE Effect
  <2>1. [sessions[s] EXCEPT !.age = IF @ = "fresh" THEN "stale" ELSE "expired"] \in Session
    BY DEF Session
  <2>2. sessions' = [sessions EXCEPT ![s] = [sessions[s] EXCEPT !.age = IF @ = "fresh" THEN "stale" ELSE "expired"]]
    BY <1>6 DEF Expire
  <2>3. sessions' \in [SessionIds -> Session]
    BY <2>1, <2>2
  <2> QED
    BY <1>6, <2>3 DEF Expire, idVars
<1>7. ASSUME NEW s \in SessionIds, RemoveExpired(s) PROVE Effect
  BY <1>7 DEF RemoveExpired, idVars
<1>8. ASSUME NEW r \in Requests, NEW e \in Emails, Signup(r, e)
     PROVE  Keeps
  BY <1>8 DEF Signup, peopleVars, idVars, lostVars
<1>9. ASSUME NEW r \in Requests,
       \/ InsertUser(r) \/ linkOAuthIdentity(r) \/ UndoUser(r) \/ UndoAccount(r)
       \/ OAuthByEmail(r) \/ OAuthCreate(r) \/ findUserByID(r) \/ GetAccount(r)
     PROVE  Keeps
  BY <1>9 DEF InsertUser, linkOAuthIdentity, idVars, UndoUser, UndoAccount,
     lostVars, OAuthByEmail, peopleVars, OAuthCreate, findUserByID, GetAccount
<1>10. ASSUME NEW r \in Requests,
       \/ LookupFails(r) \/ ListOldSessions(r)
     PROVE  Keeps
  BY <1>10 DEF LookupFails, peopleVars, idVars, lostVars, ListOldSessions
<1>11. ASSUME NEW r \in Requests, NEW u \in users, Login(r, u)
     PROVE  Keeps
  BY <1>11 DEF Login, peopleVars, idVars, lostVars
<1>12. ASSUME NEW r \in Requests, NEW x \in Externals, NEW e \in Emails \union {NoEmail}, NEW v \in BOOLEAN,
             OAuthCallback(r, x, e, v)
     PROVE  Keeps
  BY <1>12 DEF OAuthCallback, peopleVars, idVars, lostVars
<1>13. ASSUME NEW r \in Requests, NEW t \in Tokens, Refresh(r, t)
     PROVE  Keeps
  BY <1>13 DEF Refresh, peopleVars, idVars, lostVars
<1>14. ASSUME NEW r \in Requests, NEW a \in Tokens, NEW t \in Tokens, Logout(r, a, t)
     PROVE  Keeps
  BY <1>14 DEF Logout, peopleVars, idVars, lostVars
<1>15. ASSUME Crash
     PROVE  Keeps
  BY <1>15 DEF Crash, peopleVars, idVars, lostVars
<1>16. ASSUME UNCHANGED vars PROVE Keeps
  BY <1>16 DEF vars
<1>17. ASSUME Keeps PROVE Effect
  BY <1>17
<1> HIDE DEF Effect, Keeps
<1>q. Effect
  BY <1>1, <1>2, <1>3, <1>4, <1>5, <1>6, <1>7, <1>8, <1>9, <1>10, <1>11, <1>12,
     <1>13, <1>14, <1>15, <1>16, <1>17 DEF Next
<1> QED
  BY <1>q DEF Effect

\* The step preserves the types.
LEMMA TypeStep ==
  ASSUME TypeOK, RequestInv, [Next]_vars
  PROVE  TypeOK'
<1>1. faults' \in 0..MaxFaults
  BY OkOrErr, IdentityAssumption DEF TypeOK, Ok, Err
<1> QED
  BY <1>1, RequestTypes, PeopleTypes, SessionTypes DEF TypeOK

\* Revocation ends the sessions that are not gone and leaves the others.
LEMMA RevokeCloses ==
  ASSUME TypeOK, FreshInv, NEW S \in SUBSET SessionIds,
         \A s \in S : sessions[s].status # "none", sessions' = Revoke(S)
  PROVE  \A s \in SessionIds : sessions'[s] = sessions[s] \/ Closes(s)
<1> TAKE s \in SessionIds
<1>1. CASE s \in S /\ sessions[s].status # "gone"
  <2>1. sessions'[s] = Ended(s, "revoked")
    BY <1>1 DEF Revoke
  <2>2. sessions[s].status \in {"live", "revoked"}
    BY <1>1 DEF TypeOK, Session
  <2> QED
    BY <2>1, <2>2 DEF Ended, Closes, live
<1>2. CASE ~(s \in S /\ sessions[s].status # "gone")
  <2>1. sessions'[s] = sessions[s]
    BY <1>2 DEF Revoke
  <2> QED
    BY <2>1
<1> QED
  BY <1>1, <1>2

\* A step opens, ends, ages or rotates a session, or leaves it alone.
LEMMA SessionStep ==
  ASSUME TypeOK, RequestInv, FreshInv, [Next]_vars
  PROVE  \A s \in SessionIds : sessions'[s] = sessions[s] \/ Opens(s) \/ Closes(s) \/ Ages(s) \/ Rotates(s)
<1> USE IdentityAssumption
<1> DEFINE Effect ==
      \A s \in SessionIds : sessions'[s] = sessions[s] \/ Opens(s) \/ Closes(s) \/ Ages(s) \/ Rotates(s)
           Keeps == UNCHANGED sessions
<1>1. ASSUME NEW r \in Requests, CreateSession(r) PROVE Effect
  <2>1. nextSession \in SessionIds
    BY <1>1 DEF CreateSession, SessionIds, TypeOK
  <2>2. ASSUME sessions' = [sessions EXCEPT ![nextSession] = NewSession(req[r].user)]
        PROVE  Opens(nextSession)
    <3>1. sessions'[nextSession] = NewSession(req[r].user)
      BY <2>1, <2>2 DEF TypeOK
    <3>2. /\ sessions'[nextSession].status = "live" /\ sessions'[nextSession].user = req[r].user
          /\ sessions'[nextSession].access = nextToken /\ sessions'[nextSession].refresh = nextToken
      BY <3>1 DEF NewSession
    <3>3. req[r].pc = "session" /\ nextSession' = nextSession + 1
      BY <1>1 DEF CreateSession
    <3> QED
      BY <3>2, <3>3 DEF Opens, live
  <2>3. sessions' \in {sessions, [sessions EXCEPT ![nextSession] = NewSession(req[r].user)]}
    BY <1>1 DEF CreateSession
  <2> QED
    BY <2>2, <2>3 DEF TypeOK
<1>2. ASSUME NEW r \in Requests, RevokeOldSessions(r) PROVE Effect
  <2>1. PICK S \in SUBSET req[r].old : sessions' = Revoke(S)
    BY <1>2 DEF RevokeOldSessions
  <2>2. req[r].old \subseteq SessionIds
    BY DEF TypeOK, Request
  <2>3. \A s \in S : sessions[s].status # "none"
    BY DEF FreshInv
  <2> QED
    BY <2>1, <2>2, <2>3, RevokeCloses
<1>3. ASSUME NEW r \in Requests, RotateSessionTokens(r) PROVE Effect
  <2> DEFINE k == req[r].session
  <2>1. k \in SessionIds
    BY <1>3 DEF RequestInv, RotateSessionTokens
  <2>2. sessions' = sessions \/ sessions' = Rotated(k)
    BY <1>3 DEF RotateSessionTokens
  <2>3. CASE sessions' # sessions
    <3>1. live(k) /\ sessions' = [sessions EXCEPT ![k] = [sessions[k] EXCEPT !.access = nextToken,
                                          !.refresh = nextToken, !.age = "fresh"]]
      BY <2>2, <2>3 DEF Rotated
    <3>2. sessions[k] \in Session
      BY <2>1 DEF TypeOK
    <3>3. sessions'[k] = [sessions[k] EXCEPT !.access = nextToken, !.refresh = nextToken, !.age = "fresh"]
      BY <2>1, <3>1 DEF TypeOK
    <3>4. /\ sessions'[k].status = sessions[k].status /\ sessions'[k].user = sessions[k].user
          /\ sessions'[k].access = nextToken /\ sessions'[k].refresh = nextToken
      BY <3>2, <3>3 DEF Session
    <3>5. Rotates(k)
      BY <3>1, <3>4 DEF Rotates, live
    <3> QED
      BY <3>1, <3>5 DEF TypeOK
  <2> QED
    BY <2>3
<1>4. ASSUME NEW r \in Requests, RevokeSessionByRefreshTokenHash(r) PROVE Effect
  <2> DEFINE held == {s \in SessionIds : live(s) /\ sessions[s].refresh = req[r].token}
  <2>1. sessions' = sessions \/ sessions' = Revoke(held)
    BY <1>4 DEF RevokeSessionByRefreshTokenHash
  <2>2. \A s \in held : sessions[s].status # "none"
    BY DEF live
  <2>3. held \in SUBSET SessionIds
    OBVIOUS
  <2> HIDE DEF held
  <2> QED
    BY <2>1, <2>2, <2>3, RevokeCloses
<1>5. ASSUME NEW s \in SessionIds, Expire(s) PROVE Effect
  <2> SUFFICES \A k \in SessionIds : sessions'[k] = sessions[k] \/ Ages(k)
    OBVIOUS
  <2>1. live(s) /\ sessions[s].age # "expired" /\ sessions' = [sessions EXCEPT
           ![s] = [sessions[s] EXCEPT !.age = IF sessions[s].age = "fresh" THEN "stale" ELSE "expired"]]
    BY <1>5 DEF Expire
  <2>2. Ages(s)
    BY <2>1 DEF Ages, live, TypeOK, Session
  <2> QED
    BY <2>1, <2>2 DEF TypeOK
<1>6. ASSUME NEW s \in SessionIds, RemoveExpired(s) PROVE Effect
  <2> SUFFICES \A k \in SessionIds : sessions'[k] = sessions[k] \/ Closes(k)
    OBVIOUS
  <2>1. live(s) /\ sessions' = [sessions EXCEPT ![s] = Ended(s, "gone")]
    BY <1>6 DEF RemoveExpired
  <2>2. Closes(s)
    BY <2>1 DEF Closes, Ended, live, TypeOK
  <2> QED
    BY <2>1, <2>2 DEF TypeOK
<1>7. ASSUME NEW r \in Requests, NEW e \in Emails, Signup(r, e)
     PROVE  Keeps
  BY <1>7 DEF Signup, peopleVars, idVars, lostVars
<1>8. ASSUME NEW r \in Requests,
       \/ InsertAccount(r) \/ InsertUser(r) \/ linkOAuthIdentity(r) \/ UndoUser(r)
       \/ UndoAccount(r) \/ OAuthByEmail(r) \/ OAuthCreate(r) \/ findUserByID(r)
     PROVE  Keeps
  BY <1>8 DEF InsertAccount, lostVars, InsertUser, linkOAuthIdentity, idVars,
     UndoUser, UndoAccount, OAuthByEmail, peopleVars, OAuthCreate, findUserByID
<1>9. ASSUME NEW r \in Requests,
       \/ GetAccount(r) \/ LookupFails(r) \/ ListOldSessions(r)
     PROVE  Keeps
  BY <1>9 DEF GetAccount, peopleVars, idVars, lostVars, LookupFails, ListOldSessions
<1>10. ASSUME NEW r \in Requests, NEW u \in users, Login(r, u)
     PROVE  Keeps
  BY <1>10 DEF Login, peopleVars, idVars, lostVars
<1>11. ASSUME NEW r \in Requests, NEW x \in Externals, NEW e \in Emails \union {NoEmail}, NEW v \in BOOLEAN,
             OAuthCallback(r, x, e, v)
     PROVE  Keeps
  BY <1>11 DEF OAuthCallback, peopleVars, idVars, lostVars
<1>12. ASSUME NEW r \in Requests, NEW t \in Tokens, Refresh(r, t)
     PROVE  Keeps
  BY <1>12 DEF Refresh, peopleVars, idVars, lostVars
<1>13. ASSUME NEW r \in Requests, NEW a \in Tokens, NEW t \in Tokens, Logout(r, a, t)
     PROVE  Keeps
  BY <1>13 DEF Logout, peopleVars, idVars, lostVars
<1>14. ASSUME Crash
     PROVE  Keeps
  BY <1>14 DEF Crash, peopleVars, idVars, lostVars
<1>15. ASSUME UNCHANGED vars PROVE Keeps
  BY <1>15 DEF vars
<1>16. ASSUME Keeps PROVE Effect
  BY <1>16
<1> HIDE DEF Effect, Keeps
<1>q. Effect
  BY <1>1, <1>2, <1>3, <1>4, <1>5, <1>6, <1>7, <1>8, <1>9, <1>10, <1>11, <1>12,
     <1>13, <1>14, <1>15, <1>16 DEF Next
<1> QED
  BY <1>q DEF Effect

\* The counters of generated ids only grow.
LEMMA CountersGrow ==
  ASSUME TypeOK, [Next]_vars
  PROVE  nextId <= nextId' /\ nextSession <= nextSession' /\ nextToken <= nextToken'
<1> USE IdentityAssumption DEF TypeOK
<1> DEFINE Effect ==
      nextId <= nextId' /\ nextSession <= nextSession' /\ nextToken <= nextToken'
           Keeps == UNCHANGED <<nextId, nextSession, nextToken>>
<1>1. ASSUME NEW r \in Requests, InsertAccount(r) PROVE Effect
  BY <1>1 DEF InsertAccount
<1>2. ASSUME NEW r \in Requests, CreateSession(r) PROVE Effect
  BY <1>2 DEF CreateSession
<1>3. ASSUME NEW r \in Requests, RotateSessionTokens(r) PROVE Effect
  BY <1>3 DEF RotateSessionTokens
<1>4. ASSUME NEW r \in Requests, NEW e \in Emails, Signup(r, e)
     PROVE  Keeps
  BY <1>4 DEF Signup, peopleVars, idVars, lostVars
<1>5. ASSUME NEW r \in Requests,
       \/ InsertUser(r) \/ linkOAuthIdentity(r) \/ UndoUser(r) \/ UndoAccount(r)
       \/ OAuthByEmail(r) \/ OAuthCreate(r) \/ findUserByID(r) \/ GetAccount(r)
     PROVE  Keeps
  BY <1>5 DEF InsertUser, linkOAuthIdentity, idVars, UndoUser, UndoAccount,
     lostVars, OAuthByEmail, peopleVars, OAuthCreate, findUserByID, GetAccount
<1>6. ASSUME NEW r \in Requests,
       \/ LookupFails(r) \/ ListOldSessions(r) \/ RevokeOldSessions(r)
       \/ RevokeSessionByRefreshTokenHash(r)
     PROVE  Keeps
  BY <1>6 DEF LookupFails, peopleVars, idVars, lostVars, ListOldSessions,
     RevokeOldSessions, RevokeSessionByRefreshTokenHash
<1>7. ASSUME NEW r \in Requests, NEW u \in users, Login(r, u)
     PROVE  Keeps
  BY <1>7 DEF Login, peopleVars, idVars, lostVars
<1>8. ASSUME NEW r \in Requests, NEW x \in Externals, NEW e \in Emails \union {NoEmail}, NEW v \in BOOLEAN,
             OAuthCallback(r, x, e, v)
     PROVE  Keeps
  BY <1>8 DEF OAuthCallback, peopleVars, idVars, lostVars
<1>9. ASSUME NEW r \in Requests, NEW t \in Tokens, Refresh(r, t)
     PROVE  Keeps
  BY <1>9 DEF Refresh, peopleVars, idVars, lostVars
<1>10. ASSUME NEW r \in Requests, NEW a \in Tokens, NEW t \in Tokens, Logout(r, a, t)
     PROVE  Keeps
  BY <1>10 DEF Logout, peopleVars, idVars, lostVars
<1>11. ASSUME NEW s \in SessionIds,
       \/ Expire(s) \/ RemoveExpired(s)
     PROVE  Keeps
  BY <1>11 DEF Expire, peopleVars, idVars, lostVars, RemoveExpired
<1>12. ASSUME Crash
     PROVE  Keeps
  BY <1>12 DEF Crash, peopleVars, idVars, lostVars
<1>13. ASSUME UNCHANGED vars PROVE Keeps
  BY <1>13 DEF vars
<1>14. ASSUME Keeps PROVE Effect
  BY <1>14
<1> HIDE DEF Effect, Keeps
<1>q. Effect
  BY <1>1, <1>2, <1>3, <1>4, <1>5, <1>6, <1>7, <1>8, <1>9, <1>10, <1>11, <1>12,
     <1>13, <1>14 DEF Next
<1> QED
  BY <1>q DEF Effect

\* Whatever happens to a session, its user was generated; its number is not
\* used again, and it stays stored or removed.
LEMMA FreshSessions ==
  ASSUME TypeOK, RequestInv, FreshInv, [Next]_vars
  PROVE  /\ \A s \in SessionIds : sessions'[s].user < nextId'
         /\ \A s \in SessionIds : s >= nextSession' => sessions'[s].status = "none"
         /\ \A s \in SessionIds : sessions[s].status # "none" => sessions'[s].status # "none"
<1> SUFFICES ASSUME NEW s \in SessionIds
             PROVE  /\ sessions'[s].user < nextId'
                    /\ s >= nextSession' => sessions'[s].status = "none"
                    /\ sessions[s].status # "none" => sessions'[s].status # "none"
  OBVIOUS
<1>1. /\ nextId \in Nat /\ nextSession \in Nat /\ nextId' \in Nat /\ nextSession' \in Nat
      /\ nextId <= nextId' /\ nextSession <= nextSession' /\ s \in Nat
  BY IdentityAssumption, TypeStep, CountersGrow DEF TypeOK, SessionIds
<1>2. /\ sessions[s].user < nextId /\ sessions[s].user \in Nat
      /\ s >= nextSession => sessions[s].status = "none"
      /\ \A r \in Requests : req[r].user < nextId /\ req[r].user \in Nat
  BY IdentityAssumption DEF FreshInv, TypeOK, Session, Request
<1>3. sessions'[s] = sessions[s] \/ Opens(s) \/ Closes(s) \/ Ages(s) \/ Rotates(s)
  BY SessionStep
<1>4. CASE sessions'[s] = sessions[s]
  BY <1>1, <1>2, <1>4
<1>5. CASE Opens(s)
  BY <1>1, <1>2, <1>5 DEF Opens
<1>6. CASE Closes(s) \/ Ages(s) \/ Rotates(s)
  BY <1>1, <1>2, <1>6 DEF Closes, Ages, Rotates, live
<1> QED
  BY <1>3, <1>4, <1>5, <1>6

\* Every step of a request is one of these.
LEMMA RequestStep ==
  ASSUME TypeOK, RequestInv, [Next]_vars
  PROVE  \A p \in Requests : req'[p] = req[p] \/ Aside(p) \/ Generates(p) \/ Inserts(p) \/ FailsToInsert(p) \/ Links(p)
              \/ FailsToLink(p) \/ Undoes(p) \/ Finds(p) \/ Trusts(p) \/ GoesOn(p)
<1> DEFINE Effect ==
      \A p \in Requests : req'[p] = req[p] \/ Aside(p) \/ Generates(p) \/ Inserts(p) \/ FailsToInsert(p) \/ Links(p)
           \/ FailsToLink(p) \/ Undoes(p) \/ Finds(p) \/ Trusts(p) \/ GoesOn(p)
           Keeps == req' = req
<1>1. ASSUME NEW r \in Requests, NEW e \in Emails, Signup(r, e) PROVE Effect
  BY <1>1, SignupMove DEF Aside, Becomes, GoesTo, Carries, Ends
<1>2. ASSUME NEW r \in Requests, InsertAccount(r) PROVE Effect
  <2>1. \/ /\ accounts' = accounts \union {nextId}
           /\ Becomes(r, "user", nextId, req[r].email, req[r].external, req[r].verified, req[r].old)
        \/ Ends(r)
    BY <1>2, InsertAccountMove
  <2>2. nextId \in Ids /\ nextId' = nextId + 1 /\ UNCHANGED <<users, identities, sessions>>
    BY <1>2 DEF InsertAccount, TypeOK, Ids
  <2> QED
    BY <2>1, <2>2 DEF Aside, Generates, Becomes, Carries, Ends
<1>3. ASSUME NEW r \in Requests, InsertUser(r) PROVE Effect
  <2>1. \/ /\ users' = users \union {NewUser(req[r])}
           /\ GoesTo(r, IF req[r].external = NoExternal THEN "session" ELSE "linkNew")
        \/ /\ users' = users \/ req[r].user \in lostUser'
           /\ Carries(r, "undoAccount", req[r].user)
    BY <1>3, InsertUserMove
  <2>2. req[r].pc = "user"
    BY <1>3 DEF InsertUser
  <2> QED
    BY <2>1, <2>2 DEF Inserts, FailsToInsert, SamePerson, Becomes, GoesTo, Carries
<1>4. ASSUME NEW r \in Requests, linkOAuthIdentity(r) PROVE Effect
  <2>1. \/ Becomes(r, IF req[r].pc = "linkNew" THEN "session" ELSE "getAccount", req[r].user,
                   req[r].email, req[r].external, FALSE, req[r].old)
        \/ /\ req[r].pc = "linkNew" /\ req[r].user \in lostLink'
           /\ Carries(r, "undoUser", req[r].user)
        \/ Ends(r)
    BY <1>4, linkOAuthIdentityMove
  <2>2. req[r].pc \in {"link", "linkNew"} /\ users' = users
    BY <1>4 DEF linkOAuthIdentity
  <2> QED
    BY <2>1, <2>2 DEF Aside, Links, FailsToLink, SamePerson, Becomes, Carries, Ends
<1>5. ASSUME NEW r \in Requests, UndoUser(r) PROVE Effect
  <2>1. Carries(r, "undoAccount", req[r].user)
    BY <1>5, UndoUserMove
  <2>2. /\ req[r].pc = "undoUser"
        /\ (\A u \in users' : u.id # req[r].user) \/ req[r].user \in lostUser'
    BY <1>5 DEF UndoUser
  <2> QED
    BY <2>1, <2>2 DEF Undoes, Becomes, Carries
<1>6. ASSUME NEW r \in Requests, UndoAccount(r) PROVE Effect
  BY <1>6, UndoAccountMove DEF Aside, Becomes, GoesTo, Carries, Ends
<1>7. ASSUME NEW r \in Requests, NEW u \in users, Login(r, u) PROVE Effect
  BY <1>7, LoginMove DEF Trusts, Becomes, GoesTo, Carries, Ends
<1>8. ASSUME NEW r \in Requests, NEW x \in Externals, NEW e \in Emails \union {NoEmail}, NEW v \in BOOLEAN,
             OAuthCallback(r, x, e, v)
      PROVE  Effect
  <2>1. \/ \E l \in identities : Carries(r, "userById", l.user)
        \/ Becomes(r, "account", 0, e, x, v, {})
        \/ Becomes(r, "byEmail", 0, e, x, v, {})
    BY <1>8, OAuthCallbackMove
  <2> QED
    BY <2>1 DEF Aside, Trusts, Becomes, Carries
<1>9. ASSUME NEW r \in Requests, OAuthByEmail(r) PROVE Effect
  <2>1. \/ /\ req[r].verified
           /\ \E u \in users : /\ u.email = req[r].email
                               /\ Becomes(r, "link", u.id, req[r].email, req[r].external,
                                          req[r].verified, req[r].old)
        \/ Ends(r)
        \/ GoesTo(r, "create")
    BY <1>9, OAuthByEmailMove
  <2>2. req[r].pc = "byEmail" /\ users' = users /\ req[r].external \in Externals
    BY <1>9 DEF OAuthByEmail, peopleVars, RequestInv
  <2> QED
    BY <2>1, <2>2 DEF Aside, Finds, Becomes, GoesTo, Carries, Ends
<1>10. ASSUME NEW r \in Requests, OAuthCreate(r) PROVE Effect
  <2>1. GoesTo(r, "account") \/ Ends(r)
    BY <1>10, OAuthCreateMove
  <2> QED
    BY <2>1 DEF Aside, Becomes, GoesTo, Carries, Ends
<1>11. ASSUME NEW r \in Requests, findUserByID(r) PROVE Effect
  <2>1. GoesTo(r, "getAccount") \/ Ends(r)
    BY <1>11, findUserByIDMove
  <2>2. req[r].pc = "userById" /\ users' = users
    BY <1>11 DEF findUserByID, peopleVars
  <2> QED
    BY <2>1, <2>2 DEF Aside, GoesOn, SamePerson, Becomes, GoesTo, Carries, Ends
<1>12. ASSUME NEW r \in Requests, GetAccount(r) PROVE Effect
  <2>1. GoesTo(r, "session") \/ Ends(r)
    BY <1>12, GetAccountMove
  <2>2. req[r].pc = "getAccount" /\ users' = users
    BY <1>12 DEF GetAccount, peopleVars
  <2> QED
    BY <2>1, <2>2 DEF Aside, GoesOn, SamePerson, Becomes, GoesTo, Carries, Ends
<1>13. ASSUME NEW r \in Requests, LookupFails(r) PROVE Effect
  BY <1>13, LookupFailsMove DEF Aside, Becomes, GoesTo, Carries, Ends
<1>14. ASSUME NEW r \in Requests, CreateSession(r) PROVE Effect
  <2>1. Ends(r) \/ Carries(r, "list", req[r].user)
    BY <1>14, CreateSessionMove
  <2> QED
    BY <2>1 DEF Aside, Becomes, Carries, Ends
<1>15. ASSUME NEW r \in Requests, ListOldSessions(r) PROVE Effect
  <2>1. \/ Ends(r)
        \/ Becomes(r, "revoke", req[r].user, req[r].email, req[r].external, req[r].verified,
                   OldSessions(req[r].user))
    BY <1>15, ListOldSessionsMove
  <2> QED
    BY <2>1 DEF Aside, Becomes, Carries, Ends
<1>16. ASSUME NEW r \in Requests, RevokeOldSessions(r) PROVE Effect
  BY <1>16, RevokeOldSessionsMove DEF Aside, Becomes, GoesTo, Carries, Ends
<1>17. ASSUME NEW r \in Requests, NEW t \in Tokens, Refresh(r, t) PROVE Effect
  <2>1. Carries(r, "rotate", 0)
    BY <1>17, RefreshMove
  <2>2. req'[r].session \in SessionIds
    <3>1. PICK s \in SessionIds : Become(r, [Idle EXCEPT !.pc = "rotate", !.session = s])
      BY <1>17 DEF Refresh
    <3> DEFINE q == [Idle EXCEPT !.pc = "rotate", !.session = s]
    <3>2. q.session = s
      BY DEF Idle
    <3>3. req' = [req EXCEPT ![r] = q]
      BY <3>1 DEF Become
    <3> HIDE DEF q
    <3> QED
      BY <3>2, <3>3 DEF TypeOK
  <2> QED
    BY <2>1, <2>2 DEF Aside, Becomes, Carries
<1>18. ASSUME NEW r \in Requests, RotateSessionTokens(r) PROVE Effect
  BY <1>18, RotateSessionTokensMove DEF Aside, Becomes, GoesTo, Carries, Ends
<1>19. ASSUME NEW r \in Requests, NEW a \in Tokens, NEW t \in Tokens, Logout(r, a, t)
      PROVE  Effect
  BY <1>19, LogoutMove DEF Aside, Becomes, GoesTo, Carries, Ends
<1>20. ASSUME NEW r \in Requests, RevokeSessionByRefreshTokenHash(r) PROVE Effect
  BY <1>20, RevokeSessionByRefreshTokenHashMove DEF Aside, Becomes, GoesTo, Carries, Ends
<1>21. ASSUME Crash PROVE Effect
  BY <1>21, IdleRecord DEF Crash, Aside
<1>22. ASSUME NEW s \in SessionIds,
       \/ Expire(s) \/ RemoveExpired(s)
     PROVE  Keeps
  BY <1>22 DEF Expire, peopleVars, idVars, lostVars, RemoveExpired
<1>23. ASSUME UNCHANGED vars PROVE Keeps
  BY <1>23 DEF vars
<1>24. ASSUME Keeps PROVE Effect
  BY <1>24
<1> HIDE DEF Effect, Keeps
<1>q. Effect
  BY <1>1, <1>2, <1>3, <1>4, <1>5, <1>6, <1>7, <1>8, <1>9, <1>10, <1>11, <1>12,
     <1>13, <1>14, <1>15, <1>16, <1>17, <1>18, <1>19, <1>20, <1>21, <1>22, <1>23,
     <1>24 DEF Next
<1> QED
  BY <1>q DEF Effect

\* A request takes its user and the sessions it lists from the store.
LEMMA RequestOrigin ==
  ASSUME TypeOK, [Next]_vars
  PROVE  \A p \in Requests : /\ req'[p].user \in {0, req[p].user} \/ KnownUser(req'[p].user)
                             /\ \A s \in req'[p].old : s \in req[p].old \/ live(s)
<1>0. /\ \A u \in users : KnownUser(u.id)
      /\ \A l \in identities : KnownUser(l.user)
  BY DEF KnownUser
<1> DEFINE Effect ==
      \A p \in Requests : /\ req'[p].user \in {0, req[p].user} \/ KnownUser(req'[p].user)
                          /\ \A s \in req'[p].old : s \in req[p].old \/ live(s)
           Keeps == req' = req
<1>1. ASSUME NEW r \in Requests, NEW e \in Emails, Signup(r, e) PROVE Effect
  BY <1>0, <1>1, SignupMove DEF Becomes, GoesTo, Carries, Ends
<1>2. ASSUME NEW r \in Requests, InsertAccount(r) PROVE Effect
  <2>1. \/ Becomes(r, "user", nextId, req[r].email, req[r].external, req[r].verified, req[r].old)
        \/ Ends(r)
    BY <1>2, InsertAccountMove
  <2>2. nextId' = nextId + 1
    BY <1>2 DEF InsertAccount
  <2>3. KnownUser(nextId)
    BY <2>2 DEF KnownUser
  <2> QED
    BY <1>0, <2>1, <2>3 DEF Becomes, Carries, Ends
<1>3. ASSUME NEW r \in Requests, InsertUser(r) PROVE Effect
  <2>1. \/ GoesTo(r, IF req[r].external = NoExternal THEN "session" ELSE "linkNew")
        \/ Carries(r, "undoAccount", req[r].user)
    BY <1>3, InsertUserMove
  <2> QED
    BY <1>0, <2>1 DEF Becomes, GoesTo, Carries
<1>4. ASSUME NEW r \in Requests, linkOAuthIdentity(r) PROVE Effect
  <2>1. \/ Becomes(r, IF req[r].pc = "linkNew" THEN "session" ELSE "getAccount", req[r].user,
                   req[r].email, req[r].external, FALSE, req[r].old)
        \/ Carries(r, "undoUser", req[r].user) \/ Ends(r)
    BY <1>4, linkOAuthIdentityMove
  <2> QED
    BY <1>0, <2>1 DEF Becomes, Carries, Ends
<1>5. ASSUME NEW r \in Requests, UndoUser(r) PROVE Effect
  BY <1>0, <1>5, UndoUserMove DEF Becomes, GoesTo, Carries, Ends
<1>6. ASSUME NEW r \in Requests, UndoAccount(r) PROVE Effect
  BY <1>0, <1>6, UndoAccountMove DEF Becomes, GoesTo, Carries, Ends
<1>7. ASSUME NEW r \in Requests, NEW u \in users, Login(r, u) PROVE Effect
  BY <1>0, <1>7, LoginMove DEF Becomes, GoesTo, Carries, Ends
<1>8. ASSUME NEW r \in Requests, NEW x \in Externals, NEW e \in Emails \union {NoEmail}, NEW v \in BOOLEAN,
             OAuthCallback(r, x, e, v)
      PROVE  Effect
  <2>1. \/ \E l \in identities : Carries(r, "userById", l.user)
        \/ Becomes(r, "account", 0, e, x, v, {})
        \/ Becomes(r, "byEmail", 0, e, x, v, {})
    BY <1>8, OAuthCallbackMove
  <2> QED
    BY <1>0, <2>1 DEF Becomes, Carries
<1>9. ASSUME NEW r \in Requests, OAuthByEmail(r) PROVE Effect
  <2>1. \/ \E u \in users : Becomes(r, "link", u.id, req[r].email, req[r].external,
                                 req[r].verified, req[r].old)
        \/ Ends(r) \/ GoesTo(r, "create")
    BY <1>9, OAuthByEmailMove
  <2> QED
    BY <1>0, <2>1 DEF Becomes, GoesTo, Carries, Ends
<1>10. ASSUME NEW r \in Requests, OAuthCreate(r) PROVE Effect
  <2>1. GoesTo(r, "account") \/ Ends(r)
    BY <1>10, OAuthCreateMove
  <2> QED
    BY <1>0, <2>1 DEF Becomes, GoesTo, Carries, Ends
<1>11. ASSUME NEW r \in Requests, findUserByID(r) PROVE Effect
  <2>1. GoesTo(r, "getAccount") \/ Ends(r)
    BY <1>11, findUserByIDMove
  <2> QED
    BY <1>0, <2>1 DEF Becomes, GoesTo, Carries, Ends
<1>12. ASSUME NEW r \in Requests, GetAccount(r) PROVE Effect
  <2>1. GoesTo(r, "session") \/ Ends(r)
    BY <1>12, GetAccountMove
  <2> QED
    BY <1>0, <2>1 DEF Becomes, GoesTo, Carries, Ends
<1>13. ASSUME NEW r \in Requests, LookupFails(r) PROVE Effect
  BY <1>0, <1>13, LookupFailsMove DEF Becomes, GoesTo, Carries, Ends
<1>14. ASSUME NEW r \in Requests, CreateSession(r) PROVE Effect
  <2>1. Ends(r) \/ Carries(r, "list", req[r].user)
    BY <1>14, CreateSessionMove
  <2> QED
    BY <1>0, <2>1 DEF Becomes, Carries, Ends
<1>15. ASSUME NEW r \in Requests, ListOldSessions(r) PROVE Effect
  <2>1. \/ Ends(r)
        \/ Becomes(r, "revoke", req[r].user, req[r].email, req[r].external, req[r].verified,
                   OldSessions(req[r].user))
    BY <1>15, ListOldSessionsMove
  <2>2. \A s \in OldSessions(req[r].user) : live(s)
    BY DEF OldSessions, SessionsOf
  <2> QED
    BY <1>0, <2>1, <2>2 DEF Becomes, Carries, Ends
<1>16. ASSUME NEW r \in Requests, RevokeOldSessions(r) PROVE Effect
  BY <1>0, <1>16, RevokeOldSessionsMove DEF Becomes, GoesTo, Carries, Ends
<1>17. ASSUME NEW r \in Requests, NEW t \in Tokens, Refresh(r, t) PROVE Effect
  BY <1>0, <1>17, RefreshMove DEF Becomes, GoesTo, Carries, Ends
<1>18. ASSUME NEW r \in Requests, RotateSessionTokens(r) PROVE Effect
  BY <1>0, <1>18, RotateSessionTokensMove DEF Becomes, GoesTo, Carries, Ends
<1>19. ASSUME NEW r \in Requests, NEW a \in Tokens, NEW t \in Tokens, Logout(r, a, t)
      PROVE  Effect
  BY <1>0, <1>19, LogoutMove DEF Becomes, GoesTo, Carries, Ends
<1>20. ASSUME NEW r \in Requests, RevokeSessionByRefreshTokenHash(r) PROVE Effect
  BY <1>0, <1>20, RevokeSessionByRefreshTokenHashMove DEF Becomes, GoesTo, Carries, Ends
<1>21. ASSUME Crash PROVE Effect
  BY <1>0, <1>21, IdleRecord DEF Crash
<1>22. ASSUME NEW s \in SessionIds,
       \/ Expire(s) \/ RemoveExpired(s)
     PROVE  Keeps
  BY <1>22 DEF Expire, peopleVars, idVars, lostVars, RemoveExpired
<1>23. ASSUME UNCHANGED vars PROVE Keeps
  BY <1>23 DEF vars
<1>24. ASSUME Keeps PROVE Effect
  BY <1>24
<1> HIDE DEF Effect, Keeps
<1>q. Effect
  BY <1>0, <1>1, <1>2, <1>3, <1>4, <1>5, <1>6, <1>7, <1>8, <1>9, <1>10, <1>11,
     <1>12, <1>13, <1>14, <1>15, <1>16, <1>17, <1>18, <1>19, <1>20, <1>21, <1>22,
     <1>23, <1>24 DEF Next
<1> QED
  BY <1>q DEF Effect

\* Only InsertUser adds a user, only UndoUser removes one.
LEMMA UsersStep ==
  ASSUME TypeOK, [Next]_vars
  PROVE  /\ lostUser \subseteq lostUser'
         /\ \A u \in users : u \in users' \/ \E r \in Requests : req[r].pc = "undoUser" /\ req[r].user = u.id
         /\ \A u \in users' : u \in users \/ \E r \in Requests : Adds(r, u)
         /\ \A u, v \in users' : u \in users \/ v \in users \/ u = v
<1> DEFINE Effect ==
      /\ lostUser \subseteq lostUser'
      /\ \A u \in users : u \in users' \/ \E r \in Requests : req[r].pc = "undoUser" /\ req[r].user = u.id
      /\ \A u \in users' : u \in users \/ \E r \in Requests : Adds(r, u)
      /\ \A u, v \in users' : u \in users \/ v \in users \/ u = v
           Keeps == UNCHANGED <<users, lostUser>>
<1>1. ASSUME NEW r \in Requests, InsertUser(r) PROVE Effect
  <2>1. \/ users' = users /\ lostUser' = lostUser
        \/ /\ users' = users \union {NewUser(req[r])} /\ AddressFree(req[r])
           /\ lostUser' \in {lostUser, lostUser \union {req[r].user}}
           /\ \/ GoesTo(r, IF req[r].external = NoExternal THEN "session" ELSE "linkNew")
              \/ Carries(r, "undoAccount", req[r].user)
    BY <1>1, InsertUserMove
  <2>2. req[r].pc = "user"
    BY <1>1 DEF InsertUser
  <2>3. \/ GoesTo(r, IF req[r].external = NoExternal THEN "session" ELSE "linkNew")
        \/ Carries(r, "undoAccount", req[r].user)
        => req'[r].pc # "user"
    BY DEF GoesTo, Carries, Becomes
  <2> QED
    BY <2>1, <2>2, <2>3 DEF Adds
<1>2. ASSUME NEW r \in Requests, UndoUser(r) PROVE Effect
  <2>1. /\ req[r].pc = "undoUser"
        /\ users' \in {users, {u \in users : u.id # req[r].user}}
        /\ lostUser' \in {lostUser, lostUser \union {req[r].user}}
    BY <1>2 DEF UndoUser
  <2> QED
    BY <2>1
<1>3. ASSUME NEW r \in Requests, NEW e \in Emails, Signup(r, e)
     PROVE  Keeps
  BY <1>3 DEF Signup, peopleVars, idVars, lostVars
<1>4. ASSUME NEW r \in Requests,
       \/ InsertAccount(r) \/ linkOAuthIdentity(r) \/ UndoAccount(r)
       \/ OAuthByEmail(r) \/ OAuthCreate(r) \/ findUserByID(r) \/ GetAccount(r)
       \/ LookupFails(r)
     PROVE  Keeps
  BY <1>4 DEF InsertAccount, lostVars, linkOAuthIdentity, idVars, UndoAccount,
     OAuthByEmail, peopleVars, OAuthCreate, findUserByID, GetAccount, LookupFails
<1>5. ASSUME NEW r \in Requests,
       \/ CreateSession(r) \/ ListOldSessions(r) \/ RevokeOldSessions(r)
       \/ RotateSessionTokens(r) \/ RevokeSessionByRefreshTokenHash(r)
     PROVE  Keeps
  BY <1>5 DEF CreateSession, peopleVars, lostVars, ListOldSessions, idVars,
     RevokeOldSessions, RotateSessionTokens, RevokeSessionByRefreshTokenHash
<1>6. ASSUME NEW r \in Requests, NEW u \in users, Login(r, u)
     PROVE  Keeps
  BY <1>6 DEF Login, peopleVars, idVars, lostVars
<1>7. ASSUME NEW r \in Requests, NEW x \in Externals, NEW e \in Emails \union {NoEmail}, NEW v \in BOOLEAN,
             OAuthCallback(r, x, e, v)
     PROVE  Keeps
  BY <1>7 DEF OAuthCallback, peopleVars, idVars, lostVars
<1>8. ASSUME NEW r \in Requests, NEW t \in Tokens, Refresh(r, t)
     PROVE  Keeps
  BY <1>8 DEF Refresh, peopleVars, idVars, lostVars
<1>9. ASSUME NEW r \in Requests, NEW a \in Tokens, NEW t \in Tokens, Logout(r, a, t)
     PROVE  Keeps
  BY <1>9 DEF Logout, peopleVars, idVars, lostVars
<1>10. ASSUME NEW s \in SessionIds,
       \/ Expire(s) \/ RemoveExpired(s)
     PROVE  Keeps
  BY <1>10 DEF Expire, peopleVars, idVars, lostVars, RemoveExpired
<1>11. ASSUME Crash
     PROVE  Keeps
  BY <1>11 DEF Crash, peopleVars, idVars, lostVars
<1>12. ASSUME UNCHANGED vars PROVE Keeps
  BY <1>12 DEF vars
<1>13. ASSUME Keeps PROVE Effect
  BY <1>13
<1> HIDE DEF Effect, Keeps
<1>q. Effect
  BY <1>1, <1>2, <1>3, <1>4, <1>5, <1>6, <1>7, <1>8, <1>9, <1>10, <1>11, <1>12,
     <1>13 DEF Next
<1> QED
  BY <1>q DEF Effect

\* Identities are stored by linkOAuthIdentity and never removed.
LEMMA LinksStep ==
  ASSUME TypeOK, [Next]_vars
  PROVE  /\ lostLink \subseteq lostLink' /\ identities \subseteq identities'
         /\ \A l \in identities' : l \in identities
                \/ \E r \in Requests : req[r].pc \in {"link", "linkNew"} /\ l = NewLink(req[r])
<1> DEFINE Effect ==
      /\ lostLink \subseteq lostLink' /\ identities \subseteq identities'
      /\ \A l \in identities' : l \in identities
             \/ \E r \in Requests : req[r].pc \in {"link", "linkNew"} /\ l = NewLink(req[r])
           Keeps == UNCHANGED <<identities, lostLink>>
<1>1. ASSUME NEW r \in Requests, linkOAuthIdentity(r) PROVE Effect
  <2>1. /\ identities' \in {identities, identities \union {NewLink(req[r])}}
        /\ lostLink' \in {lostLink, lostLink \union {req[r].user}}
    BY <1>1, linkOAuthIdentityMove
  <2>2. req[r].pc \in {"link", "linkNew"}
    BY <1>1 DEF linkOAuthIdentity
  <2> QED
    BY <2>1, <2>2
<1>2. ASSUME NEW r \in Requests, NEW e \in Emails, Signup(r, e)
     PROVE  Keeps
  BY <1>2 DEF Signup, peopleVars, idVars, lostVars
<1>3. ASSUME NEW r \in Requests,
       \/ InsertAccount(r) \/ InsertUser(r) \/ UndoUser(r) \/ UndoAccount(r)
       \/ OAuthByEmail(r) \/ OAuthCreate(r) \/ findUserByID(r) \/ GetAccount(r)
     PROVE  Keeps
  BY <1>3 DEF InsertAccount, lostVars, InsertUser, UndoUser, idVars, UndoAccount,
     OAuthByEmail, peopleVars, OAuthCreate, findUserByID, GetAccount
<1>4. ASSUME NEW r \in Requests,
       \/ LookupFails(r) \/ CreateSession(r) \/ ListOldSessions(r)
       \/ RevokeOldSessions(r) \/ RotateSessionTokens(r)
       \/ RevokeSessionByRefreshTokenHash(r)
     PROVE  Keeps
  BY <1>4 DEF LookupFails, peopleVars, idVars, lostVars, CreateSession,
     ListOldSessions, RevokeOldSessions, RotateSessionTokens,
     RevokeSessionByRefreshTokenHash
<1>5. ASSUME NEW r \in Requests, NEW u \in users, Login(r, u)
     PROVE  Keeps
  BY <1>5 DEF Login, peopleVars, idVars, lostVars
<1>6. ASSUME NEW r \in Requests, NEW x \in Externals, NEW e \in Emails \union {NoEmail}, NEW v \in BOOLEAN,
             OAuthCallback(r, x, e, v)
     PROVE  Keeps
  BY <1>6 DEF OAuthCallback, peopleVars, idVars, lostVars
<1>7. ASSUME NEW r \in Requests, NEW t \in Tokens, Refresh(r, t)
     PROVE  Keeps
  BY <1>7 DEF Refresh, peopleVars, idVars, lostVars
<1>8. ASSUME NEW r \in Requests, NEW a \in Tokens, NEW t \in Tokens, Logout(r, a, t)
     PROVE  Keeps
  BY <1>8 DEF Logout, peopleVars, idVars, lostVars
<1>9. ASSUME NEW s \in SessionIds,
       \/ Expire(s) \/ RemoveExpired(s)
     PROVE  Keeps
  BY <1>9 DEF Expire, peopleVars, idVars, lostVars, RemoveExpired
<1>10. ASSUME Crash
     PROVE  Keeps
  BY <1>10 DEF Crash, peopleVars, idVars, lostVars
<1>11. ASSUME UNCHANGED vars PROVE Keeps
  BY <1>11 DEF vars
<1>12. ASSUME Keeps PROVE Effect
  BY <1>12
<1> HIDE DEF Effect, Keeps
<1>q. Effect
  BY <1>1, <1>2, <1>3, <1>4, <1>5, <1>6, <1>7, <1>8, <1>9, <1>10, <1>11, <1>12 DEF
     Next
<1> QED
  BY <1>q DEF Effect

\* Only InsertAccount adds an account, only UndoAccount removes one.
LEMMA AccountsStep ==
  ASSUME [Next]_vars
  PROVE  /\ \A n \in accounts : n \in accounts' \/ \E r \in Requests : req[r].pc = "undoAccount" /\ req[r].user = n
         /\ \A n \in accounts' : n \in accounts \/ n = nextId
<1> DEFINE Effect ==
      /\ \A n \in accounts : n \in accounts' \/ \E r \in Requests : req[r].pc = "undoAccount" /\ req[r].user = n
      /\ \A n \in accounts' : n \in accounts \/ n = nextId
           Keeps == UNCHANGED accounts
<1>1. ASSUME NEW r \in Requests, InsertAccount(r) PROVE Effect
  BY <1>1 DEF InsertAccount
<1>2. ASSUME NEW r \in Requests, UndoAccount(r) PROVE Effect
  BY <1>2 DEF UndoAccount
<1>3. ASSUME NEW r \in Requests, NEW e \in Emails, Signup(r, e)
     PROVE  Keeps
  BY <1>3 DEF Signup, peopleVars, idVars, lostVars
<1>4. ASSUME NEW r \in Requests,
       \/ InsertUser(r) \/ linkOAuthIdentity(r) \/ UndoUser(r) \/ OAuthByEmail(r)
       \/ OAuthCreate(r) \/ findUserByID(r) \/ GetAccount(r) \/ LookupFails(r)
     PROVE  Keeps
  BY <1>4 DEF InsertUser, linkOAuthIdentity, idVars, UndoUser, OAuthByEmail,
     peopleVars, lostVars, OAuthCreate, findUserByID, GetAccount, LookupFails
<1>5. ASSUME NEW r \in Requests,
       \/ CreateSession(r) \/ ListOldSessions(r) \/ RevokeOldSessions(r)
       \/ RotateSessionTokens(r) \/ RevokeSessionByRefreshTokenHash(r)
     PROVE  Keeps
  BY <1>5 DEF CreateSession, peopleVars, lostVars, ListOldSessions, idVars,
     RevokeOldSessions, RotateSessionTokens, RevokeSessionByRefreshTokenHash
<1>6. ASSUME NEW r \in Requests, NEW u \in users, Login(r, u)
     PROVE  Keeps
  BY <1>6 DEF Login, peopleVars, idVars, lostVars
<1>7. ASSUME NEW r \in Requests, NEW x \in Externals, NEW e \in Emails \union {NoEmail}, NEW v \in BOOLEAN,
             OAuthCallback(r, x, e, v)
     PROVE  Keeps
  BY <1>7 DEF OAuthCallback, peopleVars, idVars, lostVars
<1>8. ASSUME NEW r \in Requests, NEW t \in Tokens, Refresh(r, t)
     PROVE  Keeps
  BY <1>8 DEF Refresh, peopleVars, idVars, lostVars
<1>9. ASSUME NEW r \in Requests, NEW a \in Tokens, NEW t \in Tokens, Logout(r, a, t)
     PROVE  Keeps
  BY <1>9 DEF Logout, peopleVars, idVars, lostVars
<1>10. ASSUME NEW s \in SessionIds,
       \/ Expire(s) \/ RemoveExpired(s)
     PROVE  Keeps
  BY <1>10 DEF Expire, peopleVars, idVars, lostVars, RemoveExpired
<1>11. ASSUME Crash
     PROVE  Keeps
  BY <1>11 DEF Crash, peopleVars, idVars, lostVars
<1>12. ASSUME UNCHANGED vars PROVE Keeps
  BY <1>12 DEF vars
<1>13. ASSUME Keeps PROVE Effect
  BY <1>13
<1> HIDE DEF Effect, Keeps
<1>q. Effect
  BY <1>1, <1>2, <1>3, <1>4, <1>5, <1>6, <1>7, <1>8, <1>9, <1>10, <1>11, <1>12,
     <1>13 DEF Next
<1> QED
  BY <1>q DEF Effect

\* The identifiers compared below are numbers.
LEMMA Numbers ==
  ASSUME TypeOK
  PROVE  /\ nextId \in Nat /\ 0 < nextId
         /\ \A u \in users : u.id \in Ids /\ u.id \in Nat
         /\ \A l \in identities : l.user \in Ids /\ l.user \in Nat
         /\ \A r \in Requests : req[r].user \in Nat
         /\ \A s \in SessionIds : sessions[s].user \in Nat
         /\ 0 \notin Ids
  BY IdentityAssumption DEF TypeOK, User, Link, Request, Session, Ids

\* Generated ids stay new.
LEMMA FreshStep ==
  ASSUME TypeOK, RequestInv, FreshInv, [Next]_vars
  PROVE  FreshInv'
<1>1. /\ nextId \in Nat /\ 0 < nextId /\ nextId' \in Nat /\ nextId <= nextId'
      /\ \A u \in users : u.id < nextId /\ u.id \in Nat
      /\ \A l \in identities : l.user < nextId /\ l.user \in Nat
      /\ \A r \in Requests : req[r].user < nextId /\ req[r].user \in Nat
  <2>1. nextId' \in Nat
    BY TypeStep, IdentityAssumption DEF TypeOK
  <2> QED
    BY <2>1, Numbers, CountersGrow DEF FreshInv
<1>2. ASSUME NEW u \in users' PROVE u.id < nextId'
  <2>1. CASE u \in users
    BY <1>1, <2>1
  <2>2. CASE \E r \in Requests : Adds(r, u)
    <3>1. PICK r \in Requests : Adds(r, u)
      BY <2>2
    <3>2. u.id = req[r].user
      BY <3>1 DEF Adds, NewUser
    <3> QED
      BY <1>1, <3>2
  <2> QED
    BY <2>1, <2>2, UsersStep
<1>3. ASSUME NEW l \in identities' PROVE l.user < nextId'
  <2>1. CASE l \in identities
    BY <1>1, <2>1
  <2>2. CASE \E r \in Requests : l = NewLink(req[r])
    <3>1. PICK r \in Requests : l = NewLink(req[r])
      BY <2>2
    <3>2. l.user = req[r].user
      BY <3>1 DEF NewLink
    <3> QED
      BY <1>1, <3>2
  <2> QED
    BY <2>1, <2>2, LinksStep
<1>4. ASSUME NEW r \in Requests PROVE req'[r].user < nextId'
  <2>1. req'[r].user \in {0, req[r].user} \/ KnownUser(req'[r].user)
    BY RequestOrigin
  <2> QED
    BY <1>1, <2>1 DEF KnownUser
<1>5. ASSUME NEW r \in Requests, NEW s \in req'[r].old PROVE sessions'[s].status # "none"
  <2>1. s \in SessionIds
    BY RequestTypes DEF Request
  <2>2. sessions[s].status # "none"
    BY RequestOrigin DEF FreshInv, live
  <2> QED
    BY <2>1, <2>2, FreshSessions
<1> QED
  BY <1>2, <1>3, <1>4, <1>5, FreshSessions DEF FreshInv

\* What other requests do leaves the facts that a request relies on.
LEMMA RequestInvStep ==
  ASSUME TypeOK, FreshInv, RequestInv, ProvisionInv, [Next]_vars
  PROVE  RequestInv'
<1> DEFINE Exists(n) == \E u \in users' : u.id = n
           Facts(p) ==
             LET q == req'[p] IN
             /\ q.pc \in Provisioning \union {"link"} => q.user \in Ids
             /\ q.pc \in {"byEmail", "create", "link", "linkNew"} => q.external \in Externals
             /\ q.pc = "rotate" => q.session \in SessionIds
             /\ q.pc = "link" => q.verified /\ (Exists(q.user) \/ q.user \in lostLink')
             /\ q.pc = "linkNew" => Exists(q.user)
             /\ q.pc = "undoUser" => q.user \in lostLink'
             /\ q.pc = "undoAccount" /\ Exists(q.user) => q.user \in lostUser'
<1> SUFFICES ASSUME NEW p \in Requests PROVE Facts(p)
  BY DEF RequestInv, UserExists
<1>1. CASE req'[p] = req[p]
  <2> DEFINE n == req[p].user
  <2>1. UserExists(n) => Exists(n) \/ \E r \in Requests : req[r].pc = "undoUser" /\ req[r].user = n
    BY UsersStep DEF UserExists
  <2>2. Exists(n) => UserExists(n) \/ \E r \in Requests : req[r].pc = "user" /\ req[r].user = n
    BY UsersStep DEF UserExists, Adds, NewUser
  <2>3. \A r \in Requests : req[r].pc = "undoUser" => req[r].user \in lostLink
    BY DEF RequestInv
  <2>4. req[p].pc = "link" => Exists(n) \/ n \in lostLink'
    BY <2>1, <2>3, LinksStep DEF RequestInv
  <2>5. req[p].pc = "linkNew" => Exists(n)
    BY <2>1 DEF RequestInv, ProvisionInv, Provisioning
  <2>6. req[p].pc = "undoAccount" /\ Exists(n) => n \in lostUser'
    BY <2>2, UsersStep DEF RequestInv, ProvisionInv, Provisioning
  <2>7. req[p].pc = "undoUser" => n \in lostLink'
    BY <2>3, LinksStep
  <2> HIDE DEF Exists
  <2> QED
    BY <1>1, <2>4, <2>5, <2>6, <2>7 DEF RequestInv
<1>2. CASE Aside(p)
  BY <1>2 DEF Aside, Provisioning
<1>3. CASE Generates(p)
  BY <1>3 DEF Generates
<1>4. CASE Inserts(p)
  <2>1. req[p].user \in Ids /\ req[p].external \in Externals \union {NoExternal}
    BY <1>4 DEF Inserts, RequestInv, Provisioning, TypeOK, Request
  <2>2. Exists(req[p].user)
    <3>1. NewUser(req[p]) \in users' /\ NewUser(req[p]).id = req[p].user
      BY <1>4 DEF Inserts, NewUser
    <3> QED
      BY <3>1
  <2> HIDE DEF Exists
  <2>3. CASE req[p].external = NoExternal
    BY <1>4, <2>3 DEF Inserts, Provisioning
  <2>4. CASE req[p].external # NoExternal
    BY <1>4, <2>1, <2>2, <2>4 DEF Inserts, SamePerson
  <2> QED
    BY <2>3, <2>4
<1>5. CASE FailsToInsert(p)
  <2>1. req[p].user \in Ids /\ \A u \in users : u.id # req[p].user
    BY <1>5 DEF FailsToInsert, RequestInv, ProvisionInv, Provisioning
  <2> QED
    BY <1>5, <2>1 DEF FailsToInsert
<1>6. CASE Links(p)
  BY <1>6 DEF Links, Provisioning
<1>7. CASE FailsToLink(p)
  <2>1. req[p].user \in Ids
    BY <1>7 DEF FailsToLink, RequestInv, Provisioning
  <2> QED
    BY <1>7, <2>1 DEF FailsToLink
<1>8. CASE Undoes(p)
  <2>1. req[p].user \in Ids
    BY <1>8 DEF Undoes, RequestInv, Provisioning
  <2> QED
    BY <1>8, <2>1 DEF Undoes
<1>9. CASE Finds(p)
  <2>1. req[p].external \in Externals
    BY <1>9 DEF Finds, RequestInv
  <2>2. Exists(req'[p].user) /\ req'[p].user \in Ids
    BY <1>9, Numbers DEF Finds
  <2> HIDE DEF Exists
  <2> QED
    BY <1>9, <2>1, <2>2 DEF Finds
<1>10. CASE Trusts(p) \/ GoesOn(p)
  BY <1>10 DEF Trusts, GoesOn, Provisioning
<1> QED
  BY <1>1, <1>2, <1>3, <1>4, <1>5, <1>6, <1>7, <1>8, <1>9, <1>10, RequestStep

\* A request that can undo an account has just generated it, or could before.
LEMMA ProvisionMove ==
  ASSUME TypeOK, RequestInv, [Next]_vars, NEW p \in Requests, req'[p].pc \in Provisioning
  PROVE  \/ Generates(p)
         \/ /\ req[p].pc \in Provisioning /\ req'[p].user = req[p].user
            /\ req'[p].pc = "user" => req[p].pc = "user"
  BY RequestStep DEF Provisioning, Aside, Generates, Inserts, FailsToInsert, Links,
     FailsToLink, Undoes, Finds, Trusts, GoesOn, SamePerson

\* A generated account is that of one request until its user is inserted.
LEMMA ProvisionStep ==
  ASSUME TypeOK, FreshInv, RequestInv, ProvisionInv, [Next]_vars
  PROVE  ProvisionInv'
<1>1. ASSUME NEW r \in Requests, Generates(r)
      PROVE  /\ \A p \in Requests : req'[p].user = nextId => p = r
             /\ nextId \in accounts' /\ \A u \in users' : u.id # nextId
             /\ \A l \in identities' : l.user # nextId
             /\ \A s \in SessionIds : sessions'[s].user # nextId
  BY <1>1, Numbers DEF Generates, FreshInv
<1>2. ASSUME NEW r \in Requests, NEW p \in Requests, req'[r].pc \in Provisioning,
             req'[p].pc \in Provisioning, req'[r].user = req'[p].user
      PROVE  r = p
  <2>1. CASE Generates(r)
    BY <1>1, <1>2, <2>1 DEF Generates
  <2>2. CASE Generates(p)
    BY <1>1, <1>2, <2>2 DEF Generates
  <2>3. CASE ~Generates(r) /\ ~Generates(p)
    BY <1>2, <2>3, ProvisionMove DEF ProvisionInv
  <2> QED
    BY <2>1, <2>2, <2>3
<1>3. ASSUME NEW r \in Requests, req'[r].pc = "user"
      PROVE  /\ req'[r].user \in accounts'
             /\ \A u \in users' : u.id # req'[r].user
             /\ \A l \in identities' : l.user # req'[r].user
             /\ \A s \in SessionIds : sessions'[s].user # req'[r].user
             /\ \A p \in Requests : req'[p].user = req'[r].user => p = r
  <2>1. CASE Generates(r)
    BY <1>1, <2>1 DEF Generates
  <2>2. CASE ~Generates(r)
    <3> DEFINE n == req[r].user
    <3>1. req[r].pc = "user" /\ req'[r].user = n
      BY <1>3, <2>2, ProvisionMove DEF Provisioning
    <3>2. /\ n \in accounts /\ n \in Ids
          /\ \A u \in users : u.id # n
          /\ \A l \in identities : l.user # n
          /\ \A s \in SessionIds : sessions[s].user # n
          /\ \A p \in Requests : req[p].user = n => p = r
      BY <3>1 DEF ProvisionInv, RequestInv, Provisioning
    <3>3. n < nextId /\ n \in Nat /\ nextId \in Nat /\ 0 \notin Ids
      BY Numbers DEF FreshInv
    <3>4. n \in accounts'
      BY <3>1, <3>2, AccountsStep
    <3>5. \A u \in users' : u.id # n
      BY <1>3, <3>1, <3>2, UsersStep DEF Adds, NewUser
    <3>6. \A l \in identities' : l.user # n
      BY <3>1, <3>2, LinksStep DEF NewLink
    <3>7. ASSUME NEW s \in SessionIds PROVE sessions'[s].user # n
      BY <3>1, <3>2, SessionStep DEF Opens, Closes, Ages, Rotates
    <3>8. ASSUME NEW p \in Requests, req'[p].user = n PROVE p = r
      BY <3>2, <3>3, <3>8, RequestOrigin DEF KnownUser
    <3> QED
      BY <3>1, <3>4, <3>5, <3>6, <3>7, <3>8
  <2> QED
    BY <2>1, <2>2
<1> QED
  BY <1>2, <1>3 DEF ProvisionInv

\* An address and an id belong to one user; a callback works for the user of its
\* address.
LEMMA AddressStep ==
  ASSUME TypeOK, RequestInv, ProvisionInv, AddressInv, [Next]_vars
  PROVE  AddressInv'
<1> DEFINE Steps3 == {"link", "linkNew", "userById", "getAccount", "session"}
<1>1. ASSUME NEW u \in users', NEW r \in Requests, Adds(r, u), NEW v \in users
      PROVE  u.email # v.email /\ u.id # v.id
  BY <1>1 DEF Adds, NewUser, AddressFree, FindUserByEmail, ProvisionInv
<1>2. ASSUME NEW u \in users', NEW v \in users', u.email = v.email \/ u.id = v.id
      PROVE  u = v
  <2>1. CASE u \in users /\ v \in users
    BY <1>2, <2>1 DEF AddressInv
  <2>2. CASE u \notin users /\ v \in users
    BY <1>1, <1>2, <2>2, UsersStep
  <2>3. CASE u \in users /\ v \notin users
    BY <1>1, <1>2, <2>3, UsersStep
  <2>4. CASE u \notin users /\ v \notin users
    BY <2>4, UsersStep
  <2> QED
    BY <2>1, <2>2, <2>3, <2>4
<1>3. ASSUME NEW p \in Requests, NEW u \in users', req'[p].pc \in Steps3,
             req'[p].external # NoExternal, u.id = req'[p].user
      PROVE  u.email = req'[p].email /\ (req'[p].pc = "linkNew" => u.via = req'[p].external)
  <2>1. CASE req'[p] = req[p]
    <3>1. CASE u \in users
      BY <1>3, <2>1, <3>1 DEF AddressInv
    <3>2. CASE \E r \in Requests : Adds(r, u)
      <4>1. PICK r \in Requests : Adds(r, u)
        BY <3>2
      <4>2. req[r].pc = "user" /\ req[p].user = req[r].user
        BY <1>3, <2>1, <4>1 DEF Adds, NewUser
      <4>3. p = r
        BY <4>2 DEF ProvisionInv
      <4> QED
        BY <1>3, <2>1, <4>2, <4>3
    <3> QED
      BY <3>1, <3>2, UsersStep
  <2>2. CASE Aside(p) \/ Generates(p) \/ FailsToInsert(p) \/ FailsToLink(p) \/ Undoes(p) \/ Trusts(p)
    BY <1>3, <2>2 DEF Aside, Generates, FailsToInsert, FailsToLink, Undoes, Trusts
  <2>3. CASE Inserts(p)
    <3>1. u = NewUser(req[p])
      <4>1. u \in users \/ u = NewUser(req[p])
        BY <2>3 DEF Inserts
      <4>2. u.id = req[p].user /\ req[p].pc = "user"
        BY <1>3, <2>3 DEF Inserts, SamePerson
      <4> QED
        BY <4>1, <4>2 DEF ProvisionInv
    <3>2. u.email = req[p].email /\ u.via = req[p].external
      BY <3>1 DEF NewUser
    <3> QED
      BY <2>3, <3>2 DEF Inserts, SamePerson
  <2>4. CASE Links(p) \/ GoesOn(p)
    <3>1. req[p].pc \in Steps3 /\ SamePerson(p) /\ users' = users /\ req'[p].pc # "linkNew"
      BY <2>4 DEF Links, GoesOn
    <3> QED
      BY <1>3, <3>1 DEF AddressInv, SamePerson
  <2>5. CASE Finds(p)
    <3>1. PICK v \in users : v.id = req'[p].user /\ v.email = req'[p].email
      BY <2>5 DEF Finds
    <3>2. u = v
      BY <1>3, <2>5, <3>1 DEF Finds, AddressInv
    <3> QED
      BY <2>5, <3>1, <3>2 DEF Finds
  <2> QED
    BY <2>1, <2>2, <2>3, <2>4, <2>5, RequestStep
<1> QED
  BY <1>2, <1>3 DEF AddressInv

\* Every account a step removes is one whose user is gone or was misreported.
LEMMA UserHasAccountStep ==
  ASSUME TypeOK, RequestInv, ProvisionInv, UserHasAccount, [Next]_vars
  PROVE  UserHasAccount'
<1> SUFFICES ASSUME NEW u \in users' PROVE u.id \in accounts' \/ u.id \in lostUser'
  BY DEF UserHasAccount
<1>1. CASE u \in users
  <2>1. CASE \E r \in Requests : req[r].pc = "undoAccount" /\ req[r].user = u.id
    BY <1>1, <2>1, UsersStep DEF RequestInv, UserExists
  <2>2. CASE ~\E r \in Requests : req[r].pc = "undoAccount" /\ req[r].user = u.id
    BY <1>1, <2>2, UsersStep, AccountsStep DEF UserHasAccount
  <2> QED
    BY <2>1, <2>2
<1>2. CASE \E r \in Requests : Adds(r, u)
  <2>1. PICK r \in Requests : req[r].pc = "user" /\ u.id = req[r].user
    BY <1>2 DEF Adds, NewUser
  <2>2. req[r].user \in accounts
    BY <2>1 DEF ProvisionInv
  <2>3. \A o \in Requests : req[o].pc = "undoAccount" => req[o].user # req[r].user
    BY <2>1 DEF ProvisionInv
  <2> QED
    BY <2>1, <2>2, <2>3, AccountsStep
<1> QED
  BY <1>1, <1>2, UsersStep

\* A stored identity keeps its user, or the undo of its user was announced.
LEMMA IdentityHasUserStep ==
  ASSUME TypeOK, RequestInv, IdentityHasUser, [Next]_vars
  PROVE  IdentityHasUser'
<1> DEFINE Exists(n) == \E u \in users' : u.id = n
<1>1. ASSUME NEW n, UserExists(n) \/ n \in lostLink PROVE Exists(n) \/ n \in lostLink'
  <2>1. CASE \E r \in Requests : req[r].pc = "undoUser" /\ req[r].user = n
    BY <2>1, LinksStep DEF RequestInv
  <2>2. CASE ~\E r \in Requests : req[r].pc = "undoUser" /\ req[r].user = n
    BY <1>1, <2>2, UsersStep, LinksStep DEF UserExists
  <2> QED
    BY <2>1, <2>2
<1>2. ASSUME NEW l \in identities' PROVE UserExists(l.user) \/ l.user \in lostLink
  <2>1. CASE l \in identities
    BY <2>1 DEF IdentityHasUser
  <2>2. CASE \E r \in Requests : req[r].pc \in {"link", "linkNew"} /\ l = NewLink(req[r])
    BY <2>2 DEF NewLink, RequestInv
  <2> QED
    BY <2>1, <2>2, LinksStep
<1>3. \A l \in identities' : Exists(l.user) \/ l.user \in lostLink'
  <2> HIDE DEF Exists
  <2> QED
    BY <1>1, <1>2
<1> QED
  BY <1>3 DEF IdentityHasUser, UserExists

\* A stored identity and its user fit each other whichever is stored last.
LEMMA VerifiedLinkStep ==
  ASSUME TypeOK, RequestInv, ProvisionInv, AddressInv, VerifiedLink, [Next]_vars
  PROVE  VerifiedLink'
<1> SUFFICES ASSUME NEW l \in identities', NEW u \in users', u.id = l.user
             PROVE  u.email = l.email /\ (l.verified \/ u.via = l.external)
  BY DEF VerifiedLink
<1>1. CASE l \in identities /\ u \in users
  BY <1>1 DEF VerifiedLink
<1>2. CASE l \in identities /\ \E r \in Requests : Adds(r, u)
  BY <1>2 DEF Adds, NewUser, ProvisionInv
<1>3. ASSUME NEW p \in Requests, req[p].pc \in {"link", "linkNew"}, l = NewLink(req[p])
      PROVE  u.email = l.email /\ (l.verified \/ u.via = l.external)
  <2>1. /\ l.user = req[p].user /\ l.email = req[p].email /\ l.external = req[p].external
        /\ l.verified = req[p].verified
    BY <1>3 DEF NewLink
  <2>2. u \in users
    <3> SUFFICES ASSUME NEW r \in Requests, Adds(r, u) PROVE FALSE
      BY UsersStep
    <3>1. req[r].pc = "user" /\ req[r].user = req[p].user
      BY <2>1 DEF Adds, NewUser
    <3>2. p = r
      BY <3>1 DEF ProvisionInv
    <3> QED
      BY <1>3, <3>1, <3>2
  <2>3. req[p].external \in Externals /\ req[p].external # NoExternal
    BY <1>3, IdentityAssumption DEF RequestInv
  <2>4. u.email = req[p].email /\ (req[p].pc = "linkNew" => u.via = req[p].external)
    BY <1>3, <2>1, <2>2, <2>3 DEF AddressInv
  <2>5. req[p].pc = "link" => req[p].verified
    BY DEF RequestInv
  <2> QED
    BY <1>3, <2>1, <2>4, <2>5
<1> QED
  BY <1>1, <1>2, <1>3, UsersStep, LinksStep

LEMMA IdentityInvInit == Init => IdentityInv
<1> SUFFICES ASSUME Init PROVE IdentityInv
  OBVIOUS
<1>1. \A r \in Requests : req[r] = Idle
  BY DEF Init
<1>2. TypeOK
  BY IdleRecord, IdentityAssumption DEF Init, TypeOK, Session, SessionIds
<1>3. FreshInv /\ RequestInv /\ ProvisionInv /\ AddressInv
  BY <1>1, IdleRecord DEF Init, FreshInv, RequestInv, ProvisionInv, AddressInv, Provisioning
<1>4. UserHasAccount /\ IdentityHasUser /\ VerifiedLink
  BY DEF Init, UserHasAccount, IdentityHasUser, VerifiedLink
<1> QED
  BY <1>2, <1>3, <1>4 DEF IdentityInv

\* Every step preserves the inductive invariant.
LEMMA IdentityInvStep == IdentityInv /\ [Next]_vars => IdentityInv'
  BY TypeStep, FreshStep, RequestInvStep, ProvisionStep, AddressStep, UserHasAccountStep,
     IdentityHasUserStep, VerifiedLinkStep DEF IdentityInv

\* IdentityInv holds in every state: what the locals of signups and callbacks mean
\* while other requests provision, link, undo and log in.
THEOREM IdentityInvHolds == Spec => []IdentityInv
  BY IdentityInvInit, IdentityInvStep, PTL DEF Spec

\* The variables keep their types.
THEOREM IdentityTypes == Spec => []TypeOK
<1>1. IdentityInv => TypeOK
  BY DEF IdentityInv
<1> QED
  BY <1>1, IdentityInvHolds, PTL

\* createAccountWithOAuthUser and CreateAccountWithAdminUser never leave a user
\* without its account, unless the store misreported the user's insert or delete.
THEOREM UsersHaveAccounts == Spec => []UserHasAccount
<1>1. IdentityInv => UserHasAccount
  BY DEF IdentityInv
<1> QED
  BY <1>1, IdentityInvHolds, PTL

\* handleOAuthCallback is led to a stored user by every identity, except where the
\* insert of that user's first identity reported an error.
THEOREM IdentitiesHaveUsers == Spec => []IdentityHasUser
<1>1. IdentityInv => IdentityHasUser
  BY DEF IdentityInv
<1> QED
  BY <1>1, IdentityInvHolds, PTL

\* The linking policy of decideOAuthAction holds of everything stored.
THEOREM LinksAreVerified == Spec => []VerifiedLink
<1>1. IdentityInv => VerifiedLink
  BY DEF IdentityInv
<1> QED
  BY <1>1, IdentityInvHolds, PTL

\* A duplicate that linkOAuthIdentity counts as linked is an identity of the user
\* the callback found: addresses are unique, and the identity's user has the
\* identity's address.
THEOREM DuplicatesLeadToOneUser == Spec => []DuplicateLinkIsSameUser
<1>1. IdentityInv => DuplicateLinkIsSameUser
  <2> SUFFICES ASSUME IdentityInv, NEW r \in Requests, NEW l \in identities,
                      req[r].pc \in {"getAccount", "session"}, req[r].external = l.external,
                      req[r].email = l.email, UserExists(req[r].user), l.user \notin lostLink
               PROVE  req[r].user = l.user
    BY DEF DuplicateLinkIsSameUser
  <2>1. PICK u \in users : u.id = req[r].user
    BY DEF UserExists
  <2>2. PICK v \in users : v.id = l.user
    BY DEF IdentityInv, IdentityHasUser, UserExists
  <2>3. l.external # NoExternal
    BY IdentityAssumption DEF IdentityInv, TypeOK, Link
  <2>4. u.email = req[r].email
    BY <2>1, <2>3 DEF IdentityInv, AddressInv
  <2>5. v.email = l.email
    BY <2>2 DEF IdentityInv, VerifiedLink
  <2>6. u = v
    BY <2>4, <2>5 DEF IdentityInv, AddressInv
  <2> QED
    BY <2>1, <2>2, <2>6
<1> QED
  BY <1>1, IdentityInvHolds, PTL

\* No step of a refresh, a logout, a trim or a late write brings back a session that
\* was revoked or removed.
THEOREM EndedSessionsStay == Spec => EndedSessionStaysEnded
<1> DEFINE Stays == \A s \in SessionIds : sessions[s].status \in {"revoked", "gone"}
                                           => sessions'[s].status = sessions[s].status
<1>1. IdentityInv /\ [Next]_vars => [Stays]_vars
  <2> SUFFICES ASSUME IdentityInv, [Next]_vars, NEW s \in SessionIds,
                      sessions[s].status \in {"revoked", "gone"}
               PROVE  sessions'[s].status = sessions[s].status
    OBVIOUS
  <2>1. TypeOK /\ RequestInv /\ FreshInv
    BY DEF IdentityInv
  <2>2. ~live(s)
    BY DEF live
  <2>3. ~Opens(s)
    BY <2>1 DEF Opens, FreshInv, TypeOK, SessionIds
  <2> QED
    BY <2>1, <2>2, <2>3, SessionStep DEF Closes, Ages, Rotates
<1> QED
  BY <1>1, IdentityInvHolds, PTL DEF Spec, EndedSessionStaysEnded

\* A token refused once is refused for ever: sessions only take tokens just
\* generated, and nothing refers to an account or a user that is yet to be stored.
THEOREM RefusalsAreFinal == Spec => RefusedTokenStaysRefused
<1> DEFINE Refused == \A t \in 1..(nextToken - 1) :
                        /\ ~AcceptsAccess(t) => ~AcceptsAccess(t)'
                        /\ ~AcceptsRefresh(t) => ~AcceptsRefresh(t)'
<1>1. IdentityInv /\ [Next]_vars => [Refused]_vars
  <2> SUFFICES ASSUME IdentityInv, [Next]_vars, NEW t \in 1..(nextToken - 1)
               PROVE  /\ AcceptsAccess(t)' => AcceptsAccess(t)
                      /\ AcceptsRefresh(t)' => AcceptsRefresh(t)
    OBVIOUS
  <2>1. TypeOK /\ RequestInv /\ FreshInv /\ ProvisionInv
    BY DEF IdentityInv
  <2>2. t # nextToken
    BY <2>1, IdentityAssumption DEF TypeOK
  <2>3. ASSUME NEW s \in SessionIds, Accepts(s)',
               sessions'[s].access = t \/ sessions'[s].refresh = t
        PROVE  /\ Accepts(s) /\ sessions'[s].access = sessions[s].access
               /\ sessions'[s].refresh = sessions[s].refresh
               /\ sessions'[s].age = "fresh" => sessions[s].age = "fresh"
               /\ sessions'[s].age # "expired" => sessions[s].age # "expired"
    <3>1. sessions'[s] = sessions[s] \/ Ages(s)
      BY <2>1, <2>2, <2>3, SessionStep DEF Opens, Closes, Rotates, Accepts, live
    <3>2. live(s) /\ sessions'[s].user = sessions[s].user
      BY <2>3, <3>1 DEF Ages, Accepts, live
    <3>3. sessions[s].user \in accounts
      BY <2>1, <2>3, <3>2, AccountsStep, Numbers DEF Accepts, FreshInv
    <3>4. UserExists(sessions[s].user)
      <4>1. PICK u \in users' : u.id = sessions[s].user
        BY <2>3, <3>2 DEF Accepts, UserExists
      <4>2. \A r \in Requests : ~Adds(r, u)
        BY <2>1, <4>1 DEF Adds, NewUser, ProvisionInv
      <4> QED
        BY <2>1, <4>1, <4>2, UsersStep DEF UserExists
    <3>5. /\ sessions'[s].access = sessions[s].access /\ sessions'[s].refresh = sessions[s].refresh
          /\ sessions'[s].age = "fresh" => sessions[s].age = "fresh"
          /\ sessions'[s].age # "expired" => sessions[s].age # "expired"
      BY <3>1 DEF Ages
    <3> QED
      BY <3>2, <3>3, <3>4, <3>5 DEF Accepts
  <2>4. AcceptsAccess(t)' => AcceptsAccess(t)
    BY <2>3 DEF AcceptsAccess
  <2>5. AcceptsRefresh(t)' => AcceptsRefresh(t)
    BY <2>3 DEF AcceptsRefresh
  <2> QED
    BY <2>4, <2>5
<1> QED
  BY <1>1, IdentityInvHolds, PTL DEF Spec, RefusedTokenStaysRefused

-----------------------------------------------------------------------------
(* The number of sessions. *)

\* The newest Keep elements of a finite set of numbers are at most Keep: the one
\* with n newer ones is told apart by n.
LEMMA NewestAreKeep ==
  ASSUME NEW S \in SUBSET SessionIds
  PROVE  Cardinality({s \in S : Cardinality({t \in S : s < t}) < Keep}) <= Keep
<1> DEFINE Newer(s) == {t \in S : s < t}
           Top == {s \in S : Cardinality(Newer(s)) < Keep}
           f == [s \in Top |-> Cardinality(Newer(s))]
<1>1. IsFiniteSet(S)
  <2>1. IsFiniteSet(SessionIds)
    BY FS_Interval, IdentityAssumption DEF SessionIds
  <2> QED
    BY <2>1, FS_Subset
<1>2. \A s \in S : IsFiniteSet(Newer(s)) /\ Cardinality(Newer(s)) \in Nat
  <2> SUFFICES ASSUME NEW s \in S PROVE IsFiniteSet(Newer(s)) /\ Cardinality(Newer(s)) \in Nat
    OBVIOUS
  <2>1. Newer(s) \in SUBSET S
    OBVIOUS
  <2>2. IsFiniteSet(Newer(s))
    BY <1>1, <2>1, FS_Subset
  <2> QED
    BY <2>2, FS_CardinalityType
<1>3. IsFiniteSet(Top) /\ Cardinality(Top) \in Nat
  <2>1. Top \in SUBSET S
    OBVIOUS
  <2>2. IsFiniteSet(Top)
    BY <1>1, <2>1, FS_Subset
  <2> QED
    BY <2>2, FS_CardinalityType
<1>4. IsFiniteSet(0..(Keep - 1)) /\ Cardinality(0..(Keep - 1)) = Keep
  BY FS_Interval, IdentityAssumption
<1>5. ASSUME NEW x \in S, NEW y \in S, x < y
      PROVE  Cardinality(Newer(x)) # Cardinality(Newer(y))
  <2>1. x \in Nat /\ y \in Nat /\ \A t \in S : t \in Nat
    BY IdentityAssumption DEF SessionIds
  <2>2. Newer(y) \in SUBSET Newer(x)
    <3> SUFFICES ASSUME NEW t \in S, y < t PROVE x < t
      OBVIOUS
    <3> QED
      BY <1>5, <2>1
  <2>3. y \in Newer(x) /\ y \notin Newer(y)
    BY <1>5, <2>1
  <2>4. IsFiniteSet(Newer(x))
    BY <1>2
  <2> HIDE DEF Newer
  <2> QED
    BY <2>2, <2>3, <2>4, FS_Subset
<1> HIDE DEF Newer
<1>6. f \in [Top -> 0..(Keep - 1)]
  BY <1>2, IdentityAssumption
<1>7. \A x, y \in Top : x # y => f[x] # f[y]
  <2> TAKE x, y \in Top
  <2>1. x \in Nat /\ y \in Nat
    BY IdentityAssumption DEF SessionIds
  <2> QED
    BY <1>5, <2>1
<1>8. ~(Keep < Cardinality(Top))
  <2> HIDE DEF f, Top
  <2> QED
    BY <1>3, <1>4, <1>6, <1>7, FS_PigeonHole
<1> QED
  BY <1>3, <1>8, IdentityAssumption DEF Newer

\* RevokeOldUserSessions leaves the newest Keep of the sessions it has listed.
LEMMA ListingLeavesKeep ==
  ASSUME NEW u
  PROVE  Cardinality(SessionsOf(u) \ OldSessions(u)) <= Keep
<1> DEFINE S == SessionsOf(u)
           Newer(s) == {t \in S : s < t}
<1>1. S \in SUBSET SessionIds
  BY DEF SessionsOf
<1>2. \A s \in S : Cardinality(Newer(s)) \in Nat
  <2>1. IsFiniteSet(SessionIds)
    BY FS_Interval, IdentityAssumption DEF SessionIds
  <2>2. \A s \in S : Newer(s) \in SUBSET SessionIds
    BY <1>1
  <2> HIDE DEF Newer
  <2> QED
    BY <2>1, <2>2, FS_Subset, FS_CardinalityType
<1>3. S \ OldSessions(u) = {s \in S : Cardinality(Newer(s)) < Keep}
  BY <1>2, IdentityAssumption DEF OldSessions
<1> HIDE DEF S
<1>4. Cardinality({s \in S : Cardinality(Newer(s)) < Keep}) <= Keep
  BY <1>1, NewestAreKeep
<1> QED
  BY <1>3, <1>4 DEF S

\* The successful steps that matter to the number of sessions.
Creates(r) ==
    /\ req[r].pc = "session" /\ Carries(r, "list", req[r].user)
    /\ nextSession' = nextSession + 1 /\ sessions'[nextSession].user = req[r].user
ListsNone(r) ==
    /\ req[r].pc = "list" /\ OldSessions(req[r].user) = {} /\ Ends(r)
    /\ nextSession' = nextSession
Lists(r) ==
    /\ req[r].pc = "list" /\ nextSession' = nextSession
    /\ Becomes(r, "revoke", req[r].user, req[r].email, req[r].external, req[r].verified,
               OldSessions(req[r].user))
Revokes(r) ==
    /\ req[r].pc = "revoke" /\ sessions' = Revoke(req[r].old) /\ Ends(r)
    /\ nextSession' = nextSession

\* No session is opened and no request starts or ends to trim them.
Quiet ==
    /\ nextSession' = nextSession
    /\ \A p \in Requests :
         req[p].pc \in {"list", "revoke"} \/ req'[p].pc \in {"list", "revoke"} => req'[p] = req[p]

\* Every step without a fault is one of these.
LEMMA TrimCases ==
  ASSUME TypeOK, [Next]_vars
  PROVE  \/ Err \/ Quiet
         \/ \E r \in Requests : Creates(r) \/ ListsNone(r) \/ Lists(r) \/ Revokes(r)
<1> DEFINE Effect ==
      \/ Err \/ Quiet
      \/ \E r \in Requests : Creates(r) \/ ListsNone(r) \/ Lists(r) \/ Revokes(r)
           Keeps == UNCHANGED <<req, nextSession>>
<1>1. ASSUME NEW r \in Requests, NEW e \in Emails, Signup(r, e) PROVE Effect
  <2>1. Becomes(r, "account", 0, e, NoExternal, FALSE, {})
    BY <1>1, SignupMove
  <2>2. req[r].pc \notin {"list", "revoke"} /\ nextSession' = nextSession
    BY <1>1 DEF Signup, idVars
  <2> QED
    BY <2>1, <2>2 DEF Quiet, Becomes, GoesTo, Carries, Ends
<1>2. ASSUME NEW r \in Requests, InsertAccount(r) PROVE Effect
  <2>1. \/ Becomes(r, "user", nextId, req[r].email, req[r].external, req[r].verified, req[r].old)
        \/ Ends(r)
    BY <1>2, InsertAccountMove
  <2>2. req[r].pc \notin {"list", "revoke"} /\ nextSession' = nextSession
    BY <1>2 DEF InsertAccount
  <2> QED
    BY <2>1, <2>2 DEF Quiet, Becomes, GoesTo, Carries, Ends
<1>3. ASSUME NEW r \in Requests, InsertUser(r) PROVE Effect
  <2>1. \/ GoesTo(r, IF req[r].external = NoExternal THEN "session" ELSE "linkNew")
        \/ Carries(r, "undoAccount", req[r].user)
    BY <1>3, InsertUserMove
  <2>2. req[r].pc \notin {"list", "revoke"} /\ nextSession' = nextSession
    BY <1>3 DEF InsertUser, idVars
  <2> QED
    BY <2>1, <2>2 DEF Quiet, Becomes, GoesTo, Carries, Ends
<1>4. ASSUME NEW r \in Requests, linkOAuthIdentity(r) PROVE Effect
  <2>1. \/ Becomes(r, IF req[r].pc = "linkNew" THEN "session" ELSE "getAccount", req[r].user,
                   req[r].email, req[r].external, FALSE, req[r].old)
        \/ Carries(r, "undoUser", req[r].user) \/ Ends(r)
    BY <1>4, linkOAuthIdentityMove
  <2>2. req[r].pc \notin {"list", "revoke"} /\ nextSession' = nextSession
    BY <1>4 DEF linkOAuthIdentity, idVars
  <2> QED
    BY <2>1, <2>2 DEF Quiet, Becomes, GoesTo, Carries, Ends
<1>5. ASSUME NEW r \in Requests, UndoUser(r) PROVE Effect
  <2>1. Carries(r, "undoAccount", req[r].user)
    BY <1>5, UndoUserMove
  <2>2. req[r].pc \notin {"list", "revoke"} /\ nextSession' = nextSession
    BY <1>5 DEF UndoUser, idVars
  <2> QED
    BY <2>1, <2>2 DEF Quiet, Becomes, GoesTo, Carries, Ends
<1>6. ASSUME NEW r \in Requests, UndoAccount(r) PROVE Effect
  <2>1. Ends(r)
    BY <1>6, UndoAccountMove
  <2>2. req[r].pc \notin {"list", "revoke"} /\ nextSession' = nextSession
    BY <1>6 DEF UndoAccount, idVars
  <2> QED
    BY <2>1, <2>2 DEF Quiet, Becomes, GoesTo, Carries, Ends
<1>7. ASSUME NEW r \in Requests, NEW u \in users, Login(r, u) PROVE Effect
  <2>1. Carries(r, "getAccount", u.id)
    BY <1>7, LoginMove
  <2>2. req[r].pc \notin {"list", "revoke"} /\ nextSession' = nextSession
    BY <1>7 DEF Login, idVars
  <2> QED
    BY <2>1, <2>2 DEF Quiet, Becomes, GoesTo, Carries, Ends
<1>8. ASSUME NEW r \in Requests, NEW x \in Externals, NEW e \in Emails \union {NoEmail}, NEW v \in BOOLEAN,
             OAuthCallback(r, x, e, v)
      PROVE  Effect
  <2>1. \/ \E l \in identities : Carries(r, "userById", l.user)
        \/ Becomes(r, "account", 0, e, x, v, {})
        \/ Becomes(r, "byEmail", 0, e, x, v, {})
    BY <1>8, OAuthCallbackMove
  <2>2. req[r].pc \notin {"list", "revoke"} /\ nextSession' = nextSession
    BY <1>8 DEF OAuthCallback, idVars
  <2> QED
    BY <2>1, <2>2 DEF Quiet, Becomes, GoesTo, Carries, Ends
<1>9. ASSUME NEW r \in Requests, OAuthByEmail(r) PROVE Effect
  <2>1. \/ \E u \in users : Becomes(r, "link", u.id, req[r].email, req[r].external,
                                 req[r].verified, req[r].old)
        \/ Ends(r) \/ GoesTo(r, "create")
    BY <1>9, OAuthByEmailMove
  <2>2. req[r].pc \notin {"list", "revoke"} /\ nextSession' = nextSession
    BY <1>9 DEF OAuthByEmail, idVars
  <2> QED
    BY <2>1, <2>2 DEF Quiet, Becomes, GoesTo, Carries, Ends
<1>10. ASSUME NEW r \in Requests, OAuthCreate(r) PROVE Effect
  <2>1. GoesTo(r, "account") \/ Ends(r)
    BY <1>10, OAuthCreateMove
  <2>2. req[r].pc \notin {"list", "revoke"} /\ nextSession' = nextSession
    BY <1>10 DEF OAuthCreate, idVars
  <2> QED
    BY <2>1, <2>2 DEF Quiet, Becomes, GoesTo, Carries, Ends
<1>11. ASSUME NEW r \in Requests, findUserByID(r) PROVE Effect
  <2>1. GoesTo(r, "getAccount") \/ Ends(r)
    BY <1>11, findUserByIDMove
  <2>2. req[r].pc \notin {"list", "revoke"} /\ nextSession' = nextSession
    BY <1>11 DEF findUserByID, idVars
  <2> QED
    BY <2>1, <2>2 DEF Quiet, Becomes, GoesTo, Carries, Ends
<1>12. ASSUME NEW r \in Requests, GetAccount(r) PROVE Effect
  <2>1. GoesTo(r, "session") \/ Ends(r)
    BY <1>12, GetAccountMove
  <2>2. req[r].pc \notin {"list", "revoke"} /\ nextSession' = nextSession
    BY <1>12 DEF GetAccount, idVars
  <2> QED
    BY <2>1, <2>2 DEF Quiet, Becomes, GoesTo, Carries, Ends
<1>13. ASSUME NEW r \in Requests, LookupFails(r) PROVE Effect
  <2>1. Ends(r)
    BY <1>13, LookupFailsMove
  <2>2. req[r].pc \notin {"list", "revoke"} /\ nextSession' = nextSession
    BY <1>13 DEF LookupFails, idVars
  <2> QED
    BY <2>1, <2>2 DEF Quiet, Becomes, GoesTo, Carries, Ends
<1>14. ASSUME NEW r \in Requests, CreateSession(r) PROVE Effect
  <2>1. \/ Err
        \/ /\ sessions' = [sessions EXCEPT ![nextSession] = NewSession(req[r].user)]
           /\ Carries(r, "list", req[r].user)
    BY <1>14, CreateSessionMove DEF Err
  <2>2. req[r].pc = "session" /\ nextSession' = nextSession + 1
    BY <1>14 DEF CreateSession
  <2>3. nextSession \in SessionIds
    BY <1>14, IdentityAssumption DEF CreateSession, TypeOK, SessionIds
  <2>4. sessions' = [sessions EXCEPT ![nextSession] = NewSession(req[r].user)]
          => sessions'[nextSession].user = req[r].user
    BY <2>3 DEF NewSession, TypeOK
  <2> QED
    BY <2>1, <2>2, <2>4 DEF Creates
<1>15. ASSUME NEW r \in Requests, ListOldSessions(r) PROVE Effect
  <2>1. \/ OldSessions(req[r].user) = {} /\ Ends(r)
        \/ Becomes(r, "revoke", req[r].user, req[r].email, req[r].external, req[r].verified,
                   OldSessions(req[r].user))
        \/ Err
    BY <1>15, ListOldSessionsMove DEF Err
  <2>2. req[r].pc = "list" /\ nextSession' = nextSession
    BY <1>15 DEF ListOldSessions, idVars
  <2> QED
    BY <2>1, <2>2 DEF ListsNone, Lists
<1>16. ASSUME NEW r \in Requests, RevokeOldSessions(r) PROVE Effect
  <2>1. Ends(r)
    BY <1>16, RevokeOldSessionsMove
  <2>2. /\ req[r].pc = "revoke" /\ nextSession' = nextSession
        /\ Err \/ sessions' = Revoke(req[r].old)
    BY <1>16 DEF RevokeOldSessions, idVars
  <2> QED
    BY <2>1, <2>2 DEF Revokes
<1>17. ASSUME NEW r \in Requests, NEW t \in Tokens, Refresh(r, t) PROVE Effect
  <2>1. Carries(r, "rotate", 0)
    BY <1>17, RefreshMove
  <2>2. req[r].pc \notin {"list", "revoke"} /\ nextSession' = nextSession
    BY <1>17 DEF Refresh, idVars
  <2> QED
    BY <2>1, <2>2 DEF Quiet, Becomes, GoesTo, Carries, Ends
<1>18. ASSUME NEW r \in Requests, RotateSessionTokens(r) PROVE Effect
  <2>1. Ends(r)
    BY <1>18, RotateSessionTokensMove
  <2>2. req[r].pc \notin {"list", "revoke"} /\ nextSession' = nextSession
    BY <1>18 DEF RotateSessionTokens
  <2> QED
    BY <2>1, <2>2 DEF Quiet, Becomes, GoesTo, Carries, Ends
<1>19. ASSUME NEW r \in Requests, NEW a \in Tokens, NEW t \in Tokens, Logout(r, a, t)
      PROVE  Effect
  <2>1. Carries(r, "logout", 0)
    BY <1>19, LogoutMove
  <2>2. req[r].pc \notin {"list", "revoke"} /\ nextSession' = nextSession
    BY <1>19 DEF Logout, idVars
  <2> QED
    BY <2>1, <2>2 DEF Quiet, Becomes, GoesTo, Carries, Ends
<1>20. ASSUME NEW r \in Requests, RevokeSessionByRefreshTokenHash(r) PROVE Effect
  <2>1. Ends(r)
    BY <1>20, RevokeSessionByRefreshTokenHashMove
  <2>2. req[r].pc \notin {"list", "revoke"} /\ nextSession' = nextSession
    BY <1>20 DEF RevokeSessionByRefreshTokenHash, idVars
  <2> QED
    BY <2>1, <2>2 DEF Quiet, Becomes, GoesTo, Carries, Ends
<1>21. ASSUME Crash PROVE Effect
  BY <1>21 DEF Crash
<1>22. ASSUME NEW s \in SessionIds,
       \/ Expire(s) \/ RemoveExpired(s)
     PROVE  Keeps
  BY <1>22 DEF Expire, peopleVars, idVars, lostVars, RemoveExpired
<1>23. ASSUME UNCHANGED vars PROVE Keeps
  BY <1>23 DEF vars
<1>24. ASSUME Keeps PROVE Effect
  BY <1>24 DEF Quiet
<1> HIDE DEF Effect, Keeps
<1>q. Effect
  BY <1>1, <1>2, <1>3, <1>4, <1>5, <1>6, <1>7, <1>8, <1>9, <1>10, <1>11, <1>12,
     <1>13, <1>14, <1>15, <1>16, <1>17, <1>18, <1>19, <1>20, <1>21, <1>22, <1>23,
     <1>24 DEF Next
<1> QED
  BY <1>q DEF Effect

\* Cardinalities of the parts of a finite set.
LEMMA Counting ==
  ASSUME NEW S, IsFiniteSet(S)
  PROVE  /\ Cardinality(S) \in Nat
         /\ \A X \in SUBSET S : Cardinality(X) \in Nat /\ Cardinality(X) <= Cardinality(S)
         /\ \A Y \in SUBSET S : \A X \in SUBSET Y : Cardinality(X) <= Cardinality(Y)
         /\ \A X \in SUBSET S : \A x : Cardinality(X \union {x})
                = IF x \in X THEN Cardinality(X) ELSE Cardinality(X) + 1
<1>1. \A X \in SUBSET S : IsFiniteSet(X) /\ Cardinality(X) <= Cardinality(S)
  BY FS_Subset
<1>2. Cardinality(S) \in Nat /\ \A X \in SUBSET S : Cardinality(X) \in Nat
  BY <1>1, FS_CardinalityType
<1>3. \A Y \in SUBSET S : \A X \in SUBSET Y : Cardinality(X) <= Cardinality(Y)
  BY <1>1, FS_Subset
<1>4. \A X \in SUBSET S : \A x : Cardinality(X \union {x})
         = IF x \in X THEN Cardinality(X) ELSE Cardinality(X) + 1
  BY <1>1, FS_AddElement
<1> QED
  BY <1>1, <1>2, <1>3, <1>4

\* The step of one user, for requests A about to revoke after it.  A step without
\* fault keeps the bound because of what is listed; a fault adds a session at most,
\* and raises the bound by one for each request.
LEMMA TrimStep ==
  ASSUME TypeOK, RequestInv, FreshInv, TrimInv, [Next]_vars,
         NEW u \in Ids, NEW A \in SUBSET Revoking(u)'
  PROVE  Cardinality(SessionsOf(u)' \ Listed(A)')
         <= Keep + Cardinality(Trimming(u)' \ A) + faults' * Cardinality(Requests)
<1> DEFINE S == SessionsOf(u)
           S1 == SessionsOf(u)'
           T == Trimming(u)
           T1 == Trimming(u)'
           L1 == Listed(A)'
           N == Cardinality(Requests)
           X == faults * N
<1>1. /\ S \in SUBSET SessionIds /\ S1 \in SUBSET SessionIds
      /\ T \in SUBSET Requests /\ T1 \in SUBSET Requests /\ A \in SUBSET Requests
  BY DEF SessionsOf, Trimming, Revoking
<1>2. /\ N \in Nat
      /\ \A Y \in SUBSET Requests : Cardinality(Y) \in Nat /\ Cardinality(Y) <= N
      /\ \A Y \in SUBSET Requests : \A Z \in SUBSET Y : Cardinality(Z) <= Cardinality(Y)
      /\ \A Y \in SUBSET Requests : \A x : Cardinality(Y \union {x})
             = IF x \in Y THEN Cardinality(Y) ELSE Cardinality(Y) + 1
  BY Counting, IdentityAssumption
<1>3. /\ \A Y \in SUBSET SessionIds : Cardinality(Y) \in Nat
      /\ \A Y \in SUBSET SessionIds : \A Z \in SUBSET Y : Cardinality(Z) <= Cardinality(Y)
      /\ \A Y \in SUBSET SessionIds : \A x : Cardinality(Y \union {x})
             = IF x \in Y THEN Cardinality(Y) ELSE Cardinality(Y) + 1
  <2>1. IsFiniteSet(SessionIds)
    BY FS_Interval, IdentityAssumption DEF SessionIds
  <2> QED
    BY <2>1, Counting
<1>4. X \in Nat /\ (faults + 1) * N = X + N /\ Keep \in Nat
  BY <1>2, IdentityAssumption DEF TypeOK
<1>5. \A B \in SUBSET Revoking(u) : Cardinality(S \ Listed(B)) <= Keep + Cardinality(T \ B) + X
  BY DEF TrimInv
<1>6. \A s \in S1 : s \in S \/ (s = nextSession /\ Opens(s) /\ sessions'[s].user = u)
  BY SessionStep DEF SessionsOf, live, Opens, Closes, Ages, Rotates
<1>7. nextSession' = nextSession => S1 \subseteq S
  <2>1. nextSession + 1 # nextSession
    BY DEF TypeOK
  <2> QED
    BY <1>6, <2>1 DEF Opens
<1>8. \A r \in A : req'[r].pc = "revoke" /\ req'[r].user = u /\ r \in Requests
  BY DEF Revoking
<1>9. L1 = UNION {req'[r].old : r \in A}
  BY DEF Listed
<1>10. /\ \A r \in Requests : r \in T <=> req[r].pc \in {"list", "revoke"} /\ req[r].user = u
       /\ \A r \in Requests : r \in T1 <=> req'[r].pc \in {"list", "revoke"} /\ req'[r].user = u
       /\ \A r \in Requests : r \in Revoking(u) <=> req[r].pc = "revoke" /\ req[r].user = u
  BY DEF Trimming, Revoking
<1> HIDE DEF S, S1, T, T1, N, X, L1
<1>11. CASE Err
  <2>1. Cardinality(S) <= Keep + Cardinality(T) + X
    <3>1. S \ Listed({}) = S /\ T \ {} = T /\ {} \in SUBSET Revoking(u)
      BY DEF Listed
    <3> QED
      BY <1>5, <3>1
  <2>2. Cardinality(S1) <= Keep + N + X
    <3>1. CASE S1 \subseteq S
      BY <1>1, <1>2, <1>3, <1>4, <2>1, <3>1
    <3>2. CASE ~(S1 \subseteq S)
      <4>1. S1 \subseteq S \union {nextSession} /\ nextSession \in SessionIds /\ Opens(nextSession)
        BY <1>1, <1>6, <3>2
      <4>2. Cardinality(S1) <= Cardinality(S) + 1
        <5>1. S \union {nextSession} \in SUBSET SessionIds
          BY <1>1, <4>1
        <5>2. Cardinality(S1) <= Cardinality(S \union {nextSession})
          BY <1>3, <4>1, <5>1
        <5> QED
          BY <1>1, <1>3, <5>1, <5>2
      <4>3. PICK r \in Requests : req[r].pc = "session"
        BY <4>1 DEF Opens
      <4>4. Cardinality(T) + 1 <= N
        <5>1. r \notin T /\ T \union {r} \in SUBSET Requests
          BY <1>1, <1>10, <4>3
        <5>2. Cardinality(T \union {r}) = Cardinality(T) + 1
          BY <1>1, <1>2, <5>1
        <5> QED
          BY <1>2, <5>1, <5>2
      <4> QED
        BY <1>1, <1>2, <1>3, <1>4, <2>1, <4>2, <4>4
    <3> QED
      BY <3>1, <3>2
  <2>3. S1 \ L1 \in SUBSET S1 /\ T1 \ A \in SUBSET Requests
    BY <1>1
  <2>4. faults' * N = X + N
    BY <1>4, <1>11 DEF Err
  <2>5. Cardinality(S1 \ L1) <= Cardinality(S1) /\ Cardinality(S1 \ L1) \in Nat
    <3>1. S1 \ L1 \in SUBSET SessionIds
      BY <1>1
    <3> QED
      BY <1>1, <1>3, <2>3, <3>1
  <2>6. Cardinality(T1 \ A) \in Nat /\ Cardinality(S1) \in Nat
    BY <1>1, <1>2, <1>3, <2>3
  <2>7. Cardinality(S1 \ L1) <= Keep + Cardinality(T1 \ A) + (X + N)
    BY <1>2, <1>4, <2>2, <2>5, <2>6
  <2> QED
    BY <2>4, <2>7 DEF S1, T1, L1, N
<1>12. ASSUME Ok PROVE faults' * N = X
  BY <1>12 DEF Ok, X
<1>13. ASSUME Ok, NEW Y \in SUBSET SessionIds, S1 \ L1 \subseteq Y,
              NEW k \in Nat, k <= Cardinality(T1 \ A), Cardinality(Y) <= Keep + k + X
       PROVE  Cardinality(S1 \ L1) <= Keep + Cardinality(T1 \ A) + faults' * N
  <2>1. Cardinality(S1 \ L1) <= Cardinality(Y) /\ Cardinality(S1 \ L1) \in Nat
    <3>1. S1 \ L1 \in SUBSET Y /\ S1 \ L1 \in SUBSET SessionIds
      BY <1>1, <1>13
    <3> QED
      BY <1>3, <3>1
  <2>2. Cardinality(T1 \ A) \in Nat /\ Cardinality(Y) \in Nat
    <3>1. T1 \ A \in SUBSET Requests
      BY <1>1
    <3> QED
      BY <1>2, <1>3, <3>1
  <2>3. Cardinality(S1 \ L1) <= Keep + Cardinality(T1 \ A) + X
    BY <1>4, <1>13, <2>1, <2>2
  <2> QED
    BY <1>12, <1>13, <2>3
\* Nothing that concerns u changes, but sessions that end.
<1>14. ASSUME Ok, S1 \subseteq S, T1 = T, \A r \in A : req'[r] = req[r]
       PROVE  Cardinality(S1 \ L1) <= Keep + Cardinality(T1 \ A) + faults' * N
  <2>1. A \in SUBSET Revoking(u)
    BY <1>8, <1>10, <1>14
  <2>2. L1 = Listed(A)
    BY <1>9, <1>14 DEF Listed
  <2>3. Cardinality(S \ Listed(A)) <= Keep + Cardinality(T1 \ A) + X
    BY <1>5, <1>14, <2>1
  <2>4. S1 \ L1 \subseteq S \ Listed(A) /\ S \ Listed(A) \in SUBSET SessionIds
    BY <1>1, <1>14, <2>2
  <2>5. Cardinality(T1 \ A) \in Nat /\ Cardinality(T1 \ A) <= Cardinality(T1 \ A)
    <3>1. T1 \ A \in SUBSET Requests
      BY <1>1
    <3> QED
      BY <1>2, <3>1
  <2> QED
    BY <1>13, <1>14, <2>3, <2>4, <2>5
\* What is left when the listed sessions are gone is within the limit.
<1>15. ASSUME Ok, S1 \ L1 \subseteq S \ OldSessions(u)
       PROVE  Cardinality(S1 \ L1) <= Keep + Cardinality(T1 \ A) + faults' * N
  <2>1. Cardinality(S \ OldSessions(u)) <= Keep
    BY ListingLeavesKeep DEF S
  <2>2. S \ OldSessions(u) \in SUBSET SessionIds /\ T1 \ A \in SUBSET Requests
    BY <1>1
  <2>3. Cardinality(S \ OldSessions(u)) \in Nat /\ Cardinality(T1 \ A) \in Nat
    BY <1>2, <1>3, <2>2
  <2>4. /\ Cardinality(S \ OldSessions(u)) <= Keep + 0 + X
        /\ 0 \in Nat /\ 0 <= Cardinality(T1 \ A)
    BY <1>4, <2>1, <2>3
  <2> QED
    BY <1>13, <1>15, <2>2, <2>4
<1>16. CASE Ok /\ Quiet
  <2>1. S1 \subseteq S /\ \A r \in A : req'[r] = req[r]
    BY <1>7, <1>8, <1>16 DEF Quiet
  <2>2. \A r \in Requests : r \in T <=> r \in T1
    BY <1>10, <1>16 DEF Quiet
  <2>3. T1 = T
    BY <1>1, <2>2
  <2> QED
    BY <1>14, <1>16, <2>1, <2>3 DEF S1, T1, L1, N
<1>17. ASSUME Ok, NEW r \in Requests, Creates(r)
       PROVE  Cardinality(S1 \ L1) <= Keep + Cardinality(T1 \ A) + faults' * N
  <2>1. /\ \A p \in Requests : p # r => req'[p] = req[p]
        /\ req[r].pc = "session" /\ req'[r].pc = "list" /\ req'[r].user = req[r].user
        /\ sessions'[nextSession].user = req[r].user
    BY <1>17 DEF Creates, Carries, Becomes
  <2>2. r \notin A /\ \A p \in A : req'[p] = req[p]
    BY <1>8, <2>1
  <2>3. CASE req[r].user = u
    <3>1. A \in SUBSET Revoking(u) /\ L1 = Listed(A)
      BY <1>8, <1>9, <1>10, <2>2 DEF Listed
    <3>2. T1 = T \union {r} /\ r \notin T
      <4>1. \A p \in Requests : p \in T1 <=> p \in T \/ p = r
        BY <1>10, <2>1, <2>3
      <4>2. r \notin T
        BY <1>10, <2>1
      <4> QED
        BY <1>1, <4>1, <4>2
    <3>3. Cardinality(T1 \ A) = Cardinality(T \ A) + 1 /\ Cardinality(T \ A) \in Nat
      <4>1. T1 \ A = (T \ A) \union {r} /\ r \notin T \ A /\ T \ A \in SUBSET Requests
        BY <1>1, <2>2, <3>2
      <4> QED
        BY <1>2, <4>1
    <3>4. Cardinality(S \ L1) <= Keep + Cardinality(T \ A) + X /\ Cardinality(S \ L1) \in Nat
      <4>1. S \ L1 \in SUBSET SessionIds
        BY <1>1
      <4> QED
        BY <1>3, <1>5, <3>1, <4>1
    <3>5. CASE nextSession \in SessionIds
      <4> DEFINE Y == (S \ L1) \union {nextSession}
      <4>1. Y \in SUBSET SessionIds /\ S1 \ L1 \subseteq Y /\ S \ L1 \in SUBSET SessionIds
        BY <1>1, <1>6, <3>5
      <4>2. Cardinality(Y) <= Cardinality(S \ L1) + 1 /\ Cardinality(Y) \in Nat
        BY <1>3, <3>4, <4>1
      <4>3. Cardinality(Y) <= Keep + Cardinality(T1 \ A) + X
        BY <1>4, <3>3, <3>4, <4>2
      <4>4. Cardinality(T1 \ A) \in Nat /\ Cardinality(T1 \ A) <= Cardinality(T1 \ A)
        BY <3>3
      <4> HIDE DEF Y
      <4> QED
        BY <1>13, <1>17, <4>1, <4>3, <4>4
    <3>6. CASE nextSession \notin SessionIds
      <4>1. S1 \ L1 \subseteq S \ L1 /\ S \ L1 \in SUBSET SessionIds
        BY <1>1, <1>6, <3>6
      <4>2. Cardinality(T \ A) <= Cardinality(T1 \ A)
        BY <3>3
      <4> QED
        BY <1>13, <1>17, <3>3, <3>4, <4>1, <4>2
    <3> QED
      BY <3>5, <3>6
  <2>4. CASE req[r].user # u
    <3>1. S1 \subseteq S
      BY <1>6, <2>1, <2>4
    <3>2. \A p \in Requests : p \in T <=> p \in T1
      BY <1>10, <2>1, <2>4
    <3>3. T1 = T
      BY <1>1, <3>2
    <3> QED
      BY <1>14, <1>17, <2>2, <3>1, <3>3
  <2> QED
    BY <2>3, <2>4
<1>18. ASSUME Ok, NEW r \in Requests, ListsNone(r)
       PROVE  Cardinality(S1 \ L1) <= Keep + Cardinality(T1 \ A) + faults' * N
  <2>1. /\ \A p \in Requests : p # r => req'[p] = req[p]
        /\ req[r].pc = "list" /\ req'[r].pc = "idle" /\ OldSessions(req[r].user) = {}
        /\ S1 \subseteq S
    BY <1>7, <1>18 DEF ListsNone, Ends, Carries, Becomes
  <2>2. CASE req[r].user = u
    BY <1>15, <1>18, <2>1, <2>2
  <2>3. CASE req[r].user # u
    <3>1. \A p \in Requests : p \in T <=> p \in T1
      BY <1>10, <2>1, <2>3
    <3>2. T1 = T /\ \A p \in A : req'[p] = req[p]
      BY <1>1, <1>8, <2>1, <3>1
    <3> QED
      BY <1>14, <1>18, <2>1, <3>2
  <2> QED
    BY <2>2, <2>3
<1>19. ASSUME Ok, NEW r \in Requests, Lists(r)
       PROVE  Cardinality(S1 \ L1) <= Keep + Cardinality(T1 \ A) + faults' * N
  <2>1. /\ \A p \in Requests : p # r => req'[p] = req[p]
        /\ req[r].pc = "list" /\ req'[r].pc = "revoke" /\ req'[r].user = req[r].user
        /\ req'[r].old = OldSessions(req[r].user) /\ S1 \subseteq S
    BY <1>7, <1>19 DEF Lists, Becomes
  <2>2. CASE r \in A
    <3>1. req[r].user = u /\ OldSessions(u) \subseteq L1
      BY <1>8, <1>9, <2>1, <2>2
    <3> QED
      BY <1>15, <1>19, <2>1, <3>1
  <2>3. CASE r \notin A
    <3>1. \A p \in Requests : p \in T <=> p \in T1
      BY <1>10, <2>1
    <3>2. T1 = T /\ \A p \in A : req'[p] = req[p]
      BY <1>1, <1>8, <2>1, <2>3, <3>1
    <3> QED
      BY <1>14, <1>19, <2>1, <3>2
  <2> QED
    BY <2>2, <2>3
<1>20. ASSUME Ok, NEW r \in Requests, Revokes(r)
       PROVE  Cardinality(S1 \ L1) <= Keep + Cardinality(T1 \ A) + faults' * N
  <2>1. /\ \A p \in Requests : p # r => req'[p] = req[p]
        /\ req[r].pc = "revoke" /\ req'[r].pc = "idle" /\ S1 \subseteq S
        /\ sessions' = Revoke(req[r].old)
    BY <1>7, <1>20 DEF Revokes, Ends, Carries, Becomes
  <2>2. r \notin A /\ \A p \in A : req'[p] = req[p]
    BY <1>8, <2>1
  <2>3. CASE req[r].user = u
    <3> DEFINE B == A \union {r}
    <3>1. B \in SUBSET Revoking(u)
      BY <1>8, <1>10, <2>1, <2>2, <2>3
    <3>2. Listed(B) = L1 \union req[r].old
      BY <1>9, <2>2 DEF Listed
    <3>3. \A s \in S1 : s \notin req[r].old
      <4> SUFFICES ASSUME NEW s \in S1, s \in req[r].old PROVE FALSE
        OBVIOUS
      <4>1. s \in SessionIds /\ sessions'[s].status = "live" /\ sessions[s].status = "live"
        BY <1>1, <2>1 DEF S, S1, SessionsOf, live
      <4>2. sessions'[s] = Ended(s, "revoked")
        BY <2>1, <4>1 DEF Revoke
      <4> QED
        BY <4>1, <4>2 DEF Ended
    <3>4. S1 \ L1 \subseteq S \ Listed(B) /\ S \ Listed(B) \in SUBSET SessionIds
      BY <1>1, <2>1, <3>2, <3>3
    <3>5. T \ B \subseteq T1 \ A
      <4>1. \A p \in Requests : p \in T /\ p # r => p \in T1
        BY <1>10, <2>1
      <4> QED
        BY <1>1, <4>1
    <3>6. Cardinality(T \ B) <= Cardinality(T1 \ A) /\ Cardinality(T \ B) \in Nat
      <4>1. T \ B \in SUBSET (T1 \ A) /\ T1 \ A \in SUBSET Requests /\ T \ B \in SUBSET Requests
        BY <1>1, <3>5
      <4> QED
        BY <1>2, <4>1
    <3>7. Cardinality(S \ Listed(B)) <= Keep + Cardinality(T \ B) + X
      BY <1>5, <3>1
    <3> HIDE DEF B
    <3> QED
      BY <1>13, <1>20, <3>4, <3>6, <3>7
  <2>4. CASE req[r].user # u
    <3>1. \A p \in Requests : p \in T <=> p \in T1
      BY <1>10, <2>1, <2>4
    <3>2. T1 = T
      BY <1>1, <3>1
    <3> QED
      BY <1>14, <1>20, <2>1, <2>2, <3>2
  <2> QED
    BY <2>3, <2>4
<1>21. CASE Ok
  <2>1. Cardinality(S1 \ L1) <= Keep + Cardinality(T1 \ A) + faults' * N \/ Err
    BY <1>16, <1>17, <1>18, <1>19, <1>20, <1>21, TrimCases DEF S1, T1, L1, N
  <2> QED
    BY <1>11, <2>1 DEF S1, T1, L1, N
<1> QED
  BY <1>11, <1>21, OkOrErr

\* Every step preserves the bound.
LEMMA TrimInvStep == IdentityInv /\ TrimInv /\ [Next]_vars => TrimInv'
<1> SUFFICES ASSUME IdentityInv, TrimInv, [Next]_vars, NEW u \in Ids, NEW A \in SUBSET Revoking(u)'
             PROVE  Cardinality(SessionsOf(u)' \ Listed(A)')
                    <= Keep + Cardinality(Trimming(u)' \ A) + faults' * Cardinality(Requests)
  BY DEF TrimInv
<1>1. TypeOK /\ RequestInv /\ FreshInv
  BY DEF IdentityInv
<1> QED
  BY <1>1, TrimStep

\* There are no sessions at first.
LEMMA TrimInvInit == Init => TrimInv
<1> SUFFICES ASSUME Init, NEW u \in Ids, NEW A \in SUBSET Revoking(u)
             PROVE  Cardinality(SessionsOf(u) \ Listed(A))
                    <= Keep + Cardinality(Trimming(u) \ A) + faults * Cardinality(Requests)
  BY DEF TrimInv
<1>1. SessionsOf(u) = {}
  BY DEF Init, SessionsOf, live
<1>2. Trimming(u) = {}
  BY IdleRecord DEF Init, Trimming
<1>3. SessionsOf(u) \ Listed(A) = {} /\ Trimming(u) \ A = {}
  BY <1>1, <1>2
<1>4. Cardinality({}) = 0
  BY FS_EmptySet
<1>5. faults * Cardinality(Requests) = 0 /\ Keep \in Nat
  <2>1. Cardinality(Requests) \in Nat /\ faults = 0
    BY FS_CardinalityType, IdentityAssumption DEF Init
  <2> QED
    BY <2>1, IdentityAssumption
<1> QED
  BY <1>3, <1>4, <1>5

\* However many logins trim a user's sessions at once, RevokeOldUserSessions leaves
\* at most Keep, one for each login that has not revoked yet, and those of faults.
THEOREM SessionsAreLimited == Spec => []SessionsWithinLimit
<1>1. IdentityInv /\ TrimInv /\ [Next]_vars => (IdentityInv /\ TrimInv)'
  BY IdentityInvStep, TrimInvStep
<1>2. IdentityInv /\ TrimInv => SessionsWithinLimit
  <2> SUFFICES ASSUME TrimInv, NEW u \in Ids
               PROVE  Cardinality(SessionsOf(u))
                      <= Keep + Cardinality(Trimming(u)) + faults * Cardinality(Requests)
    BY DEF SessionsWithinLimit, Trimming
  <2>1. {} \in SUBSET Revoking(u) /\ SessionsOf(u) \ Listed({}) = SessionsOf(u)
        /\ Trimming(u) \ {} = Trimming(u)
    BY DEF Listed
  <2> QED
    BY <2>1 DEF TrimInv
<1> QED
  BY <1>1, <1>2, IdentityInvInit, TrimInvInit, PTL DEF Spec
=============================================================================
