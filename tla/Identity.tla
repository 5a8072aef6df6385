------------------------------ MODULE Identity ------------------------------
(***************************************************************************)
(* Users, accounts, OAuth identities and sessions of the API server.       *)
(* Signup and a first OAuth login provision an account and its user with   *)
(* three inserts and compensating deletes; login, OAuth callback, refresh  *)
(* and logout then work on sessions.                                       *)
(*                                                                         *)
(* One step is one MongoDB call of one request, so requests interleave     *)
(* between a read and the write that relies on it.  A call may fail, a     *)
(* failed write may have been applied, and the server may die: each counts *)
(* as one of at most MaxFaults faults.  Requests the handlers refuse       *)
(* without touching the store are not steps.  An access token and the      *)
(* refresh token generated with it share one number; sessions are numbered *)
(* in the order of created_at.                                             *)
(***************************************************************************)
EXTENDS Naturals, FiniteSets

CONSTANTS
    Emails,       \* normalized e-mail addresses
    NoEmail,      \* a profile without e-mail
    Externals,    \* OAuth identities: a provider and its user id
    NoExternal,   \* a user with a password instead
    Requests,     \* requests in flight at the same time
    Keep,         \* sessions a user keeps, 10 in the code
    MaxUsers, MaxSessions, MaxTokens,  \* bounds: generated ids
    MaxFaults     \* bound: failed calls and crashes of a behaviour

ASSUME IdentityAssumption ==
    /\ NoEmail \notin Emails /\ NoExternal \notin Externals
    /\ IsFiniteSet(Requests)
    /\ Keep \in Nat \ {0}
    /\ MaxUsers \in Nat /\ MaxSessions \in Nat /\ MaxTokens \in Nat
    /\ MaxFaults \in Nat

VARIABLES
    users,        \* the users collection
    accounts,     \* the accounts collection; user n belongs to account n
    identities,   \* the oauth_identities collection
    sessions,     \* the sessions collection
    req,          \* what each request does next, with its local variables
    nextId, nextSession, nextToken,  \* ids not generated yet
    lostUser,     \* users stored or kept although the call reported an error
    lostLink,     \* users whose first identity insert reported an error
    faults        \* failed calls and crashes so far

vars == <<users, accounts, identities, sessions, req, nextId, nextSession,
          nextToken, lostUser, lostLink, faults>>

Ids == 1..MaxUsers
SessionIds == 1..MaxSessions
Tokens == 1..MaxTokens

User == [id : Ids, email : Emails \union {NoEmail}, via : Externals \union {NoExternal}]
Link == [external : Externals, user : Ids, email : Emails \union {NoEmail},
         verified : BOOLEAN]
Session == [status : {"none", "live", "revoked", "gone"}, user : 0..MaxUsers,
            access : 0..MaxTokens, refresh : 0..MaxTokens,
            age : {"fresh", "stale", "expired"}]
Steps == {"idle", "account", "user", "linkNew", "undoUser", "undoAccount",
          "byEmail", "create", "link", "userById", "getAccount", "session",
          "list", "revoke", "rotate", "logout"}
Request == [pc : Steps, email : Emails \union {NoEmail},
            external : Externals \union {NoExternal}, verified : BOOLEAN,
            user : 0..MaxUsers, session : 0..MaxSessions, token : 0..MaxTokens,
            old : SUBSET SessionIds]

Idle == [pc |-> "idle", email |-> NoEmail, external |-> NoExternal,
         verified |-> FALSE, user |-> 0, session |-> 0, token |-> 0, old |-> {}]

Init ==
    /\ users = {} /\ accounts = {} /\ identities = {}
    /\ sessions = [s \in SessionIds |-> [status |-> "none", user |-> 0, access |-> 0,
                                         refresh |-> 0, age |-> "fresh"]]
    /\ req = [r \in Requests |-> Idle]
    /\ nextId = 1 /\ nextSession = 1 /\ nextToken = 1
    /\ lostUser = {} /\ lostLink = {} /\ faults = 0

\* The two ways a call to MongoDB can end.
Ok  == UNCHANGED faults
Err == faults < MaxFaults /\ faults' = faults + 1

Become(r, q) == req' = [req EXCEPT ![r] = q]
Goto(r, step) == Become(r, [req[r] EXCEPT !.pc = step])
Done(r) == Become(r, Idle)
Undo(r, step) == Become(r, [Idle EXCEPT !.pc = step, !.user = req[r].user])

idVars == <<nextId, nextSession, nextToken>>
lostVars == <<lostUser, lostLink>>
peopleVars == <<users, accounts, identities>>

FindUserByEmail(e) == {u \in users : u.email = e}
UserExists(n) == \E u \in users : u.id = n
findOAuthIdentity(x) == {l \in identities : l.external = x}
-----------------------------------------------------------------------------
(* Provisioning: CreateAccountWithAdminUser and createAccountWithOAuthUser *)

\* handleSignup with a valid address and password: a known user is a 409.
Signup(r, e) ==
    /\ req[r].pc = "idle" /\ FindUserByEmail(e) = {}
    /\ Become(r, [Idle EXCEPT !.pc = "account", !.email = e])
    /\ UNCHANGED <<peopleVars, sessions, idVars, lostVars, faults>>

InsertAccount(r) ==
    /\ req[r].pc = "account" /\ nextId <= MaxUsers
    /\ nextId' = nextId + 1
    /\ \/ /\ Ok /\ accounts' = accounts \union {nextId}
          /\ Become(r, [req[r] EXCEPT !.pc = "user", !.user = nextId])
       \/ Err /\ accounts' \in {accounts, accounts \union {nextId}} /\ Done(r)
    /\ UNCHANGED <<users, identities, sessions, nextSession, nextToken, lostVars>>

\* Mutant: no unique index on the address.
AnyAddressFree(q) == TRUE

AddressFree(q) == FindUserByEmail(q.email) = {}

\* Mutant: the provider's id stands in for a missing address.
NewUserByExternal(q) ==
    [id |-> q.user, via |-> q.external,
     email |-> IF q.email = NoEmail THEN q.external ELSE q.email]

NewUser(q) == [id |-> q.user, email |-> q.email, via |-> q.external]

\* The index users_email_unique refuses a second user of an address, the
\* empty one included; every error removes the account.
InsertUser(r) ==
    /\ req[r].pc = "user"
    /\ LET q == req[r]
           new == NewUser(q)
           free == AddressFree(q)
       IN  \/ /\ Ok /\ free /\ users' = users \union {new} /\ UNCHANGED lostUser
              /\ Goto(r, IF q.external = NoExternal THEN "session" ELSE "linkNew")
           \/ /\ Ok /\ ~free /\ UNCHANGED <<users, lostUser>>
              /\ Undo(r, "undoAccount")
           \/ /\ Err /\ UNCHANGED <<users, lostUser>> /\ Undo(r, "undoAccount")
           \/ /\ Err /\ free /\ users' = users \union {new}
              /\ lostUser' = lostUser \union {q.user}
              /\ Undo(r, "undoAccount")
    /\ UNCHANGED <<accounts, identities, sessions, idVars, lostLink>>

\* Mutant: the user stays when its identity cannot be stored.
LinkFailedKeepsUser(r) ==
    IF req[r].pc = "linkNew" THEN Undo(r, "undoAccount") ELSE Done(r)

\* Mutant: undoes a user it has only found.
LinkFailedUndoesAny(r) == Undo(r, "undoUser")

\* Only a callback that has just provisioned the user undoes its work.
LinkFailed(r) == IF req[r].pc = "linkNew" THEN Undo(r, "undoUser") ELSE Done(r)

\* linkOAuthIdentity.  The index on provider and provider_user_id refuses a
\* second identity; the code counts that as linked.
linkOAuthIdentity(r) ==
    /\ req[r].pc \in {"link", "linkNew"}
    /\ LET q == req[r]
           created == q.pc = "linkNew"
           free == findOAuthIdentity(q.external) = {}
           new == [external |-> q.external, user |-> q.user, email |-> q.email,
                   verified |-> q.verified]
       IN  \/ /\ Ok /\ UNCHANGED lostLink
              /\ identities' = IF free THEN identities \union {new} ELSE identities
              /\ Become(r, [q EXCEPT !.pc = IF created THEN "session" ELSE "getAccount",
                                     !.verified = FALSE])
           \/ /\ Err
              /\ identities' \in {identities} \union
                                 (IF free THEN {identities \union {new}} ELSE {})
              /\ lostLink' = IF created THEN lostLink \union {q.user} ELSE lostLink
              /\ LinkFailed(r)
    /\ UNCHANGED <<users, accounts, sessions, idVars, lostUser>>

UndoUser(r) ==
    /\ req[r].pc = "undoUser"
    /\ \/ Ok /\ users' = {u \in users : u.id # req[r].user} /\ UNCHANGED lostUser
       \/ /\ Err /\ users' \in {users, {u \in users : u.id # req[r].user}}
          /\ lostUser' = lostUser \union {req[r].user}
    /\ Undo(r, "undoAccount")
    /\ UNCHANGED <<accounts, identities, sessions, idVars, lostLink>>

UndoAccount(r) ==
    /\ req[r].pc = "undoAccount"
    /\ \/ Ok /\ accounts' = accounts \ {req[r].user}
       \/ Err /\ accounts' \in {accounts, accounts \ {req[r].user}}
    /\ Done(r)
    /\ UNCHANGED <<users, identities, sessions, idVars, lostVars>>
-----------------------------------------------------------------------------
(* handleLogin and handleOAuthCallback *)

\* The right password for a user who has one.
Login(r, u) ==
    /\ req[r].pc = "idle" /\ u \in users /\ u.via = NoExternal
    /\ Become(r, [Idle EXCEPT !.pc = "getAccount", !.user = u.id])
    /\ UNCHANGED <<peopleVars, sessions, idVars, lostVars, faults>>

\* The address and its verification as fetchOAuthProfile reports them: it may
\* be missing or unverified, and GitHub's is the public, unverified one when
\* the list of addresses cannot be read.
Profiles == {p \in (Emails \union {NoEmail}) \X BOOLEAN : p[2] => p[1] # NoEmail}

\* A callback whose state cookie matches.
OAuthCallback(r, x, e, verified) ==
    /\ req[r].pc = "idle" /\ <<e, verified>> \in Profiles
    /\ LET linked == findOAuthIdentity(x)
           q == [Idle EXCEPT !.external = x, !.email = e, !.verified = verified]
       IN  IF linked # {}
             THEN \E l \in linked :
                    Become(r, [Idle EXCEPT !.pc = "userById", !.user = l.user])
             ELSE Become(r, [q EXCEPT !.pc = IF e = NoEmail THEN "account"
                                                            ELSE "byEmail"])
    /\ UNCHANGED <<peopleVars, sessions, idVars, lostVars, faults>>

\* Mutant: an unverified address links as well.
MayLinkAny(q) == TRUE

MayLink(q) == q.verified

\* decideOAuthAction for an identity that is not known yet.
OAuthByEmail(r) ==
    /\ req[r].pc = "byEmail"
    /\ LET found == FindUserByEmail(req[r].email) IN
        \/ /\ found # {} /\ MayLink(req[r])
           /\ \E u \in found :
                Become(r, [req[r] EXCEPT !.pc = "link", !.user = u.id])
        \/ found # {} /\ ~MayLink(req[r]) /\ Done(r)
        \/ found = {} /\ Goto(r, "create")
    /\ UNCHANGED <<peopleVars, sessions, idVars, lostVars, faults>>

\* createAccountWithOAuthUser looks the address up again.
OAuthCreate(r) ==
    /\ req[r].pc = "create"
    /\ IF FindUserByEmail(req[r].email) = {} THEN Goto(r, "account") ELSE Done(r)
    /\ UNCHANGED <<peopleVars, sessions, idVars, lostVars, faults>>

findUserByID(r) ==
    /\ req[r].pc = "userById"
    /\ IF UserExists(req[r].user) THEN Goto(r, "getAccount") ELSE Done(r)
    /\ UNCHANGED <<peopleVars, sessions, idVars, lostVars, faults>>

GetAccount(r) ==
    /\ req[r].pc = "getAccount"
    /\ IF req[r].user \in accounts THEN Goto(r, "session") ELSE Done(r)
    /\ UNCHANGED <<peopleVars, sessions, idVars, lostVars, faults>>

\* A lookup that fails ends the request.
LookupFails(r) ==
    /\ req[r].pc \in {"byEmail", "create", "userById", "getAccount"}
    /\ Err /\ Done(r)
    /\ UNCHANGED <<peopleVars, sessions, idVars, lostVars>>
-----------------------------------------------------------------------------
(* Sessions *)

live(s) == sessions[s].status = "live"

NewSession(u) == [status |-> "live", user |-> u, access |-> nextToken,
                  refresh |-> nextToken, age |-> "fresh"]

\* createSessionResponse: CreateSession, then RevokeOldUserSessions, whose
\* error is ignored.
CreateSession(r) ==
    /\ req[r].pc = "session" /\ nextSession <= MaxSessions /\ nextToken <= MaxTokens
    /\ nextSession' = nextSession + 1 /\ nextToken' = nextToken + 1
    /\ LET new == NewSession(req[r].user)
       IN  \/ /\ Ok /\ sessions' = [sessions EXCEPT ![nextSession] = new]
              /\ Become(r, [Idle EXCEPT !.pc = "list", !.user = req[r].user])
           \/ /\ Err /\ Done(r)
              /\ sessions' \in {sessions, [sessions EXCEPT ![nextSession] = new]}
    /\ UNCHANGED <<peopleVars, nextId, lostVars>>

SessionsOf(u) == {s \in SessionIds : live(s) /\ sessions[s].user = u}

\* Mutant: skips one session too many.
OldSessionsOneMore(u) ==
    {s \in SessionsOf(u) : Cardinality({t \in SessionsOf(u) : s < t}) > Keep}

\* The unrevoked sessions of the user, newest first, without the first Keep.
OldSessions(u) ==
    {s \in SessionsOf(u) : Cardinality({t \in SessionsOf(u) : s < t}) >= Keep}

\* RevokeOldUserSessions, first call.
ListOldSessions(r) ==
    /\ req[r].pc = "list"
    /\ LET old == OldSessions(req[r].user)
       IN  \/ Ok /\ old = {} /\ Done(r)
           \/ Ok /\ old # {} /\ Become(r, [req[r] EXCEPT !.pc = "revoke", !.old = old])
           \/ Err /\ Done(r)
    /\ UNCHANGED <<peopleVars, sessions, idVars, lostVars>>

\* No filter reads the tokens and expiries of such a session any more.
Ended(s, status) == [status |-> status, user |-> sessions[s].user, access |-> 0,
                     refresh |-> 0, age |-> "expired"]

Revoke(S) == [s \in SessionIds |->
                IF s \in S /\ sessions[s].status # "gone"
                  THEN Ended(s, "revoked") ELSE sessions[s]]

\* RevokeOldUserSessions, second call; a failed UpdateMany may have stopped
\* anywhere.
RevokeOldSessions(r) ==
    /\ req[r].pc = "revoke"
    /\ \/ Ok /\ sessions' = Revoke(req[r].old)
       \/ Err /\ \E S \in SUBSET req[r].old : sessions' = Revoke(S)
    /\ Done(r)
    /\ UNCHANGED <<peopleVars, idVars, lostVars>>

\* findSessionIdentity with the filter of an access or of a refresh token.  Its
\* reads of session, user and account are one step: the last two only disappear
\* when a provisioning is undone.
Accepts(s) == live(s) /\ UserExists(sessions[s].user) /\ sessions[s].user \in accounts
AcceptsAccess(t) == \E s \in SessionIds :
    Accepts(s) /\ sessions[s].access = t /\ sessions[s].age = "fresh"
AcceptsRefresh(t) == \E s \in SessionIds :
    Accepts(s) /\ sessions[s].refresh = t /\ sessions[s].age # "expired"

\* handleRefresh with the refresh token t in the cookie.
Refresh(r, t) ==
    /\ req[r].pc = "idle" /\ t < nextToken /\ AcceptsRefresh(t)
    /\ \E s \in SessionIds :
        /\ Accepts(s) /\ sessions[s].refresh = t
        /\ Become(r, [Idle EXCEPT !.pc = "rotate", !.session = s])
    /\ UNCHANGED <<peopleVars, sessions, idVars, lostVars, faults>>

\* Mutant: replaces the document the handler read before.
RotatedWhole(s) ==
    [sessions EXCEPT ![s].access = nextToken, ![s].refresh = nextToken,
                     ![s].age = "fresh", ![s].status = "live"]

\* Mutant: the refresh token stays.
RotatedAccess(s) ==
    IF live(s) THEN [sessions EXCEPT ![s].access = nextToken, ![s].age = "fresh"]
               ELSE sessions

\* The filter is the session id and revoked_at: neither the token that was
\* presented nor its expiry is checked again.
Rotated(s) ==
    IF live(s) THEN [sessions EXCEPT ![s].access = nextToken,
                         ![s].refresh = nextToken, ![s].age = "fresh"]
               ELSE sessions

RotateSessionTokens(r) ==
    /\ req[r].pc = "rotate" /\ nextToken <= MaxTokens
    /\ nextToken' = nextToken + 1
    /\ \/ Ok /\ sessions' = Rotated(req[r].session)
       \/ Err /\ sessions' \in {sessions, Rotated(req[r].session)}
    /\ Done(r)
    /\ UNCHANGED <<peopleVars, nextId, nextSession, lostVars>>

\* handleLogout runs behind Authenticate, which accepts the access token a;
\* the cookie holds the refresh token t, of this or of another session (with
\* a token no session holds any more the handler changes nothing).
Logout(r, a, t) ==
    /\ req[r].pc = "idle" /\ a < nextToken /\ AcceptsAccess(a)
    /\ \E s \in SessionIds : live(s) /\ sessions[s].refresh = t
    /\ Become(r, [Idle EXCEPT !.pc = "logout", !.token = t])
    /\ UNCHANGED <<peopleVars, sessions, idVars, lostVars, faults>>

RevokeSessionByRefreshTokenHash(r) ==
    /\ req[r].pc = "logout"
    /\ LET held == {s \in SessionIds : live(s) /\ sessions[s].refresh = req[r].token} IN
        \/ Ok /\ sessions' = Revoke(held)
        \/ Err /\ sessions' \in {sessions, Revoke(held)}
    /\ Done(r)
    /\ UNCHANGED <<peopleVars, idVars, lostVars>>
-----------------------------------------------------------------------------
(* The environment *)

\* access_expires_at passes, later refresh_expires_at.
Expire(s) ==
    /\ live(s) /\ sessions[s].age # "expired"
    /\ sessions' = [sessions EXCEPT ![s].age =
                      IF @ = "fresh" THEN "stale" ELSE "expired"]
    /\ UNCHANGED <<peopleVars, req, idVars, lostVars, faults>>

\* The TTL index on refresh_expires_at removes the document.
RemoveExpired(s) ==
    /\ live(s) /\ sessions[s].age = "expired"
    /\ sessions' = [sessions EXCEPT ![s] = Ended(s, "gone")]
    /\ UNCHANGED <<peopleVars, req, idVars, lostVars, faults>>

\* The API server dies with the requests it was serving.
Crash ==
    /\ \E r \in Requests : req[r] # Idle
    /\ Err /\ req' = [r \in Requests |-> Idle]
    /\ UNCHANGED <<peopleVars, sessions, idVars, lostVars>>

Next ==
    \/ \E r \in Requests :
        \/ \E e \in Emails : Signup(r, e)
        \/ InsertAccount(r) \/ InsertUser(r) \/ linkOAuthIdentity(r)
        \/ UndoUser(r) \/ UndoAccount(r)
        \/ \E u \in users : Login(r, u)
        \/ \E x \in Externals, e \in Emails \union {NoEmail}, v \in BOOLEAN :
              OAuthCallback(r, x, e, v)
        \/ OAuthByEmail(r) \/ OAuthCreate(r) \/ findUserByID(r) \/ GetAccount(r)
        \/ LookupFails(r)
        \/ CreateSession(r) \/ ListOldSessions(r) \/ RevokeOldSessions(r)
        \/ \E t \in Tokens : Refresh(r, t)
        \/ RotateSessionTokens(r)
        \/ \E a, t \in Tokens : Logout(r, a, t)
        \/ RevokeSessionByRefreshTokenHash(r)
    \/ \E s \in SessionIds : Expire(s) \/ RemoveExpired(s)
    \/ Crash

Spec == Init /\ [][Next]_vars
-----------------------------------------------------------------------------
TypeOK ==
    /\ users \subseteq User /\ accounts \subseteq Ids /\ identities \subseteq Link
    /\ sessions \in [SessionIds -> Session] /\ req \in [Requests -> Request]
    /\ nextId \in 1..(MaxUsers + 1) /\ nextSession \in 1..(MaxSessions + 1)
    /\ nextToken \in 1..(MaxTokens + 1)
    /\ lostUser \subseteq Ids /\ lostLink \subseteq Ids /\ faults \in 0..MaxFaults

\* A user never outlives its account, whatever requests, failed calls and
\* crashes interleave, unless the store itself misreported the user's insert
\* or delete: such a user can neither log in nor sign up again.  The order of
\* the compensating deletes of createAccountWithOAuthUser is what it rests on.
UserHasAccount == \A u \in users : u.id \in accounts \/ u.id \in lostUser

\* The identity a callback trusts leads to a stored user.  The exception is
\* exactly the user whose first identity insert failed: its undo deletes the
\* user although another callback may have found it by e-mail and linked it.
IdentityHasUser == \A l \in identities : UserExists(l.user) \/ l.user \in lostLink

\* The linking policy of decideOAuthAction survives every race between
\* looking an address up, creating its user and storing the identity: an
\* identity belongs to the user of the address it came with, and the address
\* was verified unless the user was created for that very identity.
VerifiedLink ==
    \A l \in identities, u \in users :
        u.id = l.user => u.email = l.email /\ (l.verified \/ u.via = l.external)

\* linkOAuthIdentity treats a duplicate as linked without reading whose it
\* is.  Two callbacks of one identity with one address still log in as the
\* user the identity is stored for, unless that user is being undone.
DuplicateLinkIsSameUser ==
    \A r \in Requests, l \in identities :
        ( /\ req[r].pc \in {"getAccount", "session"}
          /\ req[r].external = l.external /\ req[r].email = l.email
          /\ UserExists(req[r].user) )
        => (req[r].user = l.user \/ l.user \in lostLink)

\* RevokeOldUserSessions is two calls, so concurrent logins may leave more
\* than Keep sessions: one for each login that has not revoked yet, and those
\* a fault left behind, never more.
SessionsWithinLimit ==
    \A u \in Ids :
        Cardinality(SessionsOf(u))
        <= Keep + Cardinality({r \in Requests : req[r].pc \in {"list", "revoke"}
                                                /\ req[r].user = u})
                + faults * Cardinality(Requests)

\* A session that was revoked, or removed after its expiry, never comes
\* back: not by a refresh that found it before, not by a late write.
EndedSessionStaysEnded ==
    [][\A s \in SessionIds : sessions[s].status \in {"revoked", "gone"}
                              => sessions'[s].status = sessions[s].status]_vars

\* A token that was handed out and is refused once is refused for ever: by
\* rotation, revocation, expiry and the deletion of its user, also when two
\* refreshes with one token race and when a rotation outlives the expiry.
RefusedTokenStaysRefused ==
    [][\A t \in 1..(nextToken - 1) :
        /\ ~AcceptsAccess(t) => ~AcceptsAccess(t)'
        /\ ~AcceptsRefresh(t) => ~AcceptsRefresh(t)']_vars
=============================================================================
