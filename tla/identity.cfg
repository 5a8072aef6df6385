SPECIFICATION Spec
CONSTANTS
    Emails = {e1}
    NoEmail = NoEmail
    Externals = {x1}
    NoExternal = NoExternal
    Requests = {r1, r2}
    Keep = 1
    MaxUsers = 2
    MaxSessions = 2
    MaxTokens = 3
    MaxFaults = 1
SYMMETRY Symmetry
CHECK_DEADLOCK FALSE
INVARIANT TypeOK
INVARIANT UserHasAccount
INVARIANT IdentityHasUser
INVARIANT VerifiedLink
INVARIANT DuplicateLinkIsSameUser
INVARIANT SessionsWithinLimit
PROPERTY EndedSessionStaysEnded
PROPERTY RefusedTokenStaysRefused
