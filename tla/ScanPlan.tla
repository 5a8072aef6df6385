------------------------------ MODULE ScanPlan ------------------------------
(***************************************************************************)
(* How a scan of an endpoint is planned: the registered test types, which  *)
(* of them apply to the endpoint, which of those a suite request selects,  *)
(* whether the target may be scanned, and the configuration of one test.   *)
(* Operators only.                                                         *)
(*                                                                         *)
(* A target is what is known of the endpoint: its path, method, base URL,  *)
(* body and, by name, the stored fields of its headers.  A token is its    *)
(* kind ("jwt", "unsigned": a JWT without a signature, "odd": three parts  *)
(* that do not decode, "opaque", or "") and where it comes from.  Requests *)
(* carry a token per role and the older single attacker token.             *)
(***************************************************************************)
EXTENDS Naturals, Sequences, FiniteSets

-----------------------------------------------------------------------------
(* Templates and suites. *)

Template(fields, auth, attacker) ==
    [fields |-> fields, auth |-> auth, attacker |-> attacker]

Injections == {"REFLECTED_XSS", "SQL_INJECTION", "COMMAND_INJECTION", "SSRF"}
BaseURLChecks == {"SWAGGER_CHECK", "EXPOSED_METRICS"}
JWTTests == {"JWT_NONE_ALGO", "JWT_INVALID_SIGNATURE"}
PathTests == Injections \union {"BROKEN_USER_AUTH", "OPEN_REDIRECT", "SSRF_BLIND_OOB",
                                "CORS_MISCONFIGURATION", "DEFAULT_CREDENTIALS"}
AttackerTests == {"BOLA", "BOLA_CHAINED_ENUMERATION", "BOLA_PARAMETER_POLLUTION"}
CommunityTests == {"COMMUNITY_EXPOSED_CONFIG_FILES"}
BuiltIn == PathTests \union BaseURLChecks \union JWTTests \union AttackerTests
               \union {"BFLA", "MASS_ASSIGNMENT"}

\* The registry: the built-in templates and the community directory's.
Registry == [t \in BuiltIn \union CommunityTests |->
    CASE t \in {"BOLA", "BOLA_CHAINED_ENUMERATION"} ->
            Template({"headers.authorization", "path"}, TRUE, TRUE)
      [] t = "BOLA_PARAMETER_POLLUTION" ->
            Template({"headers.authorization", "body"}, TRUE, TRUE)
      [] t \in JWTTests -> Template({"headers.authorization"}, TRUE, FALSE)
      [] t = "MASS_ASSIGNMENT" -> Template({"path", "body"}, TRUE, FALSE)
      [] t = "BFLA" -> Template({"method", "path"}, FALSE, FALSE)
      [] t \in BaseURLChecks -> Template({"base_url"}, FALSE, FALSE)
      [] t \in PathTests -> Template({"path"}, FALSE, FALSE)
      [] t \in CommunityTests -> Template({}, FALSE, FALSE)]

\* The presets of a suite request, without FULL.
SuitePresets ==
    [OWASP_API_TOP_10 |-> BuiltIn,
     ACCESS_CONTROL   |-> AttackerTests \union {"BFLA", "MASS_ASSIGNMENT"},
     AUTHENTICATION   |-> JWTTests \union {"BROKEN_USER_AUTH", "DEFAULT_CREDENTIALS"},
     INJECTION        |-> (Injections \ {"SSRF"}) \union {"OPEN_REDIRECT"},
     SSRF             |-> {"SSRF", "SSRF_BLIND_OOB"},
     MISCONFIGURATION |-> BaseURLChecks \union {"CORS_MISCONFIGURATION"}]

\* Mutant: keeps unknown test types.
FilterNothing(types) == types

\* A test type no template is registered for is dropped silently.
FilterRegistered(types) == types \intersect DOMAIN Registry

-----------------------------------------------------------------------------
(* Tokens. *)

Roles == {"attacker", "victim", "admin"}
NoToken == [kind |-> "", from |-> ""]

\* An empty token and the marker of a redacted one are not used.
usableToken(token) == token.kind \notin {"", "redacted"}

normalizeAuthContexts(contexts) ==
    [r \in Roles |-> IF usableToken(contexts[r]) THEN contexts[r] ELSE NoToken]

\* Mutant: the older token is forgotten.
WithoutLegacyToken(req) == normalizeAuthContexts(req.contexts)

\* The older attacker token stands in for attacker and victim.
WithLegacyToken(req) ==
    LET contexts == normalizeAuthContexts(req.contexts)
    IN  [r \in Roles |-> IF /\ r # "admin" /\ contexts[r] = NoToken
                            /\ usableToken(req.legacy)
                         THEN req.legacy ELSE contexts[r]]

\* The stored Authorization header, and its i-th value.
Authorization(target) ==
    IF "Authorization" \in DOMAIN target.headers THEN target.headers["Authorization"] ELSE << >>

pickToken(target, i) ==
    LET auth == Authorization(target)
    IN  IF i \in DOMAIN auth /\ usableToken(auth[i].value) THEN auth[i].value ELSE NoToken

firstContextToken(contexts, roles) ==
    LET some == {i \in DOMAIN roles : contexts[roles[i]] # NoToken}
    IN  IF some = {} THEN NoToken
        ELSE contexts[roles[CHOOSE i \in some : \A j \in some : i <= j]]

Or(token, otherwise) == IF token = NoToken THEN otherwise ELSE token

Forged(token) == [kind |-> "forged", from |-> token.from]

\* A JWT with algorithm none needs a token that decodes, a tampered one a
\* token with a signature.
forgeNoneToken(token) == IF token.kind \in {"jwt", "unsigned"} THEN Forged(token) ELSE NoToken
tamperSignature(token) == IF token.kind \in {"jwt", "odd"} THEN Forged(token) ELSE NoToken

\* The token a test is run with.
resolveAuthToken(type, target, req) ==
    LET contexts == WithLegacyToken(req)
        victim == Or(contexts["victim"], pickToken(target, 1))
    IN  CASE type \in {"BOLA", "BOLA_PARAMETER_POLLUTION"} ->
                Or(contexts["attacker"], pickToken(target, 2))
          [] type = "BROKEN_USER_AUTH" -> NoToken
          [] type = "JWT_NONE_ALGO" -> forgeNoneToken(victim)
          [] type = "JWT_INVALID_SIGNATURE" -> tamperSignature(victim)
          [] OTHER -> Or(firstContextToken(contexts, <<"victim", "attacker", "admin">>),
                         pickToken(target, 1))

\* The test types that fail to plan when they end up without a token.
NeedsToken == JWTTests \union {"BOLA", "BOLA_PARAMETER_POLLUTION"}

-----------------------------------------------------------------------------
(* Applicability. *)

endpointCarriesBody(target) ==
    target.body \notin {"", "{}"} \/ target.method \in {"POST", "PUT", "PATCH"}

endpointSatisfiesFields(type, target, hasAnyAuth) ==
    \A field \in Registry[type].fields :
        CASE field = "path" -> target.path # << >>
          [] field = "method" -> target.method # ""
          [] field = "base_url" -> target.base # ""
          [] field = "body" -> endpointCarriesBody(target)
          [] field = "headers.authorization" -> hasAnyAuth

\* The test types worth running against one endpoint.
ApplicableTestTypes(target, req) ==
    LET contexts == normalizeAuthContexts(req.contexts)
        hasAttacker == usableToken(req.legacy) \/ contexts["attacker"] # NoToken
        hasAnyAuth == \/ hasAttacker
                      \/ \E r \in Roles : contexts[r] # NoToken
                      \/ \E i \in DOMAIN Authorization(target) :
                             usableToken(Authorization(target)[i].value)
    IN  {t \in DOMAIN Registry :
            /\ endpointSatisfiesFields(t, target, hasAnyAuth)
            /\ Registry[t].attacker => hasAttacker
            /\ Registry[t].auth => hasAnyAuth}

\* Explicit test types win, then a preset, then everything that applies; an
\* unknown preset selects nothing.
RequestedTypes(req, applicable) ==
    CASE req.types # {} -> FilterRegistered(req.types)
      [] req.types = {} /\ req.suite \in DOMAIN SuitePresets ->
            FilterRegistered(SuitePresets[req.suite])
      [] req.types = {} /\ req.suite \in {"", "FULL"} -> applicable
      [] OTHER -> {}

selectSuiteTestTypes(req, applicable) ==
    LET requested == RequestedTypes(req, applicable)
    IN  [selected |-> requested \intersect applicable, skipped |-> requested \ applicable]

-----------------------------------------------------------------------------
(* The configuration of one test. *)

resolveMethod(type, target, req) ==
    CASE type = "BFLA" /\ req.method # "" -> req.method
      [] type \in BaseURLChecks -> "GET"
      [] OTHER -> target.method

\* What the path is turned into: nothing, an object to delete, a redirect or
\* a query with the payload.
resolvePath(type, method) ==
    CASE type \in BaseURLChecks -> "none"
      [] type = "BFLA" /\ method = "DELETE" -> "with id"
      [] type = "OPEN_REDIRECT" -> "with redirect"
      [] type \in Injections -> "with payload"
      [] OTHER -> "as captured"

\* A request that writes and was captured without a body gets a default one.
resolveBody(type, method, body) ==
    CASE type \in BaseURLChecks -> ""
      [] type \notin BaseURLChecks /\ method \in {"PUT", "PATCH", "POST"}
             /\ body \in {"", "{}"} -> "id"
      [] OTHER -> body

\* The second body of a test that sends one; a body without an identifier
\* cannot be polluted.
pollutedBody(type) ==
    CASE type = "BOLA_PARAMETER_POLLUTION" -> "duplicate id"
      [] type \in Injections -> "payload"
      [] type = "MASS_ASSIGNMENT" -> "privileged fields"
      [] OTHER -> ""

\* Planning fails without the token a test needs, and without an identifier
\* in the captured body to pollute.
PlanFails(type, target, req) ==
    \/ type \in NeedsToken /\ resolveAuthToken(type, target, req) = NoToken
    \/ type = "BOLA_PARAMETER_POLLUTION" /\ target.body # "id"

\* The headers a job replays: the first stored field of each.  The scanner
\* leaves out Authorization and replaces it by the token.
flattenHeaders(headers) ==
    [name \in {n \in DOMAIN headers : headers[n] # << >>} |-> headers[name][1]]

BuildScanConfig(type, target, req) ==
    LET method == resolveMethod(type, target, req)
    IN  [type |-> type,
         token |-> resolveAuthToken(type, target, req),
         attackMethod |-> method,
         path |-> resolvePath(type, method),
         body |-> resolveBody(type, method, target.body),
         polluted |-> pollutedBody(type),
         headers |-> flattenHeaders(target.headers)]

-----------------------------------------------------------------------------
(* The target policy.  A URL has the patterns of the lists it matches and
   the kinds of the addresses its host resolves to. *)

isMetadataEndpoint(url, ip) ==
    url.host \in {"metadata", "metadata.google.internal"} \/ ip = "metadata"

\* Metadata addresses lie in reserved networks.
isPrivateOrReserved(ip) == ip \in {"private", "metadata"}

ValidateTargetURL(policy, url) ==
    /\ url.host # "" /\ ~url.userinfo /\ url.scheme \in {"http", "https"} /\ url.port
    /\ url.ips # {}
    /\ url.matches \intersect policy.denylist = {}
    /\ policy.allowlist = {} \/ url.matches \intersect policy.allowlist # {}
    /\ \A ip \in url.ips : /\ ~isMetadataEndpoint(url, ip)
                           /\ isPrivateOrReserved(ip) => policy.allowPrivateTargets
=============================================================================
