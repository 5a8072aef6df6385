----------------------------- MODULE MCCatalog ------------------------------
(***************************************************************************)
(* A small instance of Catalog for TLC: two conversations of one endpoint, *)
(* whose path has two parameters that would get the same name.  The first  *)
(* was captured at time 2, the second has no capture time and counts as    *)
(* observed before, with or after it, and is too large for its sample.     *)
(* Suite requests have the tokens that make a difference.                  *)
(***************************************************************************)
EXTENDS Catalog

Static(text, patterns, singular) ==
    [text |-> text, matches |-> patterns, singular |-> singular, tags |-> {}]
Id(patterns) == [text |-> "", matches |-> patterns, singular |-> << >>, tags |-> {}]
Field(loc, name, value, tags) ==
    [loc |-> loc, name |-> name, words |-> {}, value |-> value, tags |-> tags, rest |-> {}]
Captured(kind) == [kind |-> kind, from |-> "captured"]
Plain == [kind |-> "plain", from |-> "captured"]

Post(at, body, fields, status) ==
    [tenant |-> "t", method |-> "POST", base |-> "https://api",
     path |-> <<Id({"object_id"}), Static("v1", {"version"}, <<"v1">>),
                Static("legacy", {}, <<"legacy">>), Static("objects", {}, <<"object">>),
                Id({"int"})>>,
     static |-> FALSE, fields |-> fields, urlTags |-> {}, labels |-> {},
     deprecatedBy |-> {"explicit-legacy-path"},
     status |-> status, at |-> at, body |-> body, large |-> FALSE]

MCLogs ==
    [c1 |-> Post(2, "id", <<Field("header", "Authorization", Captured("jwt"), {"JWT_TOKEN"}),
                            Field("response_body", "email", Plain, {"EMAIL"})>>, 200),
     c2 |-> [Post(0, "id", <<Field("header", "Cookie", Plain, {}),
                             Field("header", "X-Session-Id", Plain, {}),
                             Field("cookie", "sid", Plain, {})>>, 500) EXCEPT !.large = TRUE]]

MCRules == {[name |-> "explicit-deprecated-path", risk |-> "", tags |-> {}],
            [name |-> "explicit-legacy-path", risk |-> "MEDIUM", tags |-> {}]}

MCBucketLength == [hour |-> 1, day |-> 2]

Token(kind) == [kind |-> kind, from |-> "request"]
Contexts(attacker, victim) == [attacker |-> attacker, victim |-> victim, admin |-> NoToken]
Request(types, preset, legacy, contexts) ==
    [types |-> types, suite |-> preset, legacy |-> legacy, contexts |-> contexts,
     method |-> "DELETE"]

\* No usable token; the attacker's own one and the older one for the victim;
\* the older one for the attacker and one of the victim that cannot be forged,
\* so that a single job is left, which may fail to be created.
MCSuiteRequests ==
    {Request({}, "FULL", NoToken, Contexts(NoToken, Marker)),
     Request({}, "OWASP_API_TOP_10", Token("unsigned"), Contexts(Token("opaque"), NoToken)),
     Request({"JWT_NONE_ALGO", "BOLA", "UNKNOWN"}, "", Token("odd"),
             Contexts(NoToken, Token("opaque")))}

MCPolicy == [allowPrivateTargets |-> FALSE, allowlist |-> {}, denylist |-> {"denied"}]
MCURLs == ("https://api" :> [scheme |-> "https", host |-> "api", userinfo |-> FALSE,
                             port |-> TRUE, ips |-> {"public"}, matches |-> {"api"}])

\* The suite reads and writes nothing after its answer, and the analyzers do
\* not depend on it: what follows an answer also happens without the suite.
UntilAnswered == suite.pc \notin {"answered", "failed"}

Symmetry == Permutations(Analyzers)
=============================================================================
