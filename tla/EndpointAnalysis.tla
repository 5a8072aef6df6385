-------------------------- MODULE EndpointAnalysis --------------------------
(***************************************************************************)
(* What the analyzer derives from one captured conversation before it      *)
(* writes anything: the endpoint it belongs to, its parameters, the        *)
(* sensitive data in it and its risk.  Operators only.                     *)
(*                                                                         *)
(* A log is a record.  Its path is a sequence of segments, each with the   *)
(* identifier patterns it matches and, for a static one, the words of its  *)
(* singular form; a name such as order_item_id is the sequence of its      *)
(* words.  A field is a header, query parameter, cookie or leaf of a body  *)
(* with the tags whose keywords and pattern match it; its words are those  *)
(* of SensitiveWords that its name contains, and rest the tags that still  *)
(* match when redact.Text has replaced what it knows of the value.  Values *)
(* are records of their kind and of where they come from.  Names of        *)
(* headers are compared without case and written in one way here.  Bodies  *)
(* are classes: "" and "{}", a JSON object with ("id") or without          *)
(* ("plain") a key that looks like an identifier, and "text", not JSON.    *)
(***************************************************************************)
EXTENDS Naturals, Sequences, SequencesExt, FiniteSets, FiniteSetsExt

\* A segment of a path and a field of a conversation, as captured.
Segment == [text : STRING, matches : SUBSET STRING, singular : Seq(STRING),
            tags : SUBSET STRING]
CapturedField == [loc : STRING, name : STRING, words : SUBSET STRING,
                  value : [kind : STRING, from : STRING],
                  tags : SUBSET STRING, rest : SUBSET STRING]

-----------------------------------------------------------------------------
(* Endpoint identity. *)

\* The members of a sequence at some of its positions, in their order.
Nth(positions, i) == CHOOSE p \in positions : Cardinality({q \in positions : q < p}) = i - 1
MembersAt(seq, positions) == [i \in 1..Cardinality(positions) |-> seq[Nth(positions, i)]]

\* The patterns of an identifier segment in the order they are tried.
Patterns == <<[pattern |-> "int",       class |-> <<"id">>],
              [pattern |-> "uuid",      class |-> <<"uuid">>],
              [pattern |-> "object_id", class |-> <<"object", "id">>],
              [pattern |-> "ulid",      class |-> <<"ulid">>],
              [pattern |-> "hash",      class |-> <<"hash">>],
              [pattern |-> "cuid",      class |-> <<"id">>],
              [pattern |-> "mixed",     class |-> <<"id">>],
              [pattern |-> "ksuid",     class |-> <<"ksuid">>],
              [pattern |-> "token",     class |-> <<"token">>]>>

\* The class of a segment; << >> for a static one, which every version is.
classifySegment(segment) ==
    LET hits == {i \in DOMAIN Patterns : Patterns[i].pattern \in segment.matches}
    IN  IF "version" \in segment.matches \/ hits = {} THEN << >>
        ELSE Patterns[Min(hits)].class

\* An identifier is named after the static segment before it.
parameterName(lastStatic, class) == lastStatic \o class

\* Mutant: the second parameter of a name keeps it.
RepeatedParameterName(name, seen) == [base |-> name, number |-> 1]

\* The second and later parameters of one name are numbered.  No name ends in
\* a number of its own, so that it is told apart by its base and its number.
uniqueParameterName(name, seen) ==
    [base |-> name, number |-> Cardinality({i \in DOMAIN seen : seen[i] = name}) + 1]

\* The pattern of a path and the parameters found in it.
NormalizePath(path) ==
    LET Class(i) == classifySegment(path[i])
        dynamic == {i \in DOMAIN path : Class(i) # << >>}
        LastStatic(i) == LET before == (1..(i - 1)) \ dynamic
                         IN  IF before = {} THEN << >> ELSE path[Max(before)].singular
        Base(i) == parameterName(LastStatic(i), Class(i))
        Name(i) == uniqueParameterName(Base(i),
                                       [j \in dynamic \intersect 1..(i - 1) |-> Base(j)])
        parameter == [i \in dynamic |->
                         [loc |-> "path", name |-> Name(i), tags |-> path[i].tags]]
    IN  [pattern |-> [i \in DOMAIN path |-> IF i \in dynamic THEN <<"{", Name(i)>>
                                            ELSE <<path[i].text>>],
         parameters |-> MembersAt(parameter, dynamic)]

\* Endpoints are told apart by tenant, method, base URL and pattern.
Fingerprint(log) ==
    <<log.tenant, log.method, log.base, NormalizePath(log.path).pattern>>

-----------------------------------------------------------------------------
(* Fields. *)

FieldsIn(log, locs) ==
    MembersAt(log.fields, {i \in DOMAIN log.fields : log.fields[i].loc \in locs})

-----------------------------------------------------------------------------
(* Redaction. *)

Marker == [kind |-> "redacted", from |-> "redact"]

\* A field as it is stored.
StoredField == [loc : STRING, name : STRING, words : SUBSET STRING,
                value : [kind : STRING, from : STRING] \union {Marker},
                tags : SUBSET STRING, rest : SUBSET STRING]

\* The headers that hold a credential, by name or by a word of the name.
SensitiveHeaders == {"Authorization", "Proxy-Authorization", "Cookie", "Set-Cookie",
    "X-API-Key", "Api-Key", "X-Auth-Token", "X-Access-Token", "X-Csrf-Token",
    "X-Xsrf-Token", "X-Amz-Security-Token"}
SensitiveWords == {"token", "secret", "api-key"}

isSensitiveHeader(field) ==
    field.name \in SensitiveHeaders \/ field.words \intersect SensitiveWords # {}

\* The kinds of values that are a secret wherever they occur: what follows
\* Bearer or Basic, JWTs, AWS keys, and values named as a secret.
TextSecrets == {"bearer", "basic", "jwt", "aws", "named"}

Text(field) ==
    IF field.value.kind \in TextSecrets
    THEN [field EXCEPT !.value = Marker, !.tags = field.rest]
    ELSE field

\* Mutant: a sensitive header is redacted like any text.
HeadersAsText(field) == Text(field)

\* A sensitive header is replaced as a whole.
Headers(field) ==
    IF isSensitiveHeader(field)
    THEN [field EXCEPT !.value = Marker, !.tags = {}]
    ELSE Text(field)

\* What a stored header may hold.
Redacted(field) ==
    IF isSensitiveHeader(field) THEN field.value = Marker
    ELSE field.value.kind \notin TextSecrets

\* The request headers as they are stored with an endpoint and a sample.
RedactedHeaders(log) ==
    LET headers == FieldsIn(log, {"header"})
    IN  [i \in DOMAIN headers |-> Headers(headers[i])]

\* The stored values of one request header.
HeaderValues(log, name) ==
    LET headers == RedactedHeaders(log)
    IN  MembersAt(headers, {i \in DOMAIN headers : headers[i].name = name})

-----------------------------------------------------------------------------
(* Sensitive data and risk. *)

HeaderLocations == {"header", "response_header"}
ResponseLocations == {"response_header", "response_body"}

\* Some rules do not apply to headers.
scanPII(loc, tags) ==
    tags \ (IF loc \in HeaderLocations THEN {"ADDRESS", "PHONE_NUMBER", "PASSWORD"} ELSE {})

\* The fields with sensitive data; static resources are not looked at.
detectSensitiveObservations(log) ==
    IF log.static THEN {}
    ELSE {f \in Range(log.fields) : scanPII(f.loc, f.tags) # {}}

\* The tags of the fields, and those found in the URL itself.
detectedPII(log) ==
    UNION {scanPII(f.loc, f.tags) : f \in detectSensitiveObservations(log)}
        \union (IF log.static THEN {} ELSE log.urlTags)

AuthTags == {"PASSWORD", "AUTH_TOKEN_BEARER", "JWT_TOKEN", "AWS_KEY"}
FinancialTags == {"VISA_CARD", "MASTER_CARD", "CREDIT_CARD", "IBAN_CODE", "SWIFT_CODE"}
IdentityTags == {"US_SSN", "INDIAN_AADHAR", "CANADIAN_SIN", "INDIAN_PAN", "PASSPORT_NO",
    "DRIVERS_LICENSE", "US_MEDICARE", "FINNISH_PIN", "GERMAN_INSURANCE_ID",
    "INDIAN_HEALTH_ID"}
ContactTags == {"EMAIL", "PHONE_NUMBER", "DATE_OF_BIRTH", "FULL_NAME", "PERSON_NAME",
    "USERNAME", "USER_ID", "ADDRESS", "STREET_ADDRESS"}

tagWeight(t) ==
    CASE t \in {"PASSWORD", "AUTH_TOKEN_BEARER", "AWS_KEY"} -> 100
      [] t = "JWT_TOKEN" -> 95
      [] t \in {"VISA_CARD", "MASTER_CARD", "US_SSN", "INDIAN_AADHAR"} -> 90
      [] t \in {"CREDIT_CARD", "CANADIAN_SIN"} -> 85
      [] t = "FINNISH_PIN" -> 80
      [] t \in {"IBAN_CODE", "INDIAN_PAN", "PASSPORT_NO", "GERMAN_INSURANCE_ID",
                "INDIAN_HEALTH_ID"} -> 75
      [] t \in {"SWIFT_CODE", "DRIVERS_LICENSE", "US_MEDICARE"} -> 70
      [] t = "DATE_OF_BIRTH" -> 45
      [] t \in {"ADDRESS", "STREET_ADDRESS"} -> 40
      [] t \in {"EMAIL", "PHONE_NUMBER"} -> 35
      [] t \in {"FULL_NAME", "PERSON_NAME", "USERNAME", "USER_ID"} -> 30
      [] OTHER -> 25

\* The sum of the weights, counted one by one.
totalScore(tags) == Cardinality(UNION {{t} \X (1..tagWeight(t)) : t \in tags})

\* The risk of the tags: the heaviest one, certain combinations, their sum.
calculateRiskLevel(tags) ==
    LET Has(group) == tags \intersect group # {}
        HasWeight(n) == \E t \in tags : tagWeight(t) >= n
        HasTwo == \/ Has(AuthTags) /\ Has(IdentityTags)
                  \/ Has(AuthTags) /\ Has(FinancialTags)
                  \/ Has(FinancialTags) /\ Has(IdentityTags)
    IN  IF HasWeight(95) \/ HasTwo THEN "CRITICAL"
        ELSE IF HasWeight(85) \/ totalScore(tags) >= 170 \/ (Has(IdentityTags) /\ Has(ContactTags))
        THEN "HIGH"
        ELSE IF HasWeight(40) \/ totalScore(tags) >= 70 \/ Cardinality(tags) >= 2 THEN "MEDIUM"
        ELSE "LOW"

riskRank == [LOW |-> 1, MEDIUM |-> 2, HIGH |-> 3, CRITICAL |-> 4]

maxRiskLevel(levels) ==
    CHOOSE r \in levels \union {"LOW"} :
        \A s \in levels \union {"LOW"} : riskRank[s] <= riskRank[r]

\* Compiling a rule gives it the defaults of what it leaves out.
normalizeRule(rule) ==
    [rule EXCEPT !.risk = IF @ \in DOMAIN riskRank THEN @ ELSE "MEDIUM",
                 !.tags = IF @ = {} THEN {"lifecycle:deprecated"} ELSE @]

\* The compiled rules whose expression matches the path or its pattern.
Evaluate(rules, log) ==
    {normalizeRule(r) : r \in {q \in rules : q.name \in log.deprecatedBy}}

\* The risk level stored with an endpoint and with its metrics.
riskLevel(rules, log) ==
    maxRiskLevel({calculateRiskLevel(detectedPII(log))}
                     \union {f.risk : f \in Evaluate(rules, log)})

\* A credential of any kind was sent with the request.
authObserved(log) ==
    \E f \in Range(log.fields) :
        f.loc = "header" /\ f.name \in {"Authorization", "Cookie", "X-API-Key"}

\* What is added to the tags of the endpoint; the labels are those of the
\* capture source and of the keywords in the path.
endpointTags(rules, log) ==
    log.labels \union {IF authObserved(log) THEN "auth:observed" ELSE "auth:not_observed"}
        \union {"sensitive_data:observed" : t \in detectedPII(log)}
        \union {"sensitive_data:response" :
                   f \in {g \in detectSensitiveObservations(log) : g.loc \in ResponseLocations}}
        \union UNION {f.tags : f \in Evaluate(rules, log)}

-----------------------------------------------------------------------------
(* The parameters of one conversation, in the order they are written: path,
   query and cookie values as captured, headers redacted, and the fields of
   the two bodies without a value. *)

sensitiveTagsFor(field) == scanPII(field.loc, field.tags)

parameterObservations(log) ==
    LET Part(locs, F(_)) ==
            LET part == FieldsIn(log, locs)
            IN  [i \in DOMAIN part |->
                    [loc |-> part[i].loc, name |-> part[i].name,
                     tags |-> sensitiveTagsFor(F(part[i]))]]
        NoValue(f) == [f EXCEPT !.tags = {}]
        Captured(f) == f
    IN  NormalizePath(log.path).parameters
            \o Part({"query"}, Captured) \o Part({"cookie"}, Captured)
            \o Part({"header"}, Headers)
            \o Part({"request_body"}, NoValue) \o Part({"response_body"}, NoValue)
=============================================================================
