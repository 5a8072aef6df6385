----------------------- MODULE EndpointAnalysisProofs -----------------------
(***************************************************************************)
(* What the operators of EndpointAnalysis promise for every conversation:  *)
(* the parameters found in a path have different names, stored headers are *)
(* redacted, and more sensitive data or findings never lower a risk level. *)
(***************************************************************************)
EXTENDS EndpointAnalysis, SequenceTheorems, FiniteSetTheorems, FunctionTheorems, TLAPS

-----------------------------------------------------------------------------
(* Members of a sequence selected by position. *)

\* A finite set of numbers has an i-th member: counting the smaller ones is an
\* injection into as many numbers, hence onto them.
LEMMA NthIsMember ==
  ASSUME NEW P \in SUBSET Nat, IsFiniteSet(P), NEW i \in 1..Cardinality(P)
  PROVE  Nth(P, i) \in P /\ Cardinality({q \in P : q < Nth(P, i)}) = i - 1
<1> DEFINE Below(x) == {y \in P : y < x}
           n == Cardinality(P)
           f == [x \in P |-> Cardinality(Below(x))]
<1>1. n \in Nat
  BY FS_CardinalityType
<1>2. ASSUME NEW p \in P
      PROVE  IsFiniteSet(Below(p)) /\ Cardinality(Below(p)) \in 0..(n - 1)
  <2>1. /\ IsFiniteSet(P \ {p})
        /\ Cardinality(P \ {p}) = n - 1
    BY <1>1, FS_RemoveElement
  <2>2. Below(p) \subseteq P \ {p}
    OBVIOUS
  <2>3. IsFiniteSet(Below(p)) /\ Cardinality(Below(p)) <= n - 1
    BY <2>1, <2>2, FS_Subset
  <2> QED
    BY <1>1, <2>3, FS_CardinalityType
<1>3. ASSUME NEW p \in P, NEW q \in P, p < q
      PROVE  Cardinality(Below(p)) < Cardinality(Below(q))
  <2>1. /\ IsFiniteSet(Below(q) \ {p})
        /\ Cardinality(Below(q) \ {p}) = Cardinality(Below(q)) - 1
    BY <1>2, <1>3, FS_RemoveElement
  <2>2. Below(p) \subseteq Below(q) \ {p}
    <3>1. ASSUME NEW x \in P, x < p PROVE x < q /\ x # p
      <4>1. x \in Nat /\ p \in Nat /\ q \in Nat
        OBVIOUS
      <4> QED
        BY <1>3, <3>1, <4>1
    <3> QED
      BY <3>1
  <2>3. Cardinality(Below(p)) <= Cardinality(Below(q) \ {p})
    BY <2>1, <2>2, FS_Subset
  <2> QED
    BY <1>1, <1>2, <2>1, <2>3
<1>4. f \in Injection(P, 0..(n - 1))
  <2>1. f \in [P -> 0..(n - 1)]
    BY <1>2
  <2>2. ASSUME NEW p \in P, NEW q \in P, f[p] = f[q]
        PROVE  p = q
    <3>1. Cardinality(Below(p)) = Cardinality(Below(q))
      BY <2>2
    <3>2. Cardinality(Below(p)) \in Int /\ p \in Nat /\ q \in Nat
      BY <1>1, <1>2
    <3> QED
      BY <1>3, <3>1, <3>2
  <2> QED
    BY <2>1, <2>2 DEF Injection, IsInjective
<1>5. IsFiniteSet(0..(n - 1)) /\ Cardinality(0..(n - 1)) = n
  <2>1. 0 \in Int /\ n - 1 \in Int
    BY <1>1
  <2>2. /\ IsFiniteSet(0..(n - 1))
        /\ Cardinality(0..(n - 1)) = IF 0 > n - 1 THEN 0 ELSE (n - 1) - 0 + 1
    BY <2>1, FS_Interval
  <2> QED
    BY <1>1, <2>2
<1>6. f \in Surjection(P, 0..(n - 1))
  BY <1>4, <1>5, FS_Injection
<1>7. i - 1 \in 0..(n - 1)
  BY <1>1
<1>8. PICK z \in P : f[z] = i - 1
  BY <1>6, <1>7 DEF Surjection
<1>9. \E x \in P : Cardinality({q \in P : q < x}) = i - 1
  BY <1>8
<1> QED
  BY <1>9 DEF Nth

\* Different positions are selected for different places.
LEMMA NthIsInjective ==
  ASSUME NEW P \in SUBSET Nat, IsFiniteSet(P),
         NEW i \in 1..Cardinality(P), NEW j \in 1..Cardinality(P), Nth(P, i) = Nth(P, j)
  PROVE  i = j
<1>1. /\ Cardinality({q \in P : q < Nth(P, i)}) = i - 1
      /\ Cardinality({q \in P : q < Nth(P, j)}) = j - 1
  BY NthIsMember
<1>2. i - 1 = j - 1 /\ Cardinality(P) \in Nat
  BY <1>1, FS_CardinalityType
<1> QED
  BY <1>2

\* The selected members are members at those positions, and none else.
LEMMA MembersAreSelected ==
  ASSUME NEW S, NEW seq \in Seq(S), NEW P \in SUBSET DOMAIN seq
  PROVE  /\ MembersAt(seq, P) \in Seq(S)
         /\ \A i \in DOMAIN MembersAt(seq, P) :
              \E p \in P : MembersAt(seq, P)[i] = seq[p]
<1>1. Len(seq) \in Nat /\ DOMAIN seq = 1..Len(seq)
  BY LenProperties
<1>2. IsFiniteSet(P) /\ P \in SUBSET Nat
  <2>1. IsFiniteSet(DOMAIN seq)
    BY <1>1, FS_Interval
  <2> QED
    BY <1>1, <2>1, FS_Subset
<1>3. Cardinality(P) \in Nat
  BY <1>2, FS_CardinalityType
<1>4. \A i \in 1..Cardinality(P) : Nth(P, i) \in P
  BY <1>2, NthIsMember
<1>5. \A p \in P : seq[p] \in S
  BY <1>1, ElementOfSeq
<1>6. MembersAt(seq, P) \in [1..Cardinality(P) -> S]
  BY <1>4, <1>5 DEF MembersAt
<1>7. MembersAt(seq, P) \in Seq(S)
  BY <1>3, <1>6, SeqDef
<1>8. \A i \in 1..Cardinality(P) : MembersAt(seq, P)[i] = seq[Nth(P, i)]
  BY DEF MembersAt
<1>9. DOMAIN MembersAt(seq, P) = 1..Cardinality(P)
  BY DEF MembersAt
<1> QED
  BY <1>4, <1>7, <1>8, <1>9

-----------------------------------------------------------------------------
(* The parameters of a path. *)

\* No two path parameters have one name.
Distinct(s) ==
    \A i, j \in DOMAIN s :
        s[i].loc = "path" /\ s[j].loc = "path" /\ s[i].name = s[j].name => i = j

\* The second and later parameters with one name are numbered in the order they
\* appear (uniqueParameterName).
THEOREM PathNamesAreDistinct ==
  ASSUME NEW path \in Seq(Segment)
  PROVE  LET found == NormalizePath(path).parameters
         IN  found \in Seq(Range(found)) /\ Distinct(found)
<1> DEFINE Class(i) == classifySegment(path[i])
           dynamic == {i \in DOMAIN path : Class(i) # << >>}
           LastStatic(i) == LET before == (1..(i - 1)) \ dynamic
                            IN  IF before = {} THEN << >> ELSE path[Max(before)].singular
           Base(i) == parameterName(LastStatic(i), Class(i))
           Seen(i) == [j \in dynamic \intersect 1..(i - 1) |-> Base(j)]
           Name(i) == uniqueParameterName(Base(i), Seen(i))
           parameter == [i \in dynamic |->
                            [loc |-> "path", name |-> Name(i), tags |-> path[i].tags]]
           Same(i) == {j \in dynamic \intersect 1..(i - 1) : Base(j) = Base(i)}
           found == MembersAt(parameter, dynamic)
<1>1. NormalizePath(path).parameters = found
  BY DEF NormalizePath
<1>2. Len(path) \in Nat /\ DOMAIN path = 1..Len(path)
  BY LenProperties
<1>3. dynamic \in SUBSET Nat /\ IsFiniteSet(dynamic)
  <2>1. IsFiniteSet(1..Len(path))
    BY <1>2, FS_Interval
  <2> QED
    BY <1>2, <2>1, FS_Subset
<1>4. ASSUME NEW i \in dynamic
      PROVE  /\ Name(i).base = Base(i) /\ Name(i).number = Cardinality(Same(i)) + 1
             /\ IsFiniteSet(Same(i)) /\ Cardinality(Same(i)) \in Nat
  <2>1. {j \in DOMAIN Seen(i) : Seen(i)[j] = Base(i)} = Same(i)
    <3> HIDE DEF Base, dynamic
    <3> QED
      OBVIOUS
  <2>2. IsFiniteSet(Same(i))
    <3> HIDE DEF Base, dynamic
    <3> QED
      BY <1>3, FS_Subset
  <2>3. Cardinality(Same(i)) \in Nat
    BY <2>2, FS_CardinalityType
  <2> HIDE DEF Base, Seen, Same
  <2> QED
    BY <2>1, <2>2, <2>3 DEF uniqueParameterName
<1>5. ASSUME NEW i \in dynamic, NEW j \in dynamic, i < j, Base(i) = Base(j)
      PROVE  Name(i).number # Name(j).number
  <2> HIDE DEF Base, Name, dynamic
  <2>1. i \in Nat /\ j \in Nat /\ i >= 1
    BY <1>2, <1>3 DEF dynamic
  <2>2. Same(i) \union {i} \subseteq Same(j) /\ i \notin Same(i)
    BY <1>3, <1>5, <2>1
  <2> HIDE DEF Same
  <2>3. Cardinality(Same(i) \union {i}) = Cardinality(Same(i)) + 1
    BY <1>4, <2>2, FS_AddElement
  <2>4. Cardinality(Same(i) \union {i}) <= Cardinality(Same(j))
    BY <1>4, <2>2, FS_Subset
  <2>5. Cardinality(Same(i)) \in Nat /\ Cardinality(Same(j)) \in Nat
    BY <1>4
  <2>6. Cardinality(Same(i)) + 1 # Cardinality(Same(j)) + 1
    BY <2>3, <2>4, <2>5
  <2> QED
    BY <1>4, <2>6
<1>6. ASSUME NEW i \in dynamic, NEW j \in dynamic, Name(i) = Name(j)
      PROVE  i = j
  <2>1. Base(i) = Base(j) /\ Name(i).number = Name(j).number
    BY <1>4, <1>6
  <2> HIDE DEF Base, Name, dynamic
  <2>2. i \in Nat /\ j \in Nat
    BY <1>3
  <2> QED
    BY <1>5, <2>1, <2>2
<1>7. Cardinality(dynamic) \in Nat /\ DOMAIN found = 1..Cardinality(dynamic)
  BY <1>3, FS_CardinalityType DEF MembersAt
<1>8. ASSUME NEW i \in DOMAIN found
      PROVE  /\ Nth(dynamic, i) \in dynamic /\ found[i].name = Name(Nth(dynamic, i))
  <2> HIDE DEF Name, dynamic
  <2>1. Nth(dynamic, i) \in dynamic
    BY <1>3, <1>7, <1>8, NthIsMember
  <2>2. found[i] = parameter[Nth(dynamic, i)]
    BY <1>7, <1>8 DEF MembersAt
  <2> QED
    BY <2>1, <2>2
<1>9. Distinct(found)
  <2>1. ASSUME NEW i \in DOMAIN found, NEW j \in DOMAIN found, found[i].name = found[j].name
        PROVE  i = j
    <3>1. Nth(dynamic, i) = Nth(dynamic, j)
      <4> HIDE DEF dynamic, found, Name
      <4> QED
        BY <1>6, <1>8, <2>1
    <3> QED
      BY <1>3, <1>7, <3>1, NthIsInjective
  <2> HIDE DEF found
  <2> QED
    BY <2>1 DEF Distinct
<1>10. found \in Seq(Range(found))
  <2>1. found = [i \in 1..Cardinality(dynamic) |-> found[i]]
    BY DEF MembersAt
  <2> HIDE DEF found, dynamic
  <2>2. found \in [1..Cardinality(dynamic) -> Range(found)]
    BY <1>7, <2>1 DEF Range
  <2> QED
    BY <1>7, <2>2, SeqDef
<1> QED
  BY <1>1, <1>9, <1>10

-----------------------------------------------------------------------------
(* Redaction. *)

\* The fields that may be stored as a header of this name.
SafeField(name) == {f \in StoredField : f.name = name /\ Redacted(f)}

\* A header is stored under its name and without what it must not hold
\* (redact.Headers).
LEMMA StoredHeader ==
  ASSUME NEW f \in CapturedField
  PROVE  Headers(f) \in SafeField(f.name)
<1>1. /\ f.value \in [kind : STRING, from : STRING]
      /\ f \in StoredField
  BY DEF CapturedField, StoredField
<1> DEFINE g == [f EXCEPT !.value = Marker]
<1>2. /\ g \in StoredField /\ g.value = Marker
      /\ g.name = f.name /\ g.words = f.words /\ g.rest = f.rest
  BY DEF CapturedField, StoredField
<1> HIDE DEF g
<1>3. CASE isSensitiveHeader(f)
  <2> DEFINE h == [g EXCEPT !.tags = {}]
  <2>1. Headers(f) = h
    BY <1>3 DEF Headers, g
  <2>2. /\ h \in StoredField /\ h.value = Marker
        /\ h.name = f.name /\ h.words = f.words
    BY <1>2 DEF StoredField
  <2> HIDE DEF h
  <2>3. isSensitiveHeader(h)
    BY <1>3, <2>2 DEF isSensitiveHeader
  <2> QED
    BY <2>1, <2>2, <2>3 DEF SafeField, Redacted
<1>4. CASE ~isSensitiveHeader(f) /\ f.value.kind \in TextSecrets
  <2> DEFINE h == [g EXCEPT !.tags = f.rest]
  <2>1. Headers(f) = h
    BY <1>4 DEF Headers, Text, g
  <2>2. /\ h \in StoredField /\ h.value = Marker
        /\ h.name = f.name /\ h.words = f.words
    BY <1>2 DEF StoredField
  <2> HIDE DEF h
  <2>3. ~isSensitiveHeader(h)
    BY <1>4, <2>2 DEF isSensitiveHeader
  <2>4. Marker.kind \notin TextSecrets
    BY DEF Marker, TextSecrets
  <2> QED
    BY <2>1, <2>2, <2>3, <2>4 DEF SafeField, Redacted
<1>5. CASE ~isSensitiveHeader(f) /\ f.value.kind \notin TextSecrets
  BY <1>1, <1>5 DEF Headers, Text, SafeField, Redacted
<1> QED
  BY <1>3, <1>4, <1>5

\* A header named Authorization is stored as a marker.
LEMMA SafeAuthorization ==
  ASSUME NEW f \in SafeField("Authorization")
  PROVE  f.value = Marker
  BY DEF SafeField, Redacted, isSensitiveHeader, SensitiveHeaders

\* Whatever was captured, the values of a header are stored redacted
\* (redact.Headers).
LEMMA StoredValues ==
  ASSUME NEW log, log.fields \in Seq(CapturedField), NEW name
  PROVE  HeaderValues(log, name) \in Seq(SafeField(name))
<1> DEFINE fields == log.fields
           P == {k \in DOMAIN fields : fields[k].loc \in {"header"}}
           raw == MembersAt(fields, P)
           headers == RedactedHeaders(log)
           Q == {i \in DOMAIN headers : headers[i].name = name}
           found == MembersAt(headers, Q)
<1>1. fields \in Seq(CapturedField)
  OBVIOUS
<1>2. raw \in Seq(CapturedField)
  BY <1>1, MembersAreSelected
<1>3. \A f \in CapturedField : Headers(f) \in SafeField(f.name)
  BY StoredHeader
<1>4. headers = [i \in DOMAIN raw |-> Headers(raw[i])]
  BY DEF RedactedHeaders, FieldsIn
<1>5. /\ Len(raw) \in Nat /\ DOMAIN raw = 1..Len(raw)
      /\ \A i \in 1..Len(raw) : raw[i] \in CapturedField
  BY <1>2, LenProperties, ElementOfSeq
<1>6. /\ DOMAIN headers = 1..Len(raw)
      /\ \A i \in 1..Len(raw) : headers[i] \in SafeField(headers[i].name)
  BY <1>3, <1>4, <1>5 DEF SafeField
<1>7. headers \in Seq(StoredField)
  <2>1. headers \in [1..Len(raw) -> StoredField]
    BY <1>4, <1>6 DEF SafeField
  <2> QED
    BY <1>5, <2>1, SeqDef
<1>8. /\ found \in Seq(StoredField)
      /\ \A i \in DOMAIN found : \E q \in Q : found[i] = headers[q]
  <2>1. Q \in SUBSET DOMAIN headers
    OBVIOUS
  <2> HIDE DEF headers, Q
  <2> QED
    BY <1>7, <2>1, MembersAreSelected
<1>9. HeaderValues(log, name) = found
  BY DEF HeaderValues
<1>10. \A i \in DOMAIN found : found[i] \in SafeField(name)
  BY <1>6, <1>8
<1> HIDE DEF found
<1>11. found \in Seq(SafeField(name))
  <2>1. Len(found) \in Nat /\ DOMAIN found = 1..Len(found)
    BY <1>8, LenProperties
  <2>2. found = [i \in 1..Len(found) |-> found[i]]
    BY <1>8, <2>1
  <2>3. found \in [1..Len(found) -> SafeField(name)]
    BY <1>10, <2>1, <2>2
  <2> QED
    BY <2>1, <2>3, SeqDef
<1> QED
  BY <1>9, <1>11

-----------------------------------------------------------------------------
(* Risk. *)

LEMMA WeightIsNat == \A t : tagWeight(t) \in Nat
  BY DEF tagWeight

\* More tags weigh more.
LEMMA ScoreIsMonotone ==
  ASSUME NEW T, IsFiniteSet(T), NEW S \in SUBSET T
  PROVE  /\ totalScore(S) \in Nat /\ totalScore(T) \in Nat /\ totalScore(S) <= totalScore(T)
         /\ Cardinality(S) \in Nat /\ Cardinality(T) \in Nat
         /\ Cardinality(S) <= Cardinality(T)
<1> DEFINE Units(A) == UNION {{t} \X (1..tagWeight(t)) : t \in A}
<1>1. \A t \in T : IsFiniteSet({t} \X (1..tagWeight(t)))
  <2> SUFFICES ASSUME NEW t \in T PROVE IsFiniteSet({t} \X (1..tagWeight(t)))
    OBVIOUS
  <2> DEFINE n == tagWeight(t)
  <2>1. n \in Nat
    BY WeightIsNat
  <2> HIDE DEF n
  <2>2. IsFiniteSet(1..n)
    BY <2>1, FS_Interval
  <2>3. IsFiniteSet({t})
    BY FS_Singleton
  <2>4. IsFiniteSet({t} \X (1..n))
    BY <2>2, <2>3, FS_Product
  <2> QED
    BY <2>4 DEF n
<1>2. IsFiniteSet(Units(T))
  <2> DEFINE F(t) == {t} \X (1..tagWeight(t))
             all == {F(t) : t \in T}
  <2>1. IsFiniteSet(all)
    <3> DEFINE f == [t \in T |-> F(t)]
    <3> HIDE DEF F
    <3>1. f \in Surjection(T, all)
      BY DEF Surjection
    <3> QED
      BY <3>1, FS_Surjection
  <2>2. \A u \in all : IsFiniteSet(u)
    BY <1>1
  <2> HIDE DEF all
  <2>3. IsFiniteSet(UNION all)
    BY <2>1, <2>2, FS_UNION
  <2> QED
    BY <2>3 DEF all
<1>3. Units(S) \subseteq Units(T)
  OBVIOUS
<1> HIDE DEF Units
<1>4. /\ IsFiniteSet(Units(S)) /\ Cardinality(Units(S)) <= Cardinality(Units(T))
      /\ IsFiniteSet(S) /\ Cardinality(S) <= Cardinality(T)
  BY <1>2, <1>3, FS_Subset
<1>5. /\ Cardinality(Units(S)) \in Nat /\ Cardinality(Units(T)) \in Nat
      /\ Cardinality(S) \in Nat /\ Cardinality(T) \in Nat
  BY <1>2, <1>4, FS_CardinalityType
<1>6. \A A : totalScore(A) = Cardinality(Units(A))
  BY DEF totalScore, Units
<1> QED
  BY <1>4, <1>5, <1>6

Levels == {"LOW", "MEDIUM", "HIGH", "CRITICAL"}
LEMMA RankOfLevels ==
  /\ DOMAIN riskRank = Levels
  /\ riskRank["LOW"] = 1 /\ riskRank["MEDIUM"] = 2
  /\ riskRank["HIGH"] = 3 /\ riskRank["CRITICAL"] = 4
  BY DEF riskRank, Levels

\* A conversation with more kinds of sensitive data never has a lower risk,
\* whichever of the three criteria decides (calculateRiskLevel).
THEOREM RiskIsMonotone ==
  ASSUME NEW T, IsFiniteSet(T), NEW S \in SUBSET T
  PROVE  riskRank[calculateRiskLevel(S)] <= riskRank[calculateRiskLevel(T)]
<1> DEFINE Has(tags, group) == tags \intersect group # {}
           HasWeight(tags, n) == \E t \in tags : tagWeight(t) >= n
           HasTwo(tags) == \/ Has(tags, AuthTags) /\ Has(tags, IdentityTags)
                           \/ Has(tags, AuthTags) /\ Has(tags, FinancialTags)
                           \/ Has(tags, FinancialTags) /\ Has(tags, IdentityTags)
           Critical(tags) == HasWeight(tags, 95) \/ HasTwo(tags)
           High(tags) == \/ HasWeight(tags, 85) \/ totalScore(tags) >= 170
                         \/ Has(tags, IdentityTags) /\ Has(tags, ContactTags)
           Medium(tags) == \/ HasWeight(tags, 40) \/ totalScore(tags) >= 70
                           \/ Cardinality(tags) >= 2
           Level(tags) == IF Critical(tags) THEN "CRITICAL" ELSE IF High(tags) THEN "HIGH"
                          ELSE IF Medium(tags) THEN "MEDIUM" ELSE "LOW"
<1>1. \A tags : calculateRiskLevel(tags) = Level(tags)
  BY DEF calculateRiskLevel
<1>2. \A group : Has(S, group) => Has(T, group)
  OBVIOUS
<1>3. \A n : HasWeight(S, n) => HasWeight(T, n)
  OBVIOUS
<1>4. \A n \in Nat : totalScore(S) >= n => totalScore(T) >= n
  BY ScoreIsMonotone
<1>5. Cardinality(S) >= 2 => Cardinality(T) >= 2
  BY ScoreIsMonotone
<1> HIDE DEF Has, HasWeight
<1>6. Critical(S) => Critical(T)
  BY <1>2, <1>3
<1>7. High(S) => High(T)
  BY <1>2, <1>3, <1>4
<1>8. Medium(S) => Medium(T)
  BY <1>3, <1>4, <1>5
<1> HIDE DEF Critical, High, Medium
<1>9. riskRank[Level(S)] <= riskRank[Level(T)]
  BY <1>6, <1>7, <1>8, RankOfLevels
<1> QED
  BY <1>1, <1>9

\* The highest of several levels is one of them.
LEMMA HighestLevel ==
  ASSUME NEW levels \in SUBSET Levels
  PROVE  /\ maxRiskLevel(levels) \in levels \union {"LOW"}
         /\ \A s \in levels \union {"LOW"} : riskRank[s] <= riskRank[maxRiskLevel(levels)]
<1> DEFINE all == levels \union {"LOW"}
           Highest(r) == \A s \in all : riskRank[s] <= riskRank[r]
<1>1. \E r \in all : Highest(r)
  <2>1. all \subseteq Levels
    BY DEF Levels
  <2>2. CASE "CRITICAL" \in all
    <3>1. Highest("CRITICAL")
      BY <2>1, RankOfLevels DEF Levels
    <3> QED
      BY <2>2, <3>1
  <2>3. CASE "CRITICAL" \notin all /\ "HIGH" \in all
    <3>1. Highest("HIGH")
      BY <2>1, <2>3, RankOfLevels DEF Levels
    <3> QED
      BY <2>3, <3>1
  <2>4. CASE "CRITICAL" \notin all /\ "HIGH" \notin all /\ "MEDIUM" \in all
    <3>1. Highest("MEDIUM")
      BY <2>1, <2>4, RankOfLevels DEF Levels
    <3> QED
      BY <2>4, <3>1
  <2>5. CASE "CRITICAL" \notin all /\ "HIGH" \notin all /\ "MEDIUM" \notin all
    <3>1. Highest("LOW")
      BY <2>1, <2>5, RankOfLevels DEF Levels
    <3> QED
      BY <3>1
  <2> QED
    BY <2>2, <2>3, <2>4, <2>5
<1> QED
  BY <1>1 DEF maxRiskLevel

LEMMA LevelOfTags == \A tags : calculateRiskLevel(tags) \in Levels
  BY DEF calculateRiskLevel, Levels

\* A rule as configured; whatever its risk says, the compiled one has a level.
Rule == [name : STRING, risk : STRING, tags : SUBSET STRING]
LEMMA LevelOfRule ==
  ASSUME NEW rule \in Rule
  PROVE  normalizeRule(rule).risk \in Levels
<1> DEFINE level == IF rule.risk \in DOMAIN riskRank THEN rule.risk ELSE "MEDIUM"
           q == [rule EXCEPT !.risk = level]
<1>1. level \in Levels
  BY RankOfLevels DEF Levels
<1> HIDE DEF level
<1>2. q.risk = level /\ DOMAIN q = {"name", "risk", "tags"}
  BY DEF Rule
<1>3. normalizeRule(rule) = [q EXCEPT !.tags = IF @ = {} THEN {"lifecycle:deprecated"} ELSE @]
  BY DEF normalizeRule, Rule, level
<1> HIDE DEF q
<1> QED
  BY <1>1, <1>2, <1>3

\* The stored risk level is at least that of the sensitive data and of every
\* rule that matched, and a conversation with more of either never has a lower
\* one (ProcessLog, maxRiskLevel).
THEOREM RiskLevelCovers ==
  ASSUME NEW rules \in SUBSET Rule, NEW log, NEW more, IsFiniteSet(detectedPII(more)),
         detectedPII(log) \subseteq detectedPII(more),
         Evaluate(rules, log) \subseteq Evaluate(rules, more)
  PROVE  /\ riskRank[calculateRiskLevel(detectedPII(log))] <= riskRank[riskLevel(rules, log)]
         /\ \A f \in Evaluate(rules, log) : riskRank[f.risk] <= riskRank[riskLevel(rules, log)]
         /\ riskRank[riskLevel(rules, log)] <= riskRank[riskLevel(rules, more)]
<1> DEFINE Of(l) == {calculateRiskLevel(detectedPII(l))} \union {f.risk : f \in Evaluate(rules, l)}
<1>1. \A l : \A f \in Evaluate(rules, l) : f.risk \in Levels
  BY LevelOfRule DEF Evaluate
<1>2. \A l : Of(l) \in SUBSET Levels /\ riskLevel(rules, l) = maxRiskLevel(Of(l))
  BY <1>1, LevelOfTags DEF riskLevel
<1>3. \A l : /\ riskLevel(rules, l) \in Of(l) \union {"LOW"}
             /\ \A s \in Of(l) \union {"LOW"} : riskRank[s] <= riskRank[riskLevel(rules, l)]
  <2> HIDE DEF Of
  <2> QED
    BY <1>2, HighestLevel
<1>4. ASSUME NEW s \in Of(log) \union {"LOW"}
      PROVE  \E t \in Of(more) \union {"LOW"} : riskRank[s] <= riskRank[t]
  <2>1. s \in Levels
    BY <1>2 DEF Levels
  <2>2. riskRank[s] <= riskRank[s]
    BY <2>1, RankOfLevels DEF Levels
  <2>3. CASE s = calculateRiskLevel(detectedPII(log))
    <3> DEFINE S == detectedPII(log)
               T == detectedPII(more)
    <3>1. IsFiniteSet(T) /\ S \in SUBSET T
      OBVIOUS
    <3> HIDE DEF S, T
    <3>2. riskRank[calculateRiskLevel(S)] <= riskRank[calculateRiskLevel(T)]
      BY <3>1, RiskIsMonotone
    <3> QED
      BY <2>3, <3>2 DEF S, T
  <2>4. CASE s = "LOW"
    BY <2>2, <2>4
  <2>5. CASE s \in {f.risk : f \in Evaluate(rules, log)}
    BY <2>2, <2>5
  <2> QED
    BY <1>4, <2>3, <2>4, <2>5
<1>5. riskRank[riskLevel(rules, log)] <= riskRank[riskLevel(rules, more)]
  <2>1. PICK t \in Of(more) \union {"LOW"} : riskRank[riskLevel(rules, log)] <= riskRank[t]
    <3> HIDE DEF Of
    <3> QED
      BY <1>3, <1>4
  <2>2. riskRank[t] <= riskRank[riskLevel(rules, more)]
    <3> HIDE DEF Of
    <3> QED
      BY <1>3
  <2>3. \A l : riskLevel(rules, l) \in Levels
    <3> HIDE DEF Of
    <3> QED
      BY <1>2, <1>3 DEF Levels
  <2>4. \A s \in Levels : riskRank[s] \in Nat
    BY RankOfLevels DEF Levels
  <2>5. t \in Levels
    <3> HIDE DEF Of
    <3> QED
      BY <1>2 DEF Levels
  <2> HIDE DEF Of
  <2> QED
    BY <2>1, <2>2, <2>3, <2>4, <2>5
<1> QED
  BY <1>3, <1>5
=============================================================================
