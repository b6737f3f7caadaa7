------------------------- MODULE GeoProvenance_proofs -------------------------
(* Safety of GeoProvenance for any requests, exports, reloads and failing     *)
(* queries: who is answered, with whose data, and what an error shows.        *)
EXTENDS GeoProvenance, Resolver_proofs, ProvenanceQueries_proofs, SequenceTheorems

-----------------------------------------------------------------------------
(* What a loop keeps of a slice.                                             *)

(* The indices kept, each once and in order.                                 *)
LEMMA AscendingIndices ==
    ASSUME NEW N \in Nat, NEW kept \in SUBSET (1..N)
    PROVE  /\ IsFiniteSet(kept) /\ Cardinality(kept) \in Nat
           /\ Ascending(kept) \in [1..Cardinality(kept) -> kept]
           /\ \A j \in kept : \E k \in 1..Cardinality(kept) : Ascending(kept)[k] = j
           /\ \A j, k \in 1..Cardinality(kept) : j < k => Ascending(kept)[j] < Ascending(kept)[k]
<1> DEFINE before == {p \in kept \X kept : p[1] < p[2]}
<1>1. IsFiniteSet(kept)
  <2>1. IsFiniteSet(1..N)
    BY FS_Interval
  <2>2. QED
    BY <2>1, FS_Subset
<1>2. StrictOrder(kept, before)
  <2>1. \A x, y \in kept : <<x, y>> \in before <=> x < y
    OBVIOUS
  <2> HIDE DEF before
  <2>2. QED
    BY <2>1 DEF StrictOrder
<1>3. \A x, y : <<x, y>> \in before => x < y
  OBVIOUS
<1>4. Ascending(kept) = InOrder(kept, before)
  BY DEF Ascending
<1> HIDE DEF before
<1>5. /\ Cardinality(kept) \in Nat /\ Ascending(kept) \in [1..Cardinality(kept) -> kept]
      /\ \A j \in kept : \E k \in 1..Cardinality(kept) : Ascending(kept)[k] = j
      /\ \A j, k \in 1..Cardinality(kept) : j < k =>
            <<Ascending(kept)[j], Ascending(kept)[k]>> \in before
  BY <1>1, <1>2, <1>4, ListedInOrder
<1>6. QED
  BY <1>1, <1>3, <1>5

IsList(s) == Len(s) \in Nat /\ s = [k \in 1..Len(s) |-> s[k]]

(* As a sequence.                                                            *)
LEMMA KeepSeq ==
    ASSUME NEW N \in Nat, NEW s, NEW kept \in SUBSET (1..N)
    PROVE  /\ Len(Keep(s, kept)) = Cardinality(kept) /\ Cardinality(kept) \in Nat
           /\ DOMAIN Keep(s, kept) = 1..Cardinality(kept)
           /\ IsList(Keep(s, kept)) /\ (Keep(s, kept) = <<>> <=> Cardinality(kept) = 0)
           /\ \A k \in 1..Cardinality(kept) :
                 Ascending(kept)[k] \in kept /\ Keep(s, kept)[k] = s[Ascending(kept)[k]]
<1>1. Cardinality(kept) \in Nat /\ Ascending(kept) \in [1..Cardinality(kept) -> kept]
  BY AscendingIndices
<1>2. Keep(s, kept) = [k \in 1..Cardinality(kept) |-> s[Ascending(kept)[k]]]
  BY <1>1 DEF Keep
<1>3. Keep(s, kept) \in Seq({s[j] : j \in kept})
  BY <1>1, <1>2
<1>4. Len(Keep(s, kept)) = Cardinality(kept)
  BY <1>1, <1>2, <1>3, LenProperties
<1>5. Keep(s, kept) = <<>> <=> Cardinality(kept) = 0
  BY <1>3, <1>4, EmptySeq
<1>6. IsList(Keep(s, kept))
  BY <1>1, <1>2, <1>4 DEF IsList
<1>7. QED
  BY <1>1, <1>2, <1>4, <1>5, <1>6

(* Lists are what append and concatenation make them.                        *)
LEMMA FunctionIsList ==
    ASSUME NEW n \in Nat, NEW s, s = [k \in 1..n |-> s[k]]
    PROVE  IsList(s) /\ Len(s) = n /\ s \in Seq({s[k] : k \in 1..n})
<1> DEFINE T == {s[k] : k \in 1..n}
<1>1. s \in [1..n -> T]
  OBVIOUS
<1> HIDE DEF T
<1>2. s \in Seq(T) /\ DOMAIN s = 1..n
  BY <1>1, SeqDef
<1>3. Len(s) = n
  BY <1>2, LenProperties
<1>4. QED
  BY <1>2, <1>3 DEF IsList, T

LEMMA Appended ==
    ASSUME NEW s, IsList(s), NEW x
    PROVE  /\ IsList(Append(s, x)) /\ Len(Append(s, x)) = Len(s) + 1
           /\ \A k \in 1..Len(s) : Append(s, x)[k] = s[k]
           /\ Append(s, x)[Len(s) + 1] = x
<1> DEFINE S == {s[k] : k \in 1..Len(s)}
           T == S \union {x}
<1>1. Len(s) \in Nat /\ s = [k \in 1..Len(s) |-> s[k]]
  BY DEF IsList
<1>2. s \in Seq(S)
  BY <1>1, FunctionIsList
<1>3. S \subseteq T /\ x \in T
  OBVIOUS
<1> HIDE DEF S, T
<1>4. s \in Seq(T)
  BY <1>2, <1>3, SeqMonotonic
<1>5. /\ Append(s, x) \in Seq(T) /\ Len(Append(s, x)) = Len(s) + 1
      /\ \A k \in 1..Len(s) : Append(s, x)[k] = s[k]
      /\ Append(s, x)[Len(s) + 1] = x
  BY <1>3, <1>4, AppendProperties
<1>6. IsList(Append(s, x))
  BY <1>5, LenProperties DEF IsList
<1>7. QED
  BY <1>5, <1>6

LEMMA Joined ==
    ASSUME NEW s, IsList(s), NEW u, IsList(u)
    PROVE  /\ IsList(s \o u) /\ Len(s \o u) = Len(s) + Len(u)
           /\ \A k \in 1..Len(s) : (s \o u)[k] = s[k]
           /\ \A k \in 1..Len(u) : (s \o u)[Len(s) + k] = u[k]
<1> DEFINE S == {s[k] : k \in 1..Len(s)}
           U == {u[k] : k \in 1..Len(u)}
           T == S \union U
<1>1. /\ Len(s) \in Nat /\ s = [k \in 1..Len(s) |-> s[k]]
      /\ Len(u) \in Nat /\ u = [k \in 1..Len(u) |-> u[k]]
  BY DEF IsList
<1>2. s \in Seq(S) /\ u \in Seq(U)
  BY <1>1, FunctionIsList
<1>3. S \subseteq T /\ U \subseteq T
  OBVIOUS
<1> HIDE DEF S, U, T
<1>4. s \in Seq(T) /\ u \in Seq(T)
  BY <1>2, <1>3, SeqMonotonic
<1>5. /\ s \o u \in Seq(T) /\ Len(s \o u) = Len(s) + Len(u)
      /\ \A k \in 1..(Len(s) + Len(u)) :
            (s \o u)[k] = IF k <= Len(s) THEN s[k] ELSE u[k - Len(s)]
  BY <1>4, ConcatProperties
<1>6. IsList(s \o u)
  BY <1>5, LenProperties DEF IsList
<1>7. \A k \in 1..Len(s) : (s \o u)[k] = s[k]
  BY <1>1, <1>5
<1>8. \A k \in 1..Len(u) : (s \o u)[Len(s) + k] = u[k]
  <2> TAKE k \in 1..Len(u)
  <2>1. Len(s) + k \in 1..(Len(s) + Len(u)) /\ ~(Len(s) + k <= Len(s)) /\ Len(s) + k - Len(s) = k
    BY <1>1
  <2>2. QED
    BY <1>5, <2>1
<1>9. QED
  BY <1>5, <1>6, <1>7, <1>8

(* A loop that keeps some and one that keeps the others see all of them.     *)
LEMMA KeepSplits ==
    ASSUME NEW N \in Nat, NEW kept \in SUBSET (1..N)
    PROVE  Cardinality(kept) + Cardinality((1..N) \ kept) = N
<1> DEFINE others == (1..N) \ kept
<1>1. IsFiniteSet(kept) /\ IsFiniteSet(others) /\ Cardinality(1..N) = N
  <2>1. IsFiniteSet(1..N) /\ Cardinality(1..N) = N
    BY FS_Interval
  <2>2. QED
    BY <2>1, FS_Subset
<1>2. Cardinality(kept \union others) = Cardinality(kept) + Cardinality(others) - Cardinality(kept \intersect others)
  BY <1>1, FS_Union
<1>3. kept \union others = 1..N /\ kept \intersect others = {}
  OBVIOUS
<1>4. Cardinality(kept) \in Nat /\ Cardinality(others) \in Nat
  BY <1>1, FS_CardinalityType
<1>5. Cardinality(kept \intersect others) = 0
  BY <1>3, FS_EmptySet
<1>6. Cardinality(kept \union others) = N
  BY <1>1, <1>3
<1> HIDE DEF others
<1>7. Cardinality(kept) + Cardinality(others) = N
  BY <1>2, <1>4, <1>5, <1>6
<1>8. QED
  BY <1>7 DEF others
-----------------------------------------------------------------------------
(* What resolving leaves of a requested component.                           *)

IsAsked(dto) ==
    /\ dto.purl \in PurlType /\ dto.purl.name \in DOMAIN NameOf
    /\ dto.purl.cut \in {"none", ""} \union DOMAIN NameOf

(* c was made from dto: its purls are those sanitising gave it.              *)
Kin(dto, c) == c.original = dto.purl /\ c.purl = SanitiseComponent(dto).purl

(* It was answered: it is found only with the key of a component.            *)
Outcome(dto, c) ==
    /\ Kin(dto, c)
    /\ WorthIt(c) => c.purl_id \in Ids /\ c.purl.name # ""

LEMMA NotFoundIsOutcome ==
    ASSUME NEW dto, IsAsked(dto)
    PROVE  Outcome(dto, NotFound(SanitiseComponent(dto)))
<1> DEFINE c == SanitiseComponent(dto)
<1>1. c \in {Sanitised(dto), Invalid(dto)}
  BY DEF SanitiseComponent
<1>2. /\ NotFound(c).original = c.original /\ NotFound(c).purl = c.purl
      /\ NotFound(c).status = "COMPONENT_NOT_FOUND"
  BY <1>1 DEF NotFound, Sanitised, Invalid
<1>3. c.original = dto.purl
  BY SanitisedType DEF IsAsked
<1>4. QED
  BY <1>2, <1>3 DEF Outcome, Kin, WorthIt

LEMMA ResolutionIsOutcome ==
    ASSUME NEW dto, IsAsked(dto), NEW f \in Files, NEW g \in Files
    PROVE  Outcome(dto, ResolutionAcross(SanitiseComponent(dto), Export[f], Export[g]))
<1> DEFINE c == SanitiseComponent(dto)
           row == PickKey(CandidateKeys(c.purl), Export[f].rows)
           versions == Export[g].published[row.purl_id]
           outcome == ResolutionAcross(c, Export[f], Export[g])
<1>1. /\ c.purl \in PurlType /\ c.original = dto.purl
      /\ c.status \in {"SUCCESS", "INVALID_PURL"}
      /\ c.status = "SUCCESS" => c = Sanitised(dto) /\ c.purl.name # ""
  BY SanitisedType DEF IsAsked
<1>2. CASE c.status # "SUCCESS"
  <2>1. outcome = c
    BY <1>2 DEF ResolutionAcross
  <2>2. QED
    BY <1>1, <1>2, <2>1 DEF Outcome, Kin, WorthIt
<1>3. CASE c.status = "SUCCESS" /\ row = NoRow
  <2>1. outcome = NotFound(c)
    BY <1>3 DEF ResolutionAcross
  <2>2. QED
    BY <2>1, NotFoundIsOutcome
<1>4. CASE c.status = "SUCCESS" /\ row # NoRow
  <2>1. outcome = Found(c, row.purl_id, versions)
    BY <1>4 DEF ResolutionAcross
  <2>2. CandidateKeys(c.purl) \in Seq(Keys(c.purl))
    BY <1>1, CandidateKeysType
  <2>3. row \in Export[f].rows
    BY <1>4, <2>2, PicksMostSpecific
  <2>4. row.purl_id \in DOMAIN Export[f].published
    BY <2>3, GeoAssumption DEF GeoAssumption
  <2>5. row.purl_id \in Ids
    BY <2>4 DEF Ids
  <2>6. c = Sanitised(dto) /\ c.purl.name # ""
    BY <1>1, <1>4
  <2> HIDE DEF row, versions
  <2>7. /\ Found(c, row.purl_id, versions).original = c.original
        /\ Found(c, row.purl_id, versions).purl = c.purl
        /\ Found(c, row.purl_id, versions).purl_id = row.purl_id
    BY <2>6 DEF Found, Sanitised
  <2>8. QED
    BY <1>1, <2>1, <2>5, <2>6, <2>7 DEF Outcome, Kin
<1>5. QED
  BY <1>2, <1>3, <1>4

(* A component worth looking up has a name that can be derived.              *)
LEMMA OutcomeIsNamed ==
    ASSUME NEW dto, IsAsked(dto), NEW c, Outcome(dto, c), WorthIt(c)
    PROVE  Name(c) \in Names
<1>1. c.purl \in {dto.purl, Stripped(dto.purl)} /\ c.purl.name # ""
  BY SanitisedType DEF Outcome, Kin, IsAsked
<1>2. \/ c.purl.name = dto.purl.name
      \/ c.purl.name = dto.purl.cut /\ dto.purl.cut # "none"
  BY <1>1, StrippedPurl DEF IsAsked
<1>3. c.purl.name \in DOMAIN NameOf
  BY <1>1, <1>2 DEF IsAsked
<1>4. QED
  BY <1>3 DEF Name, Names
-----------------------------------------------------------------------------
(* The percentages.                                                          *)

(* The running totals of n counts.                                           *)
Sums(s, n, sum) ==
    /\ sum \in [0..n -> Nat] /\ sum[0] = 0
    /\ \A k \in 1..n : sum[k] = sum[k - 1] + s[k].count

LEMMA TotalSums ==
    ASSUME NEW n \in Nat, NEW s, Len(s) = n, \A k \in 1..n : s[k].count \in Nat
    PROVE  \E sum : Sums(s, n, sum) /\ Total(s) = sum[n]
<1> DEFINE Solves(f) == f = [k \in 0..n |-> IF k = 0 THEN 0 ELSE f[k - 1] + s[k].count]
           sum == CHOOSE f : Solves(f)
           step == [p \in (1..n) \X Nat |-> p[2] + s[p[1]].count]
<1>1. step \in [(1..n) \X Nat -> Nat]
  OBVIOUS
<1>2. PICK f \in [0..n -> Nat] : f[0] = 0 /\ \A k \in 1..n : f[k] = step[<<k, f[k - 1]>>]
  <2> HIDE DEF step, Solves, sum
  <2>1. \E f \in [0..n -> Nat] : Recurs(f, n, 0, step)
    BY <1>1, Recursion
  <2>2. QED
    BY <2>1 DEF Recurs
<1>3. \A k \in 1..n : f[k] = f[k - 1] + s[k].count
  <2> SUFFICES ASSUME NEW k \in 1..n PROVE f[k] = f[k - 1] + s[k].count
    OBVIOUS
  <2>1. <<k, f[k - 1]>> \in (1..n) \X Nat
    BY <1>2
  <2>2. QED
    BY <1>2, <2>1
<1>4. Solves(f)
  <2> DEFINE g == [k \in 0..n |-> IF k = 0 THEN 0 ELSE f[k - 1] + s[k].count]
  <2>1. \A k \in 0..n : f[k] = g[k]
    BY <1>2, <1>3
  <2>2. f = g
    BY <1>2, <2>1
  <2>3. QED
    BY <2>2
<1>5. Solves(sum)
  <2> HIDE DEF Solves
  <2>1. \E h : Solves(h)
    BY <1>4
  <2>2. QED
    BY <2>1, Zenon
<1>6. Total(s) = sum[n]
  BY DEF Total
<1> HIDE DEF sum
<1>7. DOMAIN sum = 0..n /\ sum[0] = 0
  BY <1>5
<1>8. \A k \in 1..n : sum[k] = sum[k - 1] + s[k].count
  BY <1>5
<1> HIDE DEF Solves
<1>9. sum \in [0..n -> Nat]
  <2> DEFINE S == {m \in Nat : m <= n => sum[m] \in Nat}
  <2>1. 0 \in S
    BY <1>7
  <2>2. ASSUME NEW m \in S PROVE m + 1 \in S
    <3>1. CASE m + 1 <= n
      <4>1. m + 1 \in 1..n /\ m + 1 - 1 = m /\ sum[m] \in Nat
        BY <3>1
      <4>2. sum[m + 1] = sum[m] + s[m + 1].count /\ s[m + 1].count \in Nat
        BY <1>8, <4>1
      <4>3. QED
        BY <4>1, <4>2
    <3>2. CASE ~(m + 1 <= n)
      BY <3>2
    <3>3. QED
      BY <3>1, <3>2
  <2>3. S \in SUBSET Nat
    OBVIOUS
  <2> HIDE DEF S
  <2>4. S = Nat
    BY <2>1, <2>2, <2>3, Induction
  <2>5. \A m \in 0..n : sum[m] \in Nat
    BY <2>4 DEF S
  <2>6. sum = [m \in 0..n |-> sum[m]]
    BY <1>5, <1>7 DEF Solves
  <2>7. QED
    BY <2>5, <2>6
<1>10. QED
  BY <1>6, <1>7, <1>8, <1>9 DEF Sums

(* No count is more than the total.                                          *)
LEMMA CountsWithinTotal ==
    ASSUME NEW n \in Nat, NEW s, Len(s) = n, \A k \in 1..n : s[k].count \in Nat
    PROVE  Total(s) \in Nat /\ \A k \in 1..n : s[k].count <= Total(s)
<1>1. PICK sum : Sums(s, n, sum) /\ Total(s) = sum[n]
  BY TotalSums
<1> DEFINE S == {m \in Nat : m <= n => \A k \in 1..m : s[k].count <= sum[m]}
<1>2. sum \in [0..n -> Nat] /\ \A k \in 1..n : sum[k] = sum[k - 1] + s[k].count
  BY <1>1 DEF Sums
<1>3. 0 \in S
  OBVIOUS
<1>4. ASSUME NEW m \in S PROVE m + 1 \in S
  <2> SUFFICES ASSUME m + 1 <= n, NEW k \in 1..(m + 1) PROVE s[k].count <= sum[m + 1]
    OBVIOUS
  <2>1. m + 1 \in 1..n /\ m + 1 - 1 = m /\ m \in 0..n
    OBVIOUS
  <2>2. sum[m + 1] = sum[m] + s[m + 1].count
    BY <1>2, <2>1
  <2>3. sum[m] \in Nat /\ s[m + 1].count \in Nat /\ s[k].count \in Nat
    BY <1>2, <2>1
  <2>4. k = m + 1 \/ k \in 1..m
    OBVIOUS
  <2>5. k \in 1..m => s[k].count <= sum[m]
    OBVIOUS
  <2>6. QED
    BY <2>2, <2>3, <2>4, <2>5
<1>5. S \in SUBSET Nat
  OBVIOUS
<1> HIDE DEF S
<1>6. S = Nat
  BY <1>3, <1>4, <1>5, Induction
<1>7. \A k \in 1..n : s[k].count <= sum[n]
  BY <1>6 DEF S
<1>8. sum[n] \in Nat
  BY <1>2
<1>9. QED
  BY <1>1, <1>7, <1>8

LEMMA PercentageRange == \A q : q \in Percentage <=> q \in Nat /\ q <= 10000
<1>1. Hundred \in Nat
  BY DEF Hundred
<1>2. \A q : q \in Percentage <=> q \in Nat /\ q <= Hundred
  BY <1>1 DEF Percentage
<1>3. QED
  BY <1>2 DEF Hundred

LEMMA Division ==
    ASSUME NEW a \in Nat, NEW b \in Nat, b > 0
    PROVE  a \div b \in Nat /\ b * (a \div b) <= a /\ a < b * (a \div b) + b
OBVIOUS

LEMMA DivisionRises ==
    ASSUME NEW a \in Nat, NEW c \in Nat, c <= a, NEW b \in Nat, b > 0
    PROVE  c \div b <= a \div b
OBVIOUS

(* The share of a count is within half a hundredth of its percentage.        *)
Near(share, o, t) ==
    /\ (2 * t) * share.count <= 20000 * o.count + t
    /\ 20000 * o.count + t < (2 * t) * share.count + 2 * t

LEMMA ShareIsNear ==
    ASSUME NEW o, o.count \in Nat, NEW t \in Nat, t > 0, o.count <= t
    PROVE  /\ Share(o, t).country = o.country
           /\ Share(o, t).count \in Percentage
           /\ Near(Share(o, t), o, t)
<1> DEFINE q == (20000 * o.count + t) \div (2 * t)
<1>1. Share(o, t).country = o.country /\ Share(o, t).count = q
  BY DEF Share
<1>2. 20000 * o.count + t \in Nat /\ 2 * t \in Nat /\ 2 * t > 0
  OBVIOUS
<1>3. /\ q \in Nat /\ (2 * t) * q <= 20000 * o.count + t
      /\ 20000 * o.count + t < (2 * t) * q + 2 * t
  <2> DEFINE a == 20000 * o.count + t
             b == 2 * t
  <2>1. a \in Nat /\ b \in Nat /\ b > 0 /\ q = a \div b
    OBVIOUS
  <2> HIDE DEF a, b, q
  <2>2. q \in Nat /\ b * q <= a /\ a < b * q + b
    BY <2>1, Division
  <2>3. QED
    BY <2>2 DEF a, b
<1> HIDE DEF q
<1>4. q \in Percentage
  <2> SUFFICES q <= 10000
    BY <1>3, PercentageRange
  <2> SUFFICES ASSUME q >= 10001 PROVE FALSE
    BY <1>3
  <2>1. (2 * t) * q >= (2 * t) * 10001
    BY <1>3
  <2>2. QED
    BY <1>3, <2>1
<1>5. Near(Share(o, t), o, t)
  BY <1>1, <1>3 DEF Near
<1>6. QED
  BY <1>1, <1>3, <1>4, <1>5

ShareType == [country : Int, count : Percentage]

(* What GetOrigin makes of a query's counts: the same countries in the same   *)
(* order, and percentages that add up to a hundred but for the rounding.     *)
LEMMA SharesOfRanking ==
    ASSUME NEW s, NEW contributors, IsRanking(s, contributors), NEW u, u = Shares(s)
    PROVE  \E n \in Nat :
              /\ DOMAIN s = 1..n /\ DOMAIN u = 1..n
              /\ Len(s) = n /\ Len(u) = n
              /\ u \in Seq(ShareType)
              /\ \A k \in 1..n : u[k].country = s[k].country
              /\ \A j, k \in 1..n : j < k => u[j].count >= u[k].count
              /\ n > 0 => 2 * Total(u) <= 20000 + n /\ 2 * Total(u) >= 20000 - n
              /\ Total(s) \in Nat /\ \A k \in 1..n : Near(u[k], s[k], Total(s))
<1>1. PICK n \in Nat : /\ DOMAIN s = 1..n
                       /\ s = [k \in 1..n |-> [country |-> s[k].country, count |-> s[k].count]]
  BY DEF IsRanking
<1>2. \A k \in 1..n : s[k].country \in Int /\ s[k].count \in Nat /\ s[k].count > 0
  BY <1>1 DEF IsRanking
<1>3. \A j, k \in 1..n : j < k => s[j].count >= s[k].count
  BY <1>1 DEF IsRanking
<1>4. Len(s) = n
  <2>1. s = [k \in 1..n |-> s[k]]
    BY <1>1
  <2>2. QED
    BY <2>1, FunctionIsList
<1> DEFINE t == Total(s)
<1>5. t \in Nat /\ \A k \in 1..n : s[k].count <= t
  BY <1>2, <1>4, CountsWithinTotal
<1>6. u = [k \in 1..n |-> Share(s[k], t)]
  BY <1>1 DEF Shares
<1> HIDE DEF t
<1>7. \A k \in 1..n : t > 0 /\ s[k].count \in Nat /\ s[k].count <= t
  BY <1>2, <1>5
<1>8. \A k \in 1..n : /\ u[k].country = s[k].country /\ u[k].count \in Percentage
                      /\ Near(u[k], s[k], t)
  <2> TAKE k \in 1..n
  <2>1. u[k] = Share(s[k], t)
    BY <1>6
  <2>2. t > 0 /\ s[k].count \in Nat /\ s[k].count <= t
    BY <1>7
  <2>3. QED
    BY <1>5, <2>1, <2>2, ShareIsNear
<1>9. \A k \in 1..n : u[k] \in [country : Int, count : Percentage]
  <2> TAKE k \in 1..n
  <2>1. u[k] = [country |-> u[k].country, count |-> u[k].count]
    BY <1>6 DEF Share
  <2>2. u[k].country \in Int /\ u[k].count \in Percentage
    BY <1>2, <1>8
  <2>3. QED
    BY <2>1, <2>2
<1>10. u \in Seq([country : Int, count : Percentage]) /\ DOMAIN u = 1..n
  BY <1>6, <1>9
<1>11. Len(u) = n
  BY <1>10, LenProperties
<1>12. \A j, k \in 1..n : j < k => u[j].count >= u[k].count
  <2> SUFFICES ASSUME NEW j \in 1..n, NEW k \in 1..n, j < k PROVE u[j].count >= u[k].count
    OBVIOUS
  <2>1. s[k].count <= s[j].count /\ s[j].count \in Nat /\ s[k].count \in Nat /\ t > 0
    BY <1>3, <1>7
  <2>2. /\ u[j].count = (20000 * s[j].count + t) \div (2 * t)
        /\ u[k].count = (20000 * s[k].count + t) \div (2 * t)
    BY <1>6 DEF Share
  <2> DEFINE a == 20000 * s[j].count + t
             c == 20000 * s[k].count + t
             b == 2 * t
  <2>3. a \in Nat /\ c \in Nat /\ c <= a /\ b \in Nat /\ b > 0
    BY <1>5, <2>1
  <2>4. u[j].count = a \div b /\ u[k].count = c \div b
    BY <2>2
  <2> HIDE DEF a, b, c
  <2>5. c \div b <= a \div b
    BY <2>3, DivisionRises
  <2>6. u[j].count \in Nat /\ u[k].count \in Nat
    BY <1>8, PercentageRange
  <2>7. QED
    BY <2>4, <2>5, <2>6
<1>13. n > 0 => 2 * Total(u) <= 20000 + n /\ 2 * Total(u) >= 20000 - n
  <2> SUFFICES ASSUME n > 0 PROVE 2 * Total(u) <= 20000 + n /\ 2 * Total(u) >= 20000 - n
    OBVIOUS
  <2>1. PICK sum : Sums(s, n, sum) /\ t = sum[n]
    BY <1>2, <1>4, TotalSums DEF t
  <2>2. PICK whole : Sums(u, n, whole) /\ Total(u) = whole[n]
    BY <1>8, <1>11, PercentageRange, TotalSums
  <2>3. /\ sum \in [0..n -> Nat] /\ sum[0] = 0
        /\ \A k \in 1..n : sum[k] = sum[k - 1] + s[k].count
    BY <2>1 DEF Sums
  <2>4. /\ whole \in [0..n -> Nat] /\ whole[0] = 0
        /\ \A k \in 1..n : whole[k] = whole[k - 1] + u[k].count
    BY <2>2 DEF Sums
  <2> DEFINE S == {m \in Nat : m <= n =>
                      /\ (2 * t) * whole[m] <= 20000 * sum[m] + m * t
                      /\ 20000 * sum[m] + m * t <= (2 * t) * whole[m] + (2 * t) * m}
  <2>5. 0 \in S
    BY <1>5, <2>3, <2>4
  <2>6. ASSUME NEW m \in S PROVE m + 1 \in S
    <3> SUFFICES ASSUME m + 1 <= n
                 PROVE  /\ (2 * t) * whole[m + 1] <= 20000 * sum[m + 1] + (m + 1) * t
                        /\ 20000 * sum[m + 1] + (m + 1) * t
                              <= (2 * t) * whole[m + 1] + (2 * t) * (m + 1)
      OBVIOUS
    <3>1. m + 1 \in 1..n /\ m + 1 - 1 = m /\ m \in 0..n /\ m \in Nat
      OBVIOUS
    <3>2. /\ sum[m + 1] = sum[m] + s[m + 1].count
          /\ whole[m + 1] = whole[m] + u[m + 1].count
      <4>1. sum[m + 1] = sum[m] + s[m + 1].count
        BY <2>3, <3>1
      <4>2. whole[m + 1] = whole[m] + u[m + 1].count
        BY <2>4, <3>1
      <4>3. QED
        BY <4>1, <4>2
    <3>3. /\ sum[m] \in Nat /\ whole[m] \in Nat
          /\ s[m + 1].count \in Nat /\ u[m + 1].count \in Nat
      <4>1. sum[m] \in Nat /\ s[m + 1].count \in Nat
        BY <1>2, <2>3, <3>1
      <4>2. whole[m] \in Nat
        BY <2>4, <3>1
      <4>3. u[m + 1].count \in Nat
        BY <1>8, <3>1, PercentageRange
      <4>4. QED
        BY <4>1, <4>2, <4>3
    <3>4. /\ (2 * t) * u[m + 1].count <= 20000 * s[m + 1].count + t
          /\ 20000 * s[m + 1].count + t < (2 * t) * u[m + 1].count + 2 * t
      BY <1>8, <3>1 DEF Near
    <3>5. /\ (2 * t) * whole[m] <= 20000 * sum[m] + m * t
          /\ 20000 * sum[m] + m * t <= (2 * t) * whole[m] + (2 * t) * m
      BY <3>1
    <3> HIDE DEF S
    <3>6. /\ (2 * t) * whole[m + 1] = (2 * t) * whole[m] + (2 * t) * u[m + 1].count
          /\ (m + 1) * t = m * t + t /\ (2 * t) * (m + 1) = (2 * t) * m + 2 * t
      <4>1. (2 * t) * whole[m + 1] = (2 * t) * whole[m] + (2 * t) * u[m + 1].count
        BY <1>5, <3>2, <3>3
      <4>2. (m + 1) * t = m * t + t
        BY <1>5, <3>1
      <4>3. (2 * t) * (m + 1) = (2 * t) * m + 2 * t
        BY <1>5, <3>1
      <4>4. QED
        BY <4>1, <4>2, <4>3
    <3>7. QED
      BY <1>5, <3>1, <3>2, <3>3, <3>4, <3>5, <3>6
  <2>7. S \in SUBSET Nat
    OBVIOUS
  <2> HIDE DEF S
  <2>8. S = Nat
    BY <2>5, <2>6, <2>7, Induction
  <2>9. /\ (2 * t) * whole[n] <= 20000 * t + n * t
        /\ 20000 * t + n * t <= (2 * t) * whole[n] + (2 * t) * n
    BY <2>1, <2>8 DEF S
  <2>10. t > 0 /\ t \in Nat /\ whole[n] \in Nat
    BY <1>5, <1>7, <2>4
  <2>11. 2 * whole[n] <= 20000 + n
    <3> SUFFICES ASSUME 2 * whole[n] >= 20000 + n + 1 PROVE FALSE
      BY <2>10
    <3>1. t * (2 * whole[n]) >= t * (20000 + n + 1)
      BY <2>10
    <3>2. QED
      BY <2>9, <2>10, <3>1
  <2>12. 2 * whole[n] >= 20000 - n
    <3> SUFFICES ASSUME 2 * whole[n] + n + 1 <= 20000 PROVE FALSE
      BY <2>10
    <3>1. t * (2 * whole[n] + n + 1) <= t * 20000
      BY <2>10
    <3>2. QED
      BY <2>9, <2>10, <3>1
  <2>13. QED
    BY <2>2, <2>11, <2>12
<1>14. /\ DOMAIN s = 1..n /\ DOMAIN u = 1..n
       /\ Len(s) = n /\ Len(u) = n
       /\ u \in Seq(ShareType)
       /\ \A k \in 1..n : u[k].country = s[k].country
  BY <1>1, <1>4, <1>8, <1>10, <1>11 DEF ShareType
<1>15. Total(s) \in Nat /\ \A k \in 1..n : Near(u[k], s[k], Total(s))
  BY <1>5, <1>8 DEF t
<1>16. QED
  BY <1>12, <1>13, <1>14, <1>15

-----------------------------------------------------------------------------
(* The invariant.                                                            *)

asked == Len(NonEmpty)
settled == at \notin {"converting", "resolving"}
Types ==
    /\ endpoint \in {"provenance", "origin"} /\ request \in Requests
    /\ at \in {"converting", "resolving", "declared", "curated", "listed",
               "counting", "collecting", "replied"}
    /\ got = [declared |-> got.declared, counts |-> got.counts]
    /\ DOMAIN tooMany = Names
    /\ origins \in [Names -> Seq(ShareType)]
    /\ HandleTypeOK

(* A component is as sanitising left it until it has its answer.             *)
ComponentsInv ==
    /\ at = "converting" => components = <<>> /\ resolved = {}
    /\ at # "converting" => components = [k \in 1..asked |-> components[k]]
    /\ resolved \subseteq 1..asked
    /\ settled => resolved = 1..asked
    /\ \A k \in DOMAIN components :
          IF k \in resolved THEN Outcome(NonEmpty[k], components[k])
          ELSE components[k] = SanitiseComponent(NonEmpty[k])

(* Where the handler may be.                                                 *)
ControlInv ==
    /\ at \in {"declared", "curated", "listed"} => endpoint = "provenance"
    /\ at \in {"counting", "collecting"} => endpoint = "origin"
    /\ i \in 1..(Len(valid) + 1)
    /\ at \in {"curated", "listed", "collecting"} => i <= Len(valid)
    /\ at \notin {"converting", "replied"} => asked > 0
    /\ ~settled => items = <<>> /\ \A name \in Names : origins[name] = <<>>

(* What the first queries returned is about the component looked up.         *)
GotInv ==
    /\ at \in {"curated", "listed"} =>
          \E f \in served : got.declared = Declared[f][valid[i].purl_id]
    /\ at = "listed" => \E f \in served : got.counts = Curated[f][valid[i].purl_id]
    /\ at = "collecting" => \E f \in served : got.counts = Origin[f][valid[i].purl_id]

(* The data of a component, from the files in S.                             *)
ProvenanceOf(c, item, S) ==
    /\ item.purl = c.original
    /\ \E f \in S : item.declared = Declared[f][c.purl_id]
    /\ \E f \in S : item.places = Curated[f][c.purl_id]
    /\ \E f \in S : item.status = Status(Listed(f, c), item.declared # {} \/ item.places # <<>>,
                                         "SUCCESS")

OriginOf(c, places, listed, S) ==
    /\ \E f \in S : places = Shares(Origin[f][c.purl_id])
    /\ \E f \in S : listed = Listed(f, c)

(* The rejected ones first, then those looked up so far.                     *)
ItemsInv ==
    settled =>
        /\ IsList(items) /\ Len(items) <= asked
        /\ at # "replied" => /\ endpoint = "origin" => Len(items) = Len(rejected)
                             /\ endpoint = "provenance" => Len(items) = Len(rejected) + i - 1
        /\ at # "replied" \/ reply.code = 200 =>
              \A k \in 1..Len(rejected) : items[k].purl = rejected[k].purl
        /\ at # "replied" \/ reply.code = 200 =>
              \A k \in 1..Len(valid) :
                 endpoint = "provenance" /\ Len(rejected) + k <= Len(items) =>
                    ProvenanceOf(valid[k], items[Len(rejected) + k], served)

(* GetOrigin's maps, for the names of one component.                         *)
MapsInv ==
    settled /\ endpoint = "origin" => \A k \in 1..Len(valid) : ~Shared(k) =>
        IF k < i
        THEN OriginOf(valid[k], origins[Name(valid[k])], tooMany[Name(valid[k])], served)
        ELSE origins[Name(valid[k])] = <<>>

ReplyInv ==
    /\ at # "replied" => reply.code = 0
    /\ at = "replied" =>
        /\ reply.code \in {200, 400, 500}
        /\ reply.code # 200 => reply.items = <<>>
        /\ reply.code = 400 <=> asked = 0
        /\ reply.code = 500 => failures > 0
        /\ reply.code = 200 => /\ reply.items = items /\ Len(items) = asked
                               /\ i = Len(valid) + 1
                               /\ endpoint = "origin" => \A k \in 1..Len(valid) :
                                     items[Len(rejected) + k] = OriginItem(valid[k])

GeoInv ==
    Types /\ ComponentsInv /\ ControlInv /\ GotInv /\ ItemsInv /\ MapsInv /\ ReplyInv

-----------------------------------------------------------------------------
(* What the request asks for.                                                *)
LEMMA AskedFor ==
    ASSUME request \in Requests
    PROVE  /\ asked \in Nat /\ asked <= Len(request) /\ Len(request) \in Nat
           /\ DOMAIN NonEmpty = 1..asked /\ IsList(NonEmpty)
           /\ \A k \in 1..asked : IsAsked(NonEmpty[k])
           /\ NonEmpty = <<>> <=> asked = 0
<1> DEFINE N == Len(request)
           kept == {k \in DOMAIN request : request[k].purl.kind # "empty"}
<1>1. N \in Nat /\ DOMAIN request = 1..N /\ \A k \in 1..N : IsAsked(request[k])
  BY GeoAssumption DEF GeoAssumption, IsAsked
<1>2. kept \in SUBSET (1..N) /\ NonEmpty = Keep(request, kept)
  BY <1>1 DEF NonEmpty
<1> HIDE DEF N, kept
<1>3. /\ asked = Cardinality(kept) /\ asked \in Nat
      /\ DOMAIN NonEmpty = 1..asked
      /\ IsList(NonEmpty) /\ (NonEmpty = <<>> <=> asked = 0)
      /\ \A k \in 1..asked : Ascending(kept)[k] \in kept
                             /\ NonEmpty[k] = request[Ascending(kept)[k]]
  <2>1. N \in Nat
    BY <1>1
  <2>2. /\ Len(NonEmpty) = Cardinality(kept) /\ Cardinality(kept) \in Nat
        /\ DOMAIN NonEmpty = 1..Cardinality(kept)
        /\ IsList(NonEmpty) /\ (NonEmpty = <<>> <=> Cardinality(kept) = 0)
        /\ \A k \in 1..Cardinality(kept) :
              Ascending(kept)[k] \in kept /\ NonEmpty[k] = request[Ascending(kept)[k]]
    <3>1. kept \in SUBSET (1..N)
      BY <1>2
    <3>2. /\ Len(Keep(request, kept)) = Cardinality(kept) /\ Cardinality(kept) \in Nat
          /\ DOMAIN Keep(request, kept) = 1..Cardinality(kept)
          /\ IsList(Keep(request, kept)) /\ (Keep(request, kept) = <<>> <=> Cardinality(kept) = 0)
          /\ \A j \in 1..Cardinality(kept) :
                Ascending(kept)[j] \in kept /\ Keep(request, kept)[j] = request[Ascending(kept)[j]]
      BY <2>1, <3>1, KeepSeq
    <3>3. QED
      BY <1>2, <3>2
  <2>3. QED
    BY <2>2 DEF asked
<1>4. asked <= N
  <2>1. IsFiniteSet(1..N) /\ Cardinality(1..N) = N
    BY <1>1, FS_Interval
  <2>2. QED
    BY <1>2, <1>3, <2>1, FS_Subset
<1>5. \A k \in 1..asked : IsAsked(NonEmpty[k])
  BY <1>1, <1>2, <1>3
<1>6. QED
  BY <1>1, <1>3, <1>4, <1>5 DEF N

(* The components resolved, split in two.                                    *)
LEMMA SplitInTwo ==
    ASSUME Types, ComponentsInv, at # "converting", resolved = 1..asked,
           NEW looked, looked = Keep(components, Worth)
    PROVE  /\ Worth \in SUBSET (1..asked)
           /\ rejected = Keep(components, (1..asked) \ Worth)
           /\ Len(looked) = Cardinality(Worth) /\ DOMAIN looked = 1..Len(looked)
           /\ Len(rejected) = Cardinality((1..asked) \ Worth)
           /\ DOMAIN rejected = 1..Len(rejected)
           /\ Len(looked) \in Nat /\ Len(rejected) \in Nat /\ asked \in Nat
           /\ Len(rejected) + Len(looked) = asked
           /\ IsList(looked) /\ IsList(rejected)
           /\ \A k \in 1..Len(looked) : \E j \in 1..asked :
                 /\ looked[k] = components[j] /\ WorthIt(looked[k])
                 /\ Outcome(NonEmpty[j], looked[k]) /\ Name(looked[k]) \in Names
<1>1. asked \in Nat /\ \A k \in 1..asked : IsAsked(NonEmpty[k])
  BY AskedFor DEF Types
<1>2. DOMAIN components = 1..asked /\ \A k \in 1..asked : Outcome(NonEmpty[k], components[k])
  BY DEF ComponentsInv
<1> DEFINE others == (1..asked) \ Worth
<1>3. Worth \in SUBSET (1..asked) /\ \A k \in Worth : WorthIt(components[k])
  BY <1>2 DEF Worth
<1>4. rejected = Keep(components, others)
  BY <1>2 DEF rejected
<1>5. others \in SUBSET (1..asked)
  OBVIOUS
<1> HIDE DEF others
<1>6. /\ Len(looked) = Cardinality(Worth) /\ Len(looked) \in Nat
      /\ DOMAIN looked = 1..Len(looked) /\ IsList(looked)
      /\ \A k \in 1..Len(looked) : Ascending(Worth)[k] \in Worth
                                  /\ looked[k] = components[Ascending(Worth)[k]]
  <2>1. /\ Len(looked) = Cardinality(Worth) /\ Cardinality(Worth) \in Nat
        /\ DOMAIN looked = 1..Cardinality(Worth) /\ IsList(looked)
        /\ \A k \in 1..Cardinality(Worth) :
              Ascending(Worth)[k] \in Worth /\ looked[k] = components[Ascending(Worth)[k]]
    <3>1. asked \in Nat /\ Worth \in SUBSET (1..asked)
      BY <1>1, <1>3
    <3>2. /\ Len(Keep(components, Worth)) = Cardinality(Worth) /\ Cardinality(Worth) \in Nat
          /\ DOMAIN Keep(components, Worth) = 1..Cardinality(Worth)
          /\ IsList(Keep(components, Worth)) /\ (Keep(components, Worth) = <<>> <=> Cardinality(Worth) = 0)
          /\ \A j \in 1..Cardinality(Worth) :
                Ascending(Worth)[j] \in Worth /\ Keep(components, Worth)[j] = components[Ascending(Worth)[j]]
      BY <3>1, KeepSeq
    <3>3. QED
      BY <3>2
  <2>2. QED
    BY <2>1
<1>7. /\ Len(rejected) = Cardinality(others) /\ Len(rejected) \in Nat
      /\ DOMAIN rejected = 1..Len(rejected) /\ IsList(rejected)
  <2>1. asked \in Nat
    BY <1>1
  <2>2. /\ Len(rejected) = Cardinality(others) /\ Cardinality(others) \in Nat
        /\ DOMAIN rejected = 1..Cardinality(others) /\ IsList(rejected)
    <3>1. /\ Len(Keep(components, others)) = Cardinality(others) /\ Cardinality(others) \in Nat
          /\ DOMAIN Keep(components, others) = 1..Cardinality(others)
          /\ IsList(Keep(components, others)) /\ (Keep(components, others) = <<>> <=> Cardinality(others) = 0)
          /\ \A j \in 1..Cardinality(others) :
                Ascending(others)[j] \in others /\ Keep(components, others)[j] = components[Ascending(others)[j]]
      BY <1>5, <2>1, KeepSeq
    <3>2. QED
      BY <1>4, <3>1
  <2>3. QED
    BY <2>2
<1>8. Len(rejected) + Len(looked) = asked
  <2>1. Cardinality(Worth) + Cardinality(others) = asked
    BY <1>1, <1>3, KeepSplits DEF others
  <2>2. QED
    BY <1>6, <1>7, <2>1
<1>9. ASSUME NEW k \in 1..Len(looked)
      PROVE  \E j \in 1..asked :
                /\ looked[k] = components[j] /\ WorthIt(looked[k])
                /\ Outcome(NonEmpty[j], looked[k]) /\ Name(looked[k]) \in Names
  <2> DEFINE j == Ascending(Worth)[k]
  <2>1. j \in 1..asked /\ looked[k] = components[j] /\ WorthIt(components[j])
    BY <1>3, <1>6
  <2> HIDE DEF j
  <2>2. Outcome(NonEmpty[j], looked[k]) /\ IsAsked(NonEmpty[j])
    BY <1>1, <1>2, <2>1
  <2>3. Name(looked[k]) \in Names
    BY <2>1, <2>2, OutcomeIsNamed
  <2>4. QED
    BY <2>1, <2>2, <2>3
<1>10. QED
  BY <1>1, <1>3, <1>4, <1>6, <1>7, <1>8, <1>9 DEF others

LEMMA Split ==
    ASSUME Types, ComponentsInv, settled
    PROVE  /\ Worth \in SUBSET (1..asked)
           /\ valid = Keep(components, Worth)
           /\ rejected = Keep(components, (1..asked) \ Worth)
           /\ Len(valid) = Cardinality(Worth) /\ DOMAIN valid = 1..Len(valid)
           /\ Len(rejected) = Cardinality((1..asked) \ Worth)
           /\ DOMAIN rejected = 1..Len(rejected)
           /\ Len(valid) \in Nat /\ Len(rejected) \in Nat /\ asked \in Nat
           /\ Len(rejected) + Len(valid) = asked
           /\ IsList(valid) /\ IsList(rejected)
           /\ \A k \in 1..Len(valid) : \E j \in 1..asked :
                 /\ valid[k] = components[j] /\ WorthIt(valid[k])
                 /\ Outcome(NonEmpty[j], valid[k]) /\ Name(valid[k]) \in Names
<1>1. at # "converting" /\ resolved = 1..asked
  BY DEF settled, ComponentsInv
<1>2. valid = Keep(components, Worth)
  BY DEF settled, valid
<1>3. QED
  BY <1>1, <1>2, SplitInTwo

(* A step of the lookups leaves the components alone.                        *)
LEMMA Looking ==
    ASSUME Types, ComponentsInv, settled, settled',
           UNCHANGED <<request, components, resolved>>
    PROVE  /\ NonEmpty' = NonEmpty /\ asked' = asked
           /\ valid' = valid /\ rejected' = rejected
           /\ \A k : Shared(k)' <=> Shared(k)
           /\ ComponentsInv'
<1>1. NonEmpty' = NonEmpty
  BY DEF NonEmpty
<1>2. asked' = asked
  BY <1>1 DEF asked
<1>3. Worth' = Worth
  BY DEF Worth
<1>4. valid' = valid /\ rejected' = rejected
  BY <1>3 DEF settled, valid, rejected
<1>5. \A k : Shared(k)' <=> Shared(k)
  BY <1>4 DEF Shared
<1>6. ComponentsInv'
  BY <1>1, <1>2 DEF ComponentsInv, settled
<1>7. QED
  BY <1>1, <1>2, <1>4, <1>5, <1>6

LEMMA HandleStep ==
    ASSUME HandleTypeOK, UNCHANGED handle \/ Fail(1) \/ Reload
    PROVE  HandleTypeOK' /\ served \subseteq served' /\ failures <= failures'
<1>1. MaxFailures \in Nat /\ MaxReloads \in Nat
  BY ServedFileAssumption DEF ServedFileAssumption
<1>2. CASE UNCHANGED handle
  BY <1>1, <1>2 DEF HandleTypeOK, handle
<1>3. CASE Fail(1)
  BY <1>1, <1>3 DEF HandleTypeOK, Fail
<1>4. CASE Reload
  <2>1. file' \in served' /\ served' \subseteq Files /\ served \subseteq served'
    BY <1>4 DEF HandleTypeOK, Reload
  <2>2. /\ failures' = failures /\ failures \in 0..MaxFailures
        /\ reloads \in 0..MaxReloads /\ reloads < MaxReloads /\ reloads' = reloads + 1
    BY <1>4 DEF HandleTypeOK, Reload
  <2>3. QED
    BY <1>1, <2>1, <2>2 DEF HandleTypeOK
<1>5. QED
  BY <1>2, <1>3, <1>4

LEMMA DataRemains ==
    ASSUME NEW S, NEW T, S \subseteq T, NEW c
    PROVE  /\ \A item : ProvenanceOf(c, item, S) => ProvenanceOf(c, item, T)
           /\ \A places, listed : OriginOf(c, places, listed, S) => OriginOf(c, places, listed, T)
BY DEF ProvenanceOf, OriginOf

LEMMA InitGeo ==
    ASSUME Init
    PROVE  GeoInv
<1> USE DEF Init
<1>1. asked \in Nat
  BY AskedFor
<1>2. origins \in [Names -> Seq(ShareType)]
  <2>1. <<>> \in Seq(ShareType)
    OBVIOUS
  <2>2. QED
    BY <2>1
<1>3. HandleTypeOK
  BY ServedFileAssumption DEF Opened, HandleTypeOK, ServedFileAssumption
<1>4. Types
  BY <1>2, <1>3 DEF Types, Nothing
<1>5. ComponentsInv
  BY DEF ComponentsInv, settled
<1>6. ControlInv
  <2>1. valid = <<>> /\ Len(valid) = 0
    BY DEF valid
  <2>2. QED
    BY <2>1 DEF ControlInv, settled
<1>7. GotInv /\ ItemsInv /\ MapsInv /\ ReplyInv
  BY DEF GotInv, ItemsInv, MapsInv, ReplyInv, settled
<1>8. QED
  BY <1>4, <1>5, <1>6, <1>7 DEF GeoInv

-----------------------------------------------------------------------------
(* Every step keeps the invariant.                                           *)

LEMMA ConvertStep ==
    ASSUME GeoInv, Convert
    PROVE  GeoInv'
<1> USE DEF Convert
<1>1. Types /\ ComponentsInv /\ ControlInv
  BY DEF GeoInv
<1>2. /\ asked \in Nat /\ DOMAIN NonEmpty = 1..asked
      /\ NonEmpty = <<>> <=> asked = 0
  BY <1>1, AskedFor DEF Types
<1>3. NonEmpty' = NonEmpty /\ asked' = asked
  BY DEF NonEmpty, asked, environment
<1>4. components' = [k \in 1..asked |-> SanitiseComponent(NonEmpty[k])]
  BY <1>2 DEF SanitiseComponents
<1>5. resolved = {} /\ resolved' = {} /\ i = 1 /\ i' = 1 /\ items = <<>> /\ items' = <<>>
      /\ \A name \in Names : origins'[name] = <<>>
  <2>1. valid = <<>> /\ Len(valid) = 0
    BY DEF valid
  <2>2. QED
    BY <1>1, <2>1 DEF ControlInv, ComponentsInv, settled, maps
<1>6. Types'
  BY <1>1 DEF Types, HandleTypeOK, environment, handle, maps, Replies
<1>7. at' = "replied" <=> asked = 0
  BY <1>2 DEF Replies
<1>8. at' \in {"replied", "resolving"}
  BY DEF Replies
<1>9. ComponentsInv'
  <2>1. components' = [k \in 1..asked |-> components'[k]] /\ DOMAIN components' = 1..asked
    BY <1>4
  <2>2. resolved' \subseteq 1..asked /\ (settled' => resolved' = 1..asked)
    BY <1>2, <1>5, <1>7, <1>8 DEF settled
  <2>3. \A k \in DOMAIN components' : components'[k] = SanitiseComponent(NonEmpty[k])
    BY <1>4
  <2>4. QED
    BY <1>3, <1>5, <1>8, <2>1, <2>2, <2>3 DEF ComponentsInv
<1>10. valid' = <<>> /\ Len(valid') = 0 /\ (asked = 0 => rejected' = <<>> /\ Len(rejected') = 0)
  <2>1. CASE asked = 0
    <3>1. DOMAIN components' = {}
      BY <1>4, <2>1
    <3>2. Worth' = {}
      BY <3>1 DEF Worth
    <3>3. Keep(components', {}) = <<>>
      <4>1. 0 \in Nat /\ {} \in SUBSET (1..0) /\ Cardinality({}) = 0
        BY FS_EmptySet
      <4>2. QED
        BY <4>1, KeepSeq
    <3>4. DOMAIN components' \ Worth' = {}
      BY <3>1
    <3>5. valid' = <<>> /\ rejected' = <<>>
      BY <3>2, <3>3, <3>4 DEF valid, rejected
    <3>6. QED
      BY <3>5
  <2>2. CASE asked # 0
    BY <1>7, <1>8, <2>2 DEF valid
  <2>3. QED
    BY <2>1, <2>2
<1>11. ControlInv'
  BY <1>2, <1>3, <1>5, <1>7, <1>8, <1>10 DEF ControlInv, settled
<1>12. GotInv'
  BY <1>8 DEF GotInv
<1>13. ItemsInv'
  BY <1>2, <1>3, <1>5, <1>7, <1>8, <1>10 DEF ItemsInv, settled, IsList
<1>14. MapsInv'
  BY <1>10 DEF MapsInv
<1>15. ReplyInv'
  <2>1. reply.code = 0
    BY DEF GeoInv, ReplyInv
  <2>2. CASE asked = 0
    BY <1>2, <1>3, <1>7, <2>2 DEF ReplyInv, Replies
  <2>3. CASE asked # 0
    BY <1>2, <1>7, <2>1, <2>3 DEF ReplyInv
  <2>4. QED
    BY <2>2, <2>3
<1>16. QED
  BY <1>6, <1>9, <1>11, <1>12, <1>13, <1>14, <1>15 DEF GeoInv

(* A component gets its answer.                                              *)
LEMMA AnswerStep ==
    ASSUME GeoInv, at = "resolving", NEW k \in DOMAIN components \ resolved,
           NEW c, Outcome(NonEmpty[k], c),
           components' = [components EXCEPT ![k] = c], resolved' = resolved \union {k},
           UNCHANGED <<endpoint, request, at, i, got, maps, items, reply>>,
           UNCHANGED handle \/ Fail(1) \/ Reload
    PROVE  GeoInv'
<1>1. Types /\ ComponentsInv /\ ControlInv
  BY DEF GeoInv
<1>2. NonEmpty' = NonEmpty /\ asked' = asked
  BY DEF NonEmpty, asked
<1>3. HandleTypeOK'
  BY <1>1, HandleStep DEF Types
<1>4. Types'
  BY <1>1, <1>3 DEF Types, maps
<1>5. ComponentsInv'
  <2>1. /\ components = [j \in 1..asked |-> components[j]] /\ resolved \subseteq 1..asked
        /\ \A j \in 1..asked : IF j \in resolved THEN Outcome(NonEmpty[j], components[j])
                                  ELSE components[j] = SanitiseComponent(NonEmpty[j])
    BY <1>1 DEF ComponentsInv
  <2>2. components' = [j \in 1..asked |-> IF j = k THEN c ELSE components[j]]
    BY <2>1
  <2>3. components' = [j \in 1..asked |-> components'[j]]
    BY <2>2
  <2>4. \A j \in 1..asked : IF j \in resolved' THEN Outcome(NonEmpty[j], components'[j])
                                  ELSE components'[j] = SanitiseComponent(NonEmpty[j])
    BY <2>1, <2>2
  <2>5. resolved' \subseteq 1..asked /\ DOMAIN components' = 1..asked
    BY <2>1, <2>2
  <2>6. QED
    BY <1>2, <2>3, <2>4, <2>5 DEF ComponentsInv, settled
<1>6. valid = <<>> /\ valid' = <<>>
  BY DEF valid
<1>7. ControlInv'
  BY <1>1, <1>2, <1>6 DEF ControlInv, settled, maps
<1>8. GotInv' /\ ItemsInv' /\ MapsInv' /\ ReplyInv'
  BY DEF GotInv, ItemsInv, MapsInv, ReplyInv, settled, GeoInv
<1>9. QED
  BY <1>4, <1>5, <1>7, <1>8 DEF GeoInv

LEMMA ResolveStep ==
    ASSUME GeoInv, ResolveComponents
    PROVE  GeoInv'
<1>1. Types /\ ComponentsInv /\ at = "resolving"
  BY DEF GeoInv, ResolveComponents, ResolveComponent, ResolveFails
<1>2. PICK k \in DOMAIN components : ResolveComponent(k) \/ ResolveFails(k)
  BY DEF ResolveComponents
<1>3. k \in DOMAIN components \ resolved
  BY <1>2 DEF ResolveComponent, ResolveFails
<1>4. IsAsked(NonEmpty[k]) /\ components[k] = SanitiseComponent(NonEmpty[k])
  <2>1. DOMAIN components = 1..asked
    BY <1>1 DEF ComponentsInv
  <2>2. QED
    BY <1>1, <1>3, <2>1, AskedFor DEF ComponentsInv, Types
<1>5. CASE ResolveComponent(k)
  <2>1. PICK f \in served :
           components' = [components EXCEPT ![k] =
                             ResolutionAcross(components[k], Export[f], Export[file])]
    BY <1>5 DEF ResolveComponent
  <2>2. f \in Files /\ file \in Files
    BY <1>1 DEF Types, HandleTypeOK
  <2>3. Outcome(NonEmpty[k], ResolutionAcross(components[k], Export[f], Export[file]))
    BY <1>4, <2>2, ResolutionIsOutcome
  <2>4. /\ resolved' = resolved \union {k}
        /\ UNCHANGED <<endpoint, request, at, i, got, maps, items, reply>> /\ UNCHANGED handle
    BY <1>5 DEF ResolveComponent, environment
  <2>5. QED
    BY <1>1, <1>3, <2>1, <2>3, <2>4, AnswerStep
<1>6. CASE ResolveFails(k)
  <2>1. Outcome(NonEmpty[k], NotFound(components[k]))
    BY <1>4, NotFoundIsOutcome
  <2>2. /\ components' = [components EXCEPT ![k] = NotFound(components[k])]
        /\ resolved' = resolved \union {k} /\ Fail(1)
        /\ UNCHANGED <<endpoint, request, at, i, got, maps, items, reply>>
    BY <1>6 DEF ResolveFails
  <2>3. QED
    BY <1>1, <1>3, <2>1, <2>2, AnswerStep
<1>7. QED
  BY <1>2, <1>5, <1>6

LEMMA ResolvedStep ==
    ASSUME GeoInv, Resolved
    PROVE  GeoInv'
<1> USE DEF Resolved
<1>1. Types /\ ComponentsInv /\ ControlInv
  BY DEF GeoInv
<1>2. asked' = asked /\ NonEmpty' = NonEmpty
  BY DEF NonEmpty, asked, environment
<1>3. asked > 0 /\ i = 1 /\ i' = 1 /\ \A name \in Names : origins'[name] = <<>>
  <2>1. valid = <<>> /\ Len(valid) = 0
    BY DEF valid
  <2>2. QED
    BY <1>1, <2>1 DEF ControlInv, settled, maps
<1>4. resolved = 1..asked /\ components' = components /\ resolved' = resolved
  BY <1>1 DEF ComponentsInv, resolving
<1>5. at' \in {"declared", "counting"} /\ settled'
      /\ (at' = "declared" <=> endpoint = "provenance")
      /\ (at' = "counting" <=> endpoint = "origin") /\ endpoint' = endpoint
  BY <1>1 DEF settled, environment, Types
<1>6. rejected' = rejected /\ valid' = Keep(components, Worth)
  BY <1>4, <1>5 DEF rejected, valid, Worth
<1>7. /\ Len(valid') \in Nat /\ Len(rejected) \in Nat /\ asked \in Nat
      /\ Len(rejected) + Len(valid') = asked /\ DOMAIN rejected = 1..Len(rejected)
      /\ \A k \in 1..Len(valid') : Name(valid'[k]) \in Names
  BY <1>1, <1>4, <1>6, SplitInTwo
<1>8. Types'
  BY <1>1, <1>5 DEF Types, HandleTypeOK, environment, handle, maps
<1>9. ComponentsInv'
  BY <1>1, <1>2, <1>4, <1>5 DEF ComponentsInv
<1>10. ControlInv'
  BY <1>2, <1>3, <1>5, <1>7 DEF ControlInv
<1>11. GotInv'
  BY <1>5 DEF GotInv
<1>12. IsList(items') /\ Len(items') = Len(rejected)
       /\ \A k \in 1..Len(rejected) : items'[k].purl = rejected[k].purl
  <2>1. items' = [k \in 1..Len(rejected) |-> RejectedItem(rejected[k])]
    BY <1>7
  <2>2. items' = [k \in 1..Len(rejected) |-> items'[k]]
    BY <2>1
  <2>3. \A k \in 1..Len(rejected) : items'[k].purl = rejected[k].purl
    BY <2>1 DEF RejectedItem
  <2>4. QED
    BY <1>7, <2>2, <2>3, FunctionIsList
<1>13. ItemsInv'
  <2>1. \A k \in 1..Len(valid') : ~(Len(rejected) + k <= Len(items'))
    BY <1>7, <1>12
  <2>2. QED
    BY <1>2, <1>3, <1>5, <1>6, <1>7, <1>12, <2>1 DEF ItemsInv
<1>14. MapsInv'
  BY <1>3, <1>7 DEF MapsInv
<1>15. ReplyInv'
  BY <1>5 DEF ReplyInv, GeoInv
<1>16. QED
  BY <1>8, <1>9, <1>10, <1>11, <1>13, <1>14, <1>15 DEF GeoInv

(* The items and the maps, when only the files served may change.            *)
LEMMA Remains ==
    ASSUME GeoInv, settled, settled', at' # "replied", at # "replied",
           UNCHANGED <<endpoint, request, components, resolved, i, origins, tooMany, items, reply>>,
           served \subseteq served'
    PROVE  ItemsInv' /\ MapsInv' /\ ReplyInv'
<1>1. /\ NonEmpty' = NonEmpty /\ asked' = asked
      /\ valid' = valid /\ rejected' = rejected
      /\ \A k : Shared(k)' <=> Shared(k)
  BY Looking DEF GeoInv
<1>2. ItemsInv'
  <2>1. \A c, item : ProvenanceOf(c, item, served) => ProvenanceOf(c, item, served')
    BY DataRemains
  <2>2. QED
    BY <1>1, <2>1 DEF GeoInv, ItemsInv
<1>3. MapsInv'
  <2>1. \A c, places, listed : OriginOf(c, places, listed, served)
                                  => OriginOf(c, places, listed, served')
    BY DataRemains
  <2>2. QED
    BY <1>1, <2>1 DEF GeoInv, MapsInv
<1>4. ReplyInv'
  BY DEF GeoInv, ReplyInv
<1>5. QED
  BY <1>2, <1>3, <1>4

LEMMA GetDeclaredLocationsStep ==
    ASSUME GeoInv, GetDeclaredLocations
    PROVE  GeoInv'
<1> USE DEF GetDeclaredLocations
<1>1. Types /\ ComponentsInv /\ ControlInv /\ settled /\ settled'
  BY DEF GeoInv, settled
<1>2. asked' = asked /\ valid' = valid /\ ComponentsInv'
  BY <1>1, Looking DEF environment, resolving
<1>3. ItemsInv' /\ MapsInv' /\ ReplyInv'
  BY <1>1, Remains DEF environment, resolving, maps, handle
<1>4. got' = [declared |-> Declared[file][valid[i].purl_id], counts |-> got.counts]
  BY <1>1 DEF Types
<1>5. Types'
  BY <1>1, <1>4 DEF Types, HandleTypeOK, environment, handle, maps
<1>6. ControlInv'
  BY <1>1, <1>2 DEF ControlInv, environment, settled
<1>7. GotInv'
  <2>1. file \in served'
    BY <1>1 DEF Types, HandleTypeOK, environment, handle
  <2>2. QED
    BY <1>2, <1>4, <2>1 DEF GotInv
<1>8. QED
  BY <1>2, <1>3, <1>5, <1>6, <1>7 DEF GeoInv

LEMMA GetCountryCountsStep ==
    ASSUME GeoInv, GetCountryCounts
    PROVE  GeoInv'
<1> USE DEF GetCountryCounts
<1>1. Types /\ ComponentsInv /\ ControlInv /\ GotInv /\ settled /\ settled'
  BY DEF GeoInv, settled
<1>2. asked' = asked /\ valid' = valid /\ ComponentsInv'
  BY <1>1, Looking DEF environment, resolving
<1>3. ItemsInv' /\ MapsInv' /\ ReplyInv'
  BY <1>1, Remains DEF environment, resolving, maps, handle
<1>4. got' = [declared |-> got.declared, counts |-> Curated[file][valid[i].purl_id]]
  BY <1>1 DEF Types
<1>5. Types'
  BY <1>1, <1>4 DEF Types, HandleTypeOK, environment, handle, maps
<1>6. ControlInv'
  BY <1>1, <1>2 DEF ControlInv, environment, settled
<1>7. GotInv'
  <2>1. file \in served' /\ served' = served
    BY <1>1 DEF Types, HandleTypeOK, environment, handle
  <2>2. \E f \in served : got.declared = Declared[f][valid[i].purl_id]
    BY <1>1 DEF GotInv
  <2>3. QED
    BY <1>2, <1>4, <2>1, <2>2 DEF GotInv
<1>8. QED
  BY <1>2, <1>3, <1>5, <1>6, <1>7 DEF GeoInv

LEMMA GetTimezoneOriginStep ==
    ASSUME GeoInv, GetTimezoneOrigin
    PROVE  GeoInv'
<1> USE DEF GetTimezoneOrigin
<1>1. Types /\ ComponentsInv /\ ControlInv /\ settled /\ settled'
  BY DEF GeoInv, settled
<1>2. asked' = asked /\ valid' = valid /\ ComponentsInv'
  BY <1>1, Looking DEF environment, resolving
<1>3. ItemsInv' /\ MapsInv' /\ ReplyInv'
  BY <1>1, Remains DEF environment, resolving, maps, handle
<1>4. got' = [declared |-> got.declared, counts |-> Origin[file][valid[i].purl_id]]
  BY <1>1 DEF Types
<1>5. Types'
  BY <1>1, <1>4 DEF Types, HandleTypeOK, environment, handle, maps
<1>6. ControlInv'
  BY <1>1, <1>2 DEF ControlInv, environment, settled
<1>7. GotInv'
  <2>1. file \in served'
    BY <1>1 DEF Types, HandleTypeOK, environment, handle
  <2>2. QED
    BY <1>2, <1>4, <2>1 DEF GotInv
<1>8. QED
  BY <1>2, <1>3, <1>5, <1>6, <1>7 DEF GeoInv

LEMMA AddProvenanceItemStep ==
    ASSUME GeoInv, AddProvenanceItem
    PROVE  GeoInv'
<1> USE DEF AddProvenanceItem
<1>1. /\ Types /\ ComponentsInv /\ ControlInv /\ GotInv /\ ItemsInv /\ settled /\ settled'
      /\ endpoint = "provenance" /\ endpoint' = endpoint
  BY DEF GeoInv, ControlInv, settled, environment
<1>2. /\ asked' = asked /\ valid' = valid /\ rejected' = rejected /\ ComponentsInv'
  BY <1>1, Looking DEF environment, resolving
<1>3. /\ Len(valid) \in Nat /\ Len(rejected) \in Nat /\ asked \in Nat
      /\ Len(rejected) + Len(valid) = asked
  BY <1>1, Split
<1>4. i \in 1..Len(valid) /\ i' = i + 1
  BY <1>1, <1>3 DEF ControlInv
<1> DEFINE item == ProvenanceItem(valid[i], Listed(file, valid[i]))
<1>5. ProvenanceOf(valid[i], item, served)
  <2>1. /\ item.purl = valid[i].original
        /\ item.declared = got.declared /\ item.places = got.counts
        /\ item.status = Status(Listed(file, valid[i]),
                                item.declared # {} \/ item.places # <<>>, "SUCCESS")
    BY DEF ProvenanceItem
  <2>2. /\ \E f \in served : got.declared = Declared[f][valid[i].purl_id]
        /\ \E f \in served : got.counts = Curated[f][valid[i].purl_id]
    BY <1>1 DEF GotInv
  <2>3. file \in served
    BY <1>1 DEF Types, HandleTypeOK
  <2> HIDE DEF item
  <2>4. QED
    BY <2>1, <2>2, <2>3 DEF ProvenanceOf
<1>6. items' = Append(items, item) /\ served' = served
  BY DEF environment, handle
<1> HIDE DEF item
<1>7. IsList(items) /\ Len(items) = Len(rejected) + i - 1
  BY <1>1 DEF ItemsInv
<1>8. /\ IsList(items') /\ Len(items') = Len(rejected) + i
      /\ \A k \in 1..(Len(rejected) + i - 1) : items'[k] = items[k]
      /\ items'[Len(rejected) + i] = item
  <2>1. /\ IsList(items') /\ Len(items') = Len(items) + 1
        /\ \A k \in 1..Len(items) : items'[k] = items[k]
        /\ items'[Len(items) + 1] = item
    BY <1>6, <1>7, Appended
  <2>2. Len(items) + 1 = Len(rejected) + i
    BY <1>3, <1>4, <1>7
  <2>3. QED
    BY <1>7, <2>1, <2>2
<1>9. Types'
  BY <1>1 DEF Types, HandleTypeOK, environment, handle, maps, Nothing
<1>10. ControlInv'
  BY <1>1, <1>2, <1>3, <1>4 DEF ControlInv
<1>11. GotInv'
  BY DEF GotInv
<1>12. ItemsInv'
  <2>1. \A k \in 1..Len(rejected) : items'[k].purl = rejected[k].purl
    <3> TAKE k \in 1..Len(rejected)
    <3>1. k \in 1..(Len(rejected) + i - 1)
      BY <1>3, <1>4
    <3>2. items[k].purl = rejected[k].purl
      BY <1>1 DEF ItemsInv
    <3>3. QED
      BY <1>8, <3>1, <3>2
  <2>2. ASSUME NEW k \in 1..Len(valid), Len(rejected) + k <= Len(items')
        PROVE  ProvenanceOf(valid[k], items'[Len(rejected) + k], served)
    <3>1. CASE k = i
      BY <1>5, <1>8, <3>1
    <3>2. CASE k # i
      <4>1. Len(rejected) + k <= Len(items)
            /\ Len(rejected) + k \in 1..(Len(rejected) + i - 1)
        BY <1>3, <1>4, <1>7, <1>8, <2>2, <3>2
      <4>2. ProvenanceOf(valid[k], items[Len(rejected) + k], served)
        BY <1>1, <4>1 DEF ItemsInv
      <4>3. QED
        BY <1>8, <4>1, <4>2
    <3>3. QED
      BY <3>1, <3>2
  <2>3. Len(items') <= asked' /\ Len(items') = Len(rejected') + i' - 1
    BY <1>2, <1>3, <1>4, <1>8
  <2>4. QED
    BY <1>1, <1>2, <1>6, <1>8, <2>1, <2>2, <2>3 DEF ItemsInv
<1>13. MapsInv'
  BY <1>1 DEF MapsInv
<1>14. ReplyInv'
  BY DEF GeoInv, ReplyInv
<1>15. QED
  BY <1>2, <1>9, <1>10, <1>11, <1>12, <1>13, <1>14 DEF GeoInv

(* GetOrigin finds what any file it may read says of a component: some       *)
(* shares.                                                                   *)
LEMMA OriginShares ==
    ASSUME NEW f \in Files, NEW id \in Ids
    PROVE  /\ IsRanking(Origin[f][id], GitHubIds(Export[f], id))
           /\ Shares(Origin[f][id]) \in Seq(ShareType)
<1>1. Origin[f][id] = TimezoneOrigin(Export[f], id)
  BY DEF Origin
<1>2. IsExport(Export[f])
  BY GeoAssumption DEF GeoAssumption
<1>3. IsRanking(Origin[f][id], GitHubIds(Export[f], id))
  BY <1>1, <1>2, QueriesRank
<1>4. QED
  BY <1>3, SharesOfRanking

LEMMA CollectOriginStep ==
    ASSUME GeoInv, CollectOrigin
    PROVE  GeoInv'
<1> USE DEF CollectOrigin
<1>1. /\ Types /\ ComponentsInv /\ ControlInv /\ GotInv /\ ItemsInv /\ MapsInv
      /\ settled /\ settled' /\ endpoint = "origin" /\ endpoint' = endpoint
  BY DEF GeoInv, ControlInv, settled, environment
<1>2. /\ asked' = asked /\ valid' = valid /\ rejected' = rejected /\ ComponentsInv'
      /\ \A k : Shared(k)' <=> Shared(k)
  BY <1>1, Looking DEF environment, resolving
<1>3. /\ Len(valid) \in Nat /\ Len(rejected) \in Nat /\ asked \in Nat
      /\ Len(rejected) + Len(valid) = asked /\ DOMAIN valid = 1..Len(valid)
      /\ \A k \in 1..Len(valid) : Name(valid[k]) \in Names /\ valid[k].purl_id \in Ids
  <2>1. \A k \in 1..Len(valid) : Name(valid[k]) \in Names /\ valid[k].purl_id \in Ids
    BY <1>1, Split DEF Outcome
  <2>2. QED
    BY <1>1, <2>1, Split
<1>4. i \in 1..Len(valid) /\ i' = i + 1
  BY <1>1, <1>3 DEF ControlInv
<1> DEFINE n == Name(valid[i])
           new == Shares(got.counts)
<1>5. n \in Names /\ valid[i].purl_id \in Ids
  BY <1>3, <1>4
<1>6. PICK f \in served : got.counts = Origin[f][valid[i].purl_id]
  BY <1>1 DEF GotInv
<1>7. file \in served /\ served' = served /\ f \in Files
  BY <1>1 DEF Types, HandleTypeOK, environment, handle
<1>8. new \in Seq(ShareType)
  BY <1>5, <1>6, <1>7, OriginShares
<1>9. /\ origins \in [Names -> Seq(ShareType)]
      /\ origins' = [origins EXCEPT ![n] = origins[n] \o new]
      /\ DOMAIN tooMany = Names
      /\ tooMany' = [tooMany EXCEPT ![n] = Listed(file, valid[i])]
  BY <1>1 DEF Types
<1> HIDE DEF n, new
<1>10. Types'
  <2>1. origins' \in [Names -> Seq(ShareType)] /\ DOMAIN tooMany' = Names
    <3>1. origins[n] \o new \in Seq(ShareType)
      BY <1>5, <1>8, <1>9, ConcatProperties
    <3>2. QED
      BY <1>5, <1>9, <3>1
  <2>2. QED
    BY <1>1, <2>1 DEF Types, HandleTypeOK, environment, handle, Nothing
<1>11. ControlInv'
  BY <1>1, <1>2, <1>3, <1>4 DEF ControlInv
<1>12. GotInv'
  BY DEF GotInv
<1>13. ItemsInv'
  BY <1>1, <1>2, <1>7 DEF ItemsInv
<1>14. MapsInv'
  <2> SUFFICES ASSUME NEW k \in 1..Len(valid), ~Shared(k)
               PROVE  IF k < i'
                      THEN OriginOf(valid[k], origins'[Name(valid[k])],
                                    tooMany'[Name(valid[k])], served)
                      ELSE origins'[Name(valid[k])] = <<>>
    BY <1>2, <1>7 DEF MapsInv
  <2>1. IF k < i THEN OriginOf(valid[k], origins[Name(valid[k])], tooMany[Name(valid[k])], served)
                 ELSE origins[Name(valid[k])] = <<>>
    BY <1>1 DEF MapsInv
  <2>2. Name(valid[k]) \in Names
    BY <1>3
  <2>3. CASE k = i
    <3>1. Name(valid[k]) = n
      BY <2>3 DEF n
    <3>2. origins[n] = <<>>
      BY <1>4, <2>1, <2>3, <3>1
    <3>3. origins'[n] = new /\ tooMany'[n] = Listed(file, valid[i])
      BY <1>5, <1>8, <1>9, <3>2, ConcatEmptySeq
    <3>4. new = Shares(Origin[f][valid[k].purl_id])
      BY <1>6, <2>3 DEF new
    <3>5. OriginOf(valid[k], new, Listed(file, valid[k]), served)
      BY <1>7, <3>4 DEF OriginOf
    <3>6. k < i'
      BY <1>4, <2>3
    <3>7. QED
      BY <2>3, <3>1, <3>3, <3>5, <3>6
  <2>4. CASE k # i
    <3>1. Name(valid[k]) # n
      BY <1>3, <1>4, <2>4 DEF Shared, n
    <3>2. /\ origins'[Name(valid[k])] = origins[Name(valid[k])]
          /\ tooMany'[Name(valid[k])] = tooMany[Name(valid[k])]
      BY <1>9, <2>2, <3>1
    <3>3. k < i' <=> k < i
      BY <1>3, <1>4, <2>4
    <3>4. QED
      BY <2>1, <3>2, <3>3
  <2>5. QED
    BY <2>3, <2>4
<1>15. ReplyInv'
  BY DEF GeoInv, ReplyInv
<1>16. QED
  BY <1>2, <1>10, <1>11, <1>12, <1>13, <1>14, <1>15 DEF GeoInv

LEMMA ProvenanceReplyStep ==
    ASSUME GeoInv, ProvenanceReply
    PROVE  GeoInv'
<1> USE DEF ProvenanceReply
<1>1. /\ Types /\ ComponentsInv /\ ControlInv /\ ItemsInv /\ settled
      /\ endpoint = "provenance" /\ endpoint' = endpoint
  BY DEF GeoInv, ControlInv, settled, environment
<1>2. at' = "replied" /\ settled'
  BY DEF Replies, settled
<1>3. asked' = asked /\ valid' = valid /\ rejected' = rejected /\ ComponentsInv'
  BY <1>1, <1>2, Looking DEF environment, resolving
<1>4. /\ Len(valid) \in Nat /\ Len(rejected) \in Nat /\ asked \in Nat
      /\ Len(rejected) + Len(valid) = asked
  BY <1>1, Split
<1>5. asked > 0 /\ i = Len(valid) + 1 /\ Len(items) = Len(rejected) + i - 1
  BY <1>1, <1>4 DEF ControlInv, ItemsInv
<1>6. items # <<>> /\ Len(items) = asked
  <2>1. Len(items) = asked /\ Len(items) # 0
    BY <1>4, <1>5
  <2>2. Len(<<>>) = 0
    OBVIOUS
  <2>3. QED
    BY <2>1, <2>2
<1>7. reply' = [code |-> 200, items |-> items] /\ i' = i /\ items' = items /\ served' = served
  BY <1>6 DEF Replies, environment, handle
<1>8. Types'
  BY <1>1, <1>2 DEF Types, HandleTypeOK, environment, handle, maps
<1>9. ControlInv'
  BY <1>1, <1>2, <1>3, <1>4, <1>5, <1>7 DEF ControlInv
<1>10. GotInv'
  BY <1>2 DEF GotInv
<1>11. ItemsInv'
  BY <1>1, <1>2, <1>3, <1>7 DEF ItemsInv
<1>12. MapsInv'
  BY <1>1 DEF MapsInv
<1>13. ReplyInv'
  BY <1>1, <1>2, <1>3, <1>4, <1>5, <1>6, <1>7 DEF ReplyInv
<1>14. QED
  BY <1>3, <1>8, <1>9, <1>10, <1>11, <1>12, <1>13 DEF GeoInv

LEMMA OriginReplyStep ==
    ASSUME GeoInv, OriginReply
    PROVE  GeoInv'
<1> USE DEF OriginReply
<1>1. /\ Types /\ ComponentsInv /\ ControlInv /\ ItemsInv /\ MapsInv /\ settled
      /\ endpoint = "origin" /\ endpoint' = endpoint
  BY DEF GeoInv, ControlInv, settled, environment
<1>2. at' = "replied" /\ settled'
  BY DEF Replies, settled
<1>3. /\ asked' = asked /\ valid' = valid /\ rejected' = rejected /\ ComponentsInv'
      /\ \A k : Shared(k)' <=> Shared(k)
  BY <1>1, <1>2, Looking DEF environment, resolving
<1>4. /\ Len(valid) \in Nat /\ Len(rejected) \in Nat /\ asked \in Nat
      /\ Len(rejected) + Len(valid) = asked /\ DOMAIN valid = 1..Len(valid)
  BY <1>1, Split
<1>5. asked > 0 /\ i = Len(valid) + 1 /\ Len(items) = Len(rejected) /\ IsList(items)
  BY <1>1, <1>4 DEF ControlInv, ItemsInv
<1> DEFINE looked == [k \in 1..Len(valid) |-> OriginItem(valid[k])]
<1>6. items' = items \o looked /\ reply' = [code |-> 200, items |-> items']
  BY <1>4 DEF Replies
<1>7. IsList(looked) /\ Len(looked) = Len(valid)
      /\ \A k \in 1..Len(valid) : looked[k] = OriginItem(valid[k])
  <2>1. \A k \in 1..Len(valid) : looked[k] = OriginItem(valid[k])
    OBVIOUS
  <2>2. looked = [k \in 1..Len(valid) |-> looked[k]]
    OBVIOUS
  <2> HIDE DEF looked
  <2>3. QED
    BY <1>4, <2>1, <2>2, FunctionIsList
<1> HIDE DEF looked
<1>8. /\ IsList(items') /\ Len(items') = asked
      /\ \A k \in 1..Len(rejected) : items'[k] = items[k]
      /\ \A k \in 1..Len(valid) : items'[Len(rejected) + k] = OriginItem(valid[k])
  <2>1. /\ IsList(items') /\ Len(items') = Len(items) + Len(looked)
        /\ \A k \in 1..Len(items) : items'[k] = items[k]
        /\ \A k \in 1..Len(looked) : items'[Len(items) + k] = looked[k]
    <3>1. IsList(items) /\ IsList(looked)
      BY <1>5, <1>7
    <3>2. /\ IsList(items \o looked) /\ Len(items \o looked) = Len(items) + Len(looked)
          /\ \A k \in 1..Len(items) : (items \o looked)[k] = items[k]
          /\ \A k \in 1..Len(looked) : (items \o looked)[Len(items) + k] = looked[k]
      BY <3>1, Joined
    <3>3. QED
      BY <1>6, <3>2
  <2>2. QED
    BY <1>4, <1>5, <1>7, <2>1
<1>9. i' = i /\ served' = served /\ origins' = origins /\ tooMany' = tooMany
  BY DEF environment, handle, maps
<1>10. Types'
  BY <1>1, <1>2 DEF Types, HandleTypeOK, environment, handle, maps
<1>11. ControlInv'
  BY <1>1, <1>2, <1>3, <1>4, <1>5, <1>9 DEF ControlInv
<1>12. GotInv'
  BY <1>2 DEF GotInv
<1>13. ItemsInv'
  <2>1. \A k \in 1..Len(rejected) : items'[k].purl = rejected[k].purl
    BY <1>1, <1>8 DEF ItemsInv
  <2>2. QED
    BY <1>1, <1>2, <1>3, <1>4, <1>8, <2>1 DEF ItemsInv
<1>14. MapsInv'
  BY <1>1, <1>3, <1>9 DEF MapsInv
<1>15. ReplyInv'
  <2>1. reply'.code = 200 /\ reply'.items = items'
    BY <1>6
  <2>2. (\A k \in 1..Len(valid) : items[Len(rejected) + k] = OriginItem(valid[k]))'
    BY <1>3, <1>8, <1>9 DEF OriginItem
  <2>3. QED
    <3>1. at' = "replied" /\ Len(items') = asked' /\ i' = Len(valid') + 1
      BY <1>2, <1>3, <1>5, <1>8, <1>9
    <3>2. asked' # 0
      BY <1>3, <1>4, <1>5
    <3>3. /\ at' = "replied" /\ reply'.code = 200 /\ reply'.items = items'
          /\ reply'.code \in {200, 400, 500} /\ ~(reply'.code = 400) /\ ~(reply'.code = 500)
          /\ ~(asked' = 0) /\ Len(items') = asked' /\ i' = Len(valid') + 1
      BY <2>1, <3>1, <3>2
    <3>4. QED
      BY <2>2, <3>3, Zenon DEF ReplyInv
<1>16. QED
  BY <1>3, <1>10, <1>11, <1>12, <1>13, <1>14, <1>15 DEF GeoInv

(* A query or the trailer fails: everything found is dropped.                *)
LEMMA FailStep ==
    ASSUME GeoInv, settled, at # "replied", Fail(1), Replies(500, <<>>),
           UNCHANGED <<endpoint, request, resolving, i, got, maps, items>>
    PROVE  GeoInv'
<1>1. /\ Types /\ ComponentsInv /\ ControlInv /\ ItemsInv /\ MapsInv
      /\ at' = "replied" /\ settled' /\ reply' = [code |-> 500, items |-> <<>>]
  BY DEF GeoInv, Replies, settled
<1>2. /\ asked' = asked /\ valid' = valid /\ rejected' = rejected /\ ComponentsInv'
      /\ \A k : Shared(k)' <=> Shared(k)
  BY <1>1, Looking DEF resolving
<1>3. HandleTypeOK' /\ served' = served
  BY <1>1, HandleStep DEF Types, Fail
<1>4. failures' > 0
  <2>1. failures \in Nat /\ failures' = failures + 1
    BY <1>1 DEF Fail, Types, HandleTypeOK
  <2>2. QED
    BY <2>1
<1>5. asked > 0 /\ asked \in Nat
  <2>1. asked > 0
    BY <1>1 DEF ControlInv, settled
  <2>2. QED
    BY <1>1, <2>1, Split
<1>6. Types'
  BY <1>1, <1>3 DEF Types, maps
<1>7. ControlInv'
  BY <1>1, <1>2 DEF ControlInv
<1>8. GotInv'
  BY <1>1 DEF GotInv
<1>9. ItemsInv'
  BY <1>1, <1>2 DEF ItemsInv
<1>10. MapsInv'
  BY <1>1, <1>2, <1>3 DEF MapsInv, maps
<1>11. ReplyInv'
  BY <1>1, <1>2, <1>4, <1>5 DEF ReplyInv
<1>12. QED
  BY <1>2, <1>6, <1>7, <1>8, <1>9, <1>10, <1>11 DEF GeoInv

(* Only the file served may change.                                          *)
LEMMA AsideStep ==
    ASSUME GeoInv, UNCHANGED handle \/ Reload,
           UNCHANGED <<endpoint, request, resolving, at, i, got, maps, items, reply>>
    PROVE  GeoInv'
<1>1. Types /\ ComponentsInv /\ ControlInv /\ GotInv /\ ItemsInv /\ MapsInv /\ ReplyInv
  BY DEF GeoInv
<1>2. /\ NonEmpty' = NonEmpty /\ asked' = asked /\ (settled' <=> settled)
      /\ components' = components /\ resolved' = resolved
      /\ origins' = origins /\ tooMany' = tooMany
  BY DEF NonEmpty, asked, settled, resolving, maps
<1>3. Worth' = Worth
  BY <1>2 DEF Worth
<1>4. valid' = valid /\ rejected' = rejected
  BY <1>2, <1>3 DEF valid, rejected
<1>5. \A k : Shared(k)' <=> Shared(k)
  BY <1>4 DEF Shared
<1>6. HandleTypeOK' /\ served \subseteq served'
  BY <1>1, HandleStep DEF Types
<1>7. failures' = failures
  BY DEF Reload, handle
<1>8. Types'
  BY <1>1, <1>2, <1>6 DEF Types
<1>9. ComponentsInv'
  BY <1>1, <1>2 DEF ComponentsInv
<1>10. ControlInv'
  BY <1>1, <1>2, <1>4 DEF ControlInv
<1>11. GotInv'
  BY <1>1, <1>4, <1>6 DEF GotInv
<1>12. ItemsInv'
  <2>1. \A c, item : ProvenanceOf(c, item, served) => ProvenanceOf(c, item, served')
    BY <1>6, DataRemains
  <2>2. QED
    BY <1>1, <1>2, <1>4, <2>1 DEF ItemsInv
<1>13. MapsInv'
  <2>1. \A c, places, listed : OriginOf(c, places, listed, served)
                                  => OriginOf(c, places, listed, served')
    BY <1>6, DataRemains
  <2>2. QED
    BY <1>1, <1>2, <1>4, <1>5, <2>1 DEF MapsInv
<1>14. ReplyInv'
  BY <1>1, <1>2, <1>4, <1>7 DEF ReplyInv, OriginItem
<1>15. QED
  BY <1>8, <1>9, <1>10, <1>11, <1>12, <1>13, <1>14 DEF GeoInv

LEMMA GeoStep ==
    ASSUME GeoInv, [Next]_vars
    PROVE  GeoInv'
<1>1. CASE Convert
  BY <1>1, ConvertStep
<1>2. CASE ResolveComponents
  BY <1>2, ResolveStep
<1>3. CASE Resolved
  BY <1>3, ResolvedStep
<1>4. CASE GetProvenance
  BY <1>4, GetDeclaredLocationsStep, GetCountryCountsStep, AddProvenanceItemStep,
     ProvenanceReplyStep DEF GetProvenance
<1>5. CASE GetOrigin
  BY <1>5, GetTimezoneOriginStep, CollectOriginStep, OriginReplyStep DEF GetOrigin
<1>6. CASE QueryFails
  BY <1>6, FailStep DEF QueryFails, AtQuery, settled
<1>7. CASE TrailerFails
  BY <1>7, FailStep DEF TrailerFails, settled
<1>8. CASE ReloadMeanwhile
  BY <1>8, AsideStep DEF ReloadMeanwhile
<1>9. CASE UNCHANGED vars
  BY <1>9, AsideStep DEF vars, handle, resolving, maps
<1>10. QED
  BY <1>1, <1>2, <1>3, <1>4, <1>5, <1>6, <1>7, <1>8, <1>9 DEF Next, Handler

(* What is answered, and with whose data, at every moment of a request.      *)
THEOREM RequestInvariant == Spec => []GeoInv
<1>1. Init => GeoInv
  BY InitGeo
<1>2. GeoInv /\ [Next]_vars => GeoInv'
  BY GeoStep
<1>3. QED
  BY <1>1, <1>2, PTL DEF Spec

-----------------------------------------------------------------------------
(* A request that fails is answered with the reason and nothing else         *)
(* (service/provenance_support.go HandleServiceError).                       *)
THEOREM ErrorsStayWhole == Spec => []ErrorsAreWhole
<1>1. GeoInv => ErrorsAreWhole
  <2> SUFFICES ASSUME GeoInv PROVE ErrorsAreWhole
    OBVIOUS
  <2>1. NonEmpty = <<>> <=> asked = 0
    BY AskedFor DEF GeoInv, Types
  <2>2. QED
    BY <2>1 DEF GeoInv, ReplyInv, ErrorsAreWhole
<1>2. QED
  BY <1>1, RequestInvariant, PTL

THEOREM TypeCorrect == Spec => []TypeOK
<1>1. GeoInv => TypeOK
  <2> SUFFICES ASSUME GeoInv PROVE TypeOK
    OBVIOUS
  <2>1. Types /\ ComponentsInv /\ ControlInv /\ ItemsInv /\ ReplyInv
    BY DEF GeoInv
  <2>2. asked \in Nat /\ asked <= Len(request) /\ Len(request) \in Nat
    BY <2>1, AskedFor DEF Types
  <2>3. Len(components) <= Len(request) /\ resolved \subseteq DOMAIN components
    <3>1. CASE at = "converting"
      <4>1. components = <<>> /\ resolved = {} /\ Len(components) = 0
        BY <2>1, <3>1 DEF ComponentsInv
      <4>2. QED
        BY <2>2, <4>1
    <3>2. CASE at # "converting"
      <4>1. components = [k \in 1..asked |-> components[k]] /\ resolved \subseteq 1..asked
        BY <2>1, <3>2 DEF ComponentsInv
      <4>2. Len(components) = asked /\ DOMAIN components = 1..asked
        BY <2>2, <4>1, FunctionIsList
      <4>3. QED
        BY <2>2, <4>1, <4>2
    <3>3. QED
      BY <3>1, <3>2
  <2>4. \A c \in ToSet(valid) : WorthIt(c) /\ c.purl_id \in Ids
    <3>1. CASE settled
      <4>1. DOMAIN valid = 1..Len(valid)
            /\ \A k \in 1..Len(valid) : WorthIt(valid[k]) /\ valid[k].purl_id \in Ids
        BY <2>1, <3>1, Split DEF Outcome
      <4>2. QED
        BY <4>1 DEF ToSet
    <3>2. CASE ~settled
      <4>1. valid = <<>> /\ DOMAIN valid = {}
        BY <3>2 DEF settled, valid
      <4>2. QED
        BY <4>1 DEF ToSet
    <3>3. QED
      BY <3>1, <3>2
  <2>5. DOMAIN origins = Names
        /\ \A name \in Names : \A o \in ToSet(origins[name]) : o.count \in Percentage
    <3>1. ASSUME NEW name \in Names, NEW o \in ToSet(origins[name])
          PROVE  o.count \in Percentage
      <4>1. origins[name] \in Seq(ShareType)
        BY <2>1 DEF Types
      <4>2. \A k \in DOMAIN origins[name] : origins[name][k] \in ShareType
        BY <4>1
      <4>3. o \in ShareType
        BY <4>2 DEF ToSet
      <4>4. QED
        BY <4>3 DEF ShareType
    <3>2. QED
      BY <2>1, <3>1 DEF Types
  <2>6. Len(items) <= Len(request)
    <3>1. CASE settled
      <4>1. Len(items) \in Nat /\ Len(items) <= asked
        BY <2>1, <3>1 DEF ItemsInv, IsList
      <4>2. QED
        BY <2>2, <4>1
    <3>2. CASE ~settled
      <4>1. items = <<>> /\ Len(items) = 0
        BY <2>1, <3>2 DEF ControlInv
      <4>2. QED
        BY <2>2, <4>1
    <3>3. QED
      BY <3>1, <3>2
  <2>7. reply.code \in {0, 200, 400, 500}
    BY <2>1 DEF ReplyInv
  <2>8. QED
    BY <2>1, <2>3, <2>4, <2>5, <2>6, <2>7 DEF TypeOK, Types, ControlInv
<1>2. QED
  BY <1>1, RequestInvariant, PTL

-----------------------------------------------------------------------------
(* Whose data an item shows.                                                 *)

LEMMA AnsweredItems ==
    ASSUME GeoInv, Answered
    PROVE  /\ settled /\ DOMAIN valid = 1..Len(valid) /\ Len(reply.items) = asked
           /\ reply.items = items
           /\ \A k \in 1..Len(valid) : Item(k) = items[Len(rejected) + k]
           /\ endpoint = "provenance" => \A k \in 1..Len(valid) :
                 ProvenanceOf(valid[k], Item(k), served)
           /\ endpoint = "origin" => \A k \in 1..Len(valid) :
                 /\ Item(k) = OriginItem(valid[k])
                 /\ ~Shared(k) => OriginOf(valid[k], origins[Name(valid[k])],
                                           tooMany[Name(valid[k])], served)
<1>1. /\ Types /\ ComponentsInv /\ ItemsInv /\ MapsInv /\ ReplyInv
      /\ settled /\ at = "replied" /\ reply.code = 200
  BY DEF GeoInv, Answered, settled
<1>2. /\ Len(valid) \in Nat /\ Len(rejected) \in Nat /\ asked \in Nat
      /\ Len(rejected) + Len(valid) = asked /\ DOMAIN valid = 1..Len(valid)
  BY <1>1, Split
<1>3. reply.items = items /\ Len(items) = asked /\ i = Len(valid) + 1
  BY <1>1 DEF ReplyInv
<1>4. \A k \in 1..Len(valid) : Item(k) = items[Len(rejected) + k]
  <2> TAKE k \in 1..Len(valid)
  <2>1. asked - Len(valid) + k = Len(rejected) + k
    BY <1>2
  <2>2. QED
    BY <1>3, <2>1 DEF Item
<1>5. ASSUME endpoint = "provenance", NEW k \in 1..Len(valid)
      PROVE  ProvenanceOf(valid[k], Item(k), served)
  <2>1. Len(rejected) + k <= Len(items)
    BY <1>2, <1>3
  <2>2. QED
    BY <1>1, <1>4, <1>5, <2>1 DEF ItemsInv
<1>6. ASSUME endpoint = "origin", NEW k \in 1..Len(valid)
      PROVE  /\ Item(k) = OriginItem(valid[k])
             /\ ~Shared(k) => OriginOf(valid[k], origins[Name(valid[k])],
                                       tooMany[Name(valid[k])], served)
  <2>1. k < i
    BY <1>2, <1>3
  <2>2. items[Len(rejected) + k] = OriginItem(valid[k])
    BY <1>1, <1>6 DEF ReplyInv
  <2>3. QED
    BY <1>1, <1>4, <1>6, <2>1, <2>2 DEF MapsInv
<1>7. QED
  BY <1>1, <1>2, <1>3, <1>4, <1>5, <1>6

LEMMA StatusShown ==
    ASSUME NEW f \in served, NEW c, NEW item, NEW otherwise \in {"SUCCESS", "VERSION_NOT_FOUND"},
           item.status = Status(Listed(f, c), item.declared # {} \/ item.places # <<>>, otherwise)
    PROVE  StatusFits(c, item, otherwise)
<1>1. Listed(f, c) \in BOOLEAN
  BY DEF Listed, TooManyContributors
<1>2. (item.status = "TOO_MANY_CONTRIBUTORS") = Listed(f, c)
  BY <1>1 DEF Status
<1>3. QED
  BY <1>2 DEF StatusFits, Status

(* Each item of GetProvenance carries the data of its own component           *)
(* (usecase/provenance.go GetProvenance).                                    *)
THEOREM ProvenanceStaysOwn == Spec => []ProvenanceIsItsOwn
<1>1. GeoInv => ProvenanceIsItsOwn
  <2> SUFFICES ASSUME GeoInv, Answered, endpoint = "provenance", NEW k \in DOMAIN valid
               PROVE  /\ Item(k).purl = valid[k].original
                      /\ \E f \in served : Item(k).declared = Declared[f][valid[k].purl_id]
                      /\ \E f \in served : Item(k).places = Curated[f][valid[k].purl_id]
                      /\ StatusFits(valid[k], Item(k), "SUCCESS")
    BY DEF ProvenanceIsItsOwn
  <2>1. ProvenanceOf(valid[k], Item(k), served)
    BY AnsweredItems
  <2>2. PICK f \in served :
           Item(k).status = Status(Listed(f, valid[k]),
                                   Item(k).declared # {} \/ Item(k).places # <<>>, "SUCCESS")
    BY <2>1 DEF ProvenanceOf
  <2>3. StatusFits(valid[k], Item(k), "SUCCESS")
    BY <2>2, StatusShown
  <2>4. QED
    BY <2>1, <2>3 DEF ProvenanceOf
<1>2. QED
  BY <1>1, RequestInvariant, PTL

(* An item of GetOrigin whose name no other component has.                   *)
LEMMA OwnOriginItem ==
    ASSUME GeoInv, Answered, endpoint = "origin", NEW k \in DOMAIN valid, ~Shared(k)
    PROVE  /\ valid[k].purl_id \in Ids /\ WorthIt(valid[k])
           /\ Item(k) = OriginItem(valid[k])
           /\ OriginOf(valid[k], Item(k).places, tooMany[Name(valid[k])], served)
<1>1. Item(k) = OriginItem(valid[k])
      /\ OriginOf(valid[k], origins[Name(valid[k])], tooMany[Name(valid[k])], served)
  BY AnsweredItems
<1>2. Item(k).places = origins[Name(valid[k])]
  BY <1>1 DEF OriginItem
<1>3. Types /\ ComponentsInv /\ settled /\ k \in 1..Len(valid)
  BY AnsweredItems DEF GeoInv
<1>4. valid[k].purl_id \in Ids /\ WorthIt(valid[k])
  BY <1>3, Split DEF Outcome
<1>5. QED
  BY <1>1, <1>2, <1>4

(* Within half a hundredth, on either side.                                  *)
LEMMA SharesDistribute ==
    ASSUME NEW s, NEW contributors, IsRanking(s, contributors)
    PROVE  Distribution(Shares(s), s)
<1>1. PICK n \in Nat :
         /\ DOMAIN s = 1..n /\ Len(s) = n /\ Len(Shares(s)) = n
         /\ Shares(s) \in Seq(ShareType) /\ DOMAIN Shares(s) = 1..n
         /\ \A m \in 1..n : Shares(s)[m].country = s[m].country
         /\ Total(s) \in Nat /\ \A m \in 1..n : Near(Shares(s)[m], s[m], Total(s))
  BY SharesOfRanking
<1> DEFINE t == Total(s)
           u == Shares(s)
<1>2. \A m \in 1..n : s[m].count \in Nat
  BY <1>1 DEF IsRanking
<1>3. \A m \in 1..n : u[m].count \in Nat
  <2> TAKE m \in 1..n
  <2>1. u[m] \in ShareType
    BY <1>1
  <2>2. u[m].count \in Percentage
    BY <2>1 DEF ShareType
  <2>3. QED
    BY <2>2, PercentageRange
<1>4. /\ t \in Nat
      /\ \A m \in 1..n : Near(u[m], s[m], t)
  BY <1>1
<1>5. ASSUME NEW m \in 1..n
      PROVE  /\ 2 * t * u[m].count <= 20000 * s[m].count + t
             /\ 2 * t * u[m].count >= 20000 * s[m].count - t
  <2> DEFINE product == (2 * t) * u[m].count
  <2> HIDE DEF t, u
  <2>1. /\ product <= 20000 * s[m].count + t
        /\ 20000 * s[m].count + t < product + 2 * t
    BY <1>4 DEF Near
  <2>2. product \in Nat /\ s[m].count \in Nat
    BY <1>2, <1>3, <1>4
  <2> HIDE DEF product
  <2>3. product <= 20000 * s[m].count + t /\ product >= 20000 * s[m].count - t
    BY <1>4, <2>1, <2>2
  <2>4. QED
    BY <2>3 DEF product
<1>6. QED
  BY <1>1, <1>5 DEF Distribution

(* Each item of GetOrigin is about its own component; with a name of its own,*)
(* it carries the countries of that component, the share of each of them in  *)
(* what was counted, and its listing (usecase/provenance.go GetOrigin).      *)
THEOREM OriginStaysOwn == Spec => []OriginIsItsOwn
<1>1. ASSUME GeoInv, Answered, endpoint = "origin", NEW k \in DOMAIN valid
      PROVE  Item(k).purl = valid[k].purl
  <2>1. Item(k) = OriginItem(valid[k])
    BY <1>1, AnsweredItems
  <2>2. QED
    BY <2>1 DEF OriginItem
<1>2. ASSUME GeoInv, Answered, endpoint = "origin", NEW k \in DOMAIN valid, ~Shared(k)
      PROVE  /\ \E f \in served : Distribution(Item(k).places, Origin[f][valid[k].purl_id])
             /\ StatusFits(valid[k], Item(k), valid[k].status)
  <2>1. /\ valid[k].purl_id \in Ids /\ WorthIt(valid[k])
        /\ Item(k) = OriginItem(valid[k])
        /\ OriginOf(valid[k], Item(k).places, tooMany[Name(valid[k])], served)
    BY <1>2, OwnOriginItem
  <2>2. PICK f \in served : Item(k).places = Shares(Origin[f][valid[k].purl_id])
    BY <2>1 DEF OriginOf
  <2>3. f \in Files
    BY <1>2 DEF GeoInv, Types, HandleTypeOK
  <2>4. Distribution(Item(k).places, Origin[f][valid[k].purl_id])
    BY <2>1, <2>2, <2>3, OriginShares, SharesDistribute
  <2>5. PICK g \in served : tooMany[Name(valid[k])] = Listed(g, valid[k])
    BY <2>1 DEF OriginOf
  <2>6. Item(k).status = Status(Listed(g, valid[k]),
                                Item(k).declared # {} \/ Item(k).places # <<>>, valid[k].status)
    <3>1. Item(k).declared = {}
      BY <2>1 DEF OriginItem
    <3>2. Item(k).places = origins[Name(valid[k])]
      BY <2>1 DEF OriginItem
    <3>3. Item(k).status = Status(tooMany[Name(valid[k])], origins[Name(valid[k])] # <<>>,
                                  valid[k].status)
      BY <2>1 DEF OriginItem
    <3>4. QED
      BY <2>5, <3>1, <3>2, <3>3 DEF Status
  <2>7. StatusFits(valid[k], Item(k), valid[k].status)
    BY <2>1, <2>6, StatusShown DEF WorthIt
  <2>8. QED
    BY <2>4, <2>7
<1>3. GeoInv => OriginIsItsOwn
  BY <1>1, <1>2 DEF OriginIsItsOwn
<1>4. QED
  BY <1>3, RequestInvariant, PTL

(* An origin item with a name of its own shows a whole distribution: the      *)
(* percentages of usecase/provenance.go GetOrigin add up to a hundred, but    *)
(* for half a hundredth of rounding per country, however many there are.     *)
THEOREM OwnSharesStayWhole == Spec => []OwnSharesAddUp
<1>1. GeoInv => OwnSharesAddUp
  <2> SUFFICES ASSUME GeoInv, Answered, endpoint = "origin", NEW k \in DOMAIN valid, ~Shared(k)
               PROVE  AddUp(Item(k))
    BY DEF OwnSharesAddUp
  <2>1. /\ valid[k].purl_id \in Ids
        /\ OriginOf(valid[k], Item(k).places, tooMany[Name(valid[k])], served)
    BY OwnOriginItem
  <2>2. PICK f \in served : Item(k).places = Shares(Origin[f][valid[k].purl_id])
    BY <2>1 DEF OriginOf
  <2>3. f \in Files
    BY DEF GeoInv, Types, HandleTypeOK
  <2> DEFINE s == Origin[f][valid[k].purl_id]
  <2>4. IsRanking(s, GitHubIds(Export[f], valid[k].purl_id))
    BY <2>1, <2>3, OriginShares
  <2>5. Item(k).places = Shares(s)
    BY <2>2
  <2> HIDE DEF s
  <2>6. PICK n \in Nat : /\ Len(Shares(s)) = n /\ Shares(s) \in Seq(ShareType)
                         /\ n > 0 => /\ 2 * Total(Shares(s)) <= 20000 + n
                                     /\ 2 * Total(Shares(s)) >= 20000 - n
    BY <2>4, SharesOfRanking
  <2>7. Shares(s) # <<>> => n > 0
    BY <2>6, EmptySeq
  <2>8. QED
    BY <2>5, <2>6, <2>7 DEF AddUp
<1>2. QED
  BY <1>1, RequestInvariant, PTL

(* What a ranking says of the contributors it counts.                        *)
LEMMA RankingShown ==
    ASSUME NEW s, NEW contributors, IsFiniteSet(contributors), IsRanking(s, contributors)
    PROVE  /\ \A m, n \in DOMAIN s : m < n =>
                 s[m].country # s[n].country /\ s[m].count >= s[n].count
           /\ s # <<>> => contributors # {}
           /\ \A p \in ToSet(s) : p.count \in 1..Cardinality(contributors)
<1>1. Cardinality(contributors) \in Nat
  BY FS_CardinalityType
<1>2. \A k \in DOMAIN s : s[k].count \in 1..Cardinality(contributors)
  BY <1>1 DEF IsRanking
<1>3. s # <<>> => contributors # {}
  <2> SUFFICES ASSUME contributors = {} PROVE s = <<>>
    OBVIOUS
  <2>1. Cardinality(contributors) = 0
    BY FS_EmptySet
  <2>2. DOMAIN s = {}
    <3>1. \A k \in DOMAIN s : s[k].count \in 1..0
      BY <1>2, <2>1
    <3>2. 1..0 = {}
      OBVIOUS
    <3>3. QED
      BY <3>1, <3>2
  <2>3. PICK n \in Nat : /\ DOMAIN s = 1..n
                         /\ s = [k \in 1..n |-> [country |-> s[k].country, count |-> s[k].count]]
    BY DEF IsRanking
  <2>4. n = 0
    BY <2>2, <2>3
  <2>5. QED
    BY <2>3, <2>4
<1>4. \A p \in ToSet(s) : p.count \in 1..Cardinality(contributors)
  BY <1>2 DEF ToSet
<1>5. QED
  BY <1>3, <1>4 DEF IsRanking

(* The places of an item rank its own component's contributors, those of the  *)
(* GitHub mine only (models/provenance.go GetCountryCounts,                   *)
(* GetTimezoneOrigin).                                                       *)
THEOREM PlacesStayRanked == Spec => []RankedByContributors
<1>1. GeoInv => RankedByContributors
  <2> DEFINE contributors(f, k) ==
                 {v.id : v \in {v \in Export[f].vendor : v.mine_id = 5}} \intersect
                 {ct.contributor_id : ct \in {ct \in Export[f].contribution :
                                                 ct.purl_id = valid[k].purl_id}}
             Fit(k) ==
                 /\ \A m, n \in DOMAIN Item(k).places : m < n =>
                        /\ Item(k).places[m].country # Item(k).places[n].country
                        /\ Item(k).places[m].count >= Item(k).places[n].count
                 /\ \E f \in served :
                        /\ Item(k).places # <<>> => contributors(f, k) # {}
                        /\ endpoint = "provenance" => \A p \in ToSet(Item(k).places) :
                              p.count \in 1..Cardinality(contributors(f, k))
  <2> SUFFICES ASSUME GeoInv, Answered, NEW k \in DOMAIN valid,
                      ~Shared(k) \/ endpoint = "provenance"
               PROVE  Fit(k)
    BY DEF RankedByContributors
  <2>1. /\ Types /\ ComponentsInv /\ settled /\ k \in 1..Len(valid)
        /\ endpoint \in {"provenance", "origin"}
    BY AnsweredItems DEF GeoInv, Types
  <2> DEFINE id == valid[k].purl_id
             mined(f) == GitHubIds(Export[f], id)
  <2>2. id \in Ids
    BY <2>1, Split DEF Outcome
  <2>3. \A f : contributors(f, k) = mined(f)
    BY DEF GitHubIds, Mined, GitHub, Contributors
  <2>4. ASSUME NEW f \in served
        PROVE  f \in Files /\ IsExport(Export[f]) /\ IsFiniteSet(mined(f))
    <3>1. f \in Files /\ IsExport(Export[f])
      BY <2>1, GeoAssumption DEF Types, HandleTypeOK, GeoAssumption
    <3>2. QED
      BY <3>1, GitHubIdsFinite
  <2> HIDE DEF contributors, mined, id
  <2>5. CASE endpoint = "provenance"
    <3>1. PICK f \in served : Item(k).places = Curated[f][id]
      BY <2>1, <2>5, AnsweredItems DEF ProvenanceOf, id
    <3>2. IsRanking(Item(k).places, mined(f))
      BY <2>2, <2>4, <3>1, QueriesRank DEF Curated, mined
    <3>3. IsFiniteSet(mined(f))
      BY <2>4
    <3> DEFINE places == Item(k).places
    <3> HIDE DEF places
    <3>4. IsRanking(places, mined(f))
      BY <3>2 DEF places
    <3>5. /\ \A m, n \in DOMAIN places : m < n =>
                places[m].country # places[n].country /\ places[m].count >= places[n].count
          /\ places # <<>> => mined(f) # {}
          /\ \A p \in ToSet(places) : p.count \in 1..Cardinality(mined(f))
      BY <3>3, <3>4, RankingShown
    <3>6. contributors(f, k) = mined(f)
      BY <2>3
    <3>7. QED
      BY <3>5, <3>6 DEF places
  <2>6. CASE endpoint = "origin"
    <3>1. PICK f \in served : Item(k).places = Shares(Origin[f][id])
      BY <2>6, OwnOriginItem DEF OriginOf, id
    <3> DEFINE s == Origin[f][id]
               places == Item(k).places
    <3>2. IsRanking(s, mined(f)) /\ IsFiniteSet(mined(f))
      BY <2>2, <2>4, OriginShares DEF mined
    <3>3. places = Shares(s)
      BY <3>1
    <3> HIDE DEF s, places
    <3>4. /\ \A m, n \in DOMAIN s : m < n => s[m].country # s[n].country
          /\ s # <<>> => mined(f) # {}
      BY <3>2, RankingShown
    <3>5. PICK n \in Nat : /\ DOMAIN s = 1..n /\ DOMAIN places = 1..n
                           /\ Len(s) = n /\ places \in Seq(ShareType) /\ Len(places) = n
                           /\ \A m \in 1..n : places[m].country = s[m].country
                           /\ \A m, l \in 1..n : m < l => places[m].count >= places[l].count
      <4>1. PICK n \in Nat : /\ DOMAIN s = 1..n /\ DOMAIN Shares(s) = 1..n
                             /\ Len(s) = n /\ Len(Shares(s)) = n
                             /\ Shares(s) \in Seq(ShareType)
                             /\ \A m \in 1..n : Shares(s)[m].country = s[m].country
                             /\ \A m, l \in 1..n :
                                   m < l => Shares(s)[m].count >= Shares(s)[l].count
        BY <3>2, SharesOfRanking
      <4>2. QED
        BY <3>3, <4>1
    <3>6. \A m, l \in DOMAIN places : m < l =>
             places[m].country # places[l].country /\ places[m].count >= places[l].count
      BY <3>4, <3>5
    <3>7. places # <<>> => s # <<>>
      <4>1. places # <<>> => n > 0
        BY <3>5, EmptySeq
      <4>2. s = <<>> => n = 0
        BY <3>5
      <4>3. QED
        BY <4>1, <4>2
    <3>8. contributors(f, k) = mined(f)
      BY <2>3
    <3>9. QED
      BY <2>6, <3>4, <3>6, <3>7, <3>8 DEF places
  <2>7. QED
    BY <2>1, <2>5, <2>6
<1>2. QED
  BY <1>1, RequestInvariant, PTL

-----------------------------------------------------------------------------
(* Who is answered.                                                          *)

(* Where the purl of the m-th item stands in the request: the loops move the  *)
(* rejected to the front and keep the order otherwise.                       *)
place == [m \in 1..asked |->
             IF m <= Len(rejected) THEN Ascending((1..asked) \ Worth)[m]
             ELSE Ascending(Worth)[m - Len(rejected)]]

LEMMA PlacesEveryone ==
    ASSUME GeoInv, settled
    PROVE  /\ \A m \in 1..asked : place[m] \in 1..asked
           /\ \A l, m \in 1..asked : place[l] = place[m] => l = m
           /\ \A j \in 1..asked : \E m \in 1..asked : place[m] = j
<1> DEFINE others == (1..asked) \ Worth
           R == Len(rejected)
           V == Len(valid)
<1>1. Types /\ ComponentsInv
  BY DEF GeoInv
<1>2. /\ Worth \in SUBSET (1..asked) /\ others \in SUBSET (1..asked)
      /\ V = Cardinality(Worth) /\ R = Cardinality(others)
      /\ V \in Nat /\ R \in Nat /\ asked \in Nat /\ R + V = asked
  BY <1>1, Split
<1>3. \A j \in 1..asked : j \in Worth \/ j \in others
  OBVIOUS
<1>4. Worth \intersect others = {}
  OBVIOUS
<1>5. place = [m \in 1..asked |-> IF m <= R THEN Ascending(others)[m] ELSE Ascending(Worth)[m - R]]
  BY DEF place
<1> HIDE DEF others, R, V
<1>6. /\ \A m \in 1..R : Ascending(others)[m] \in others
      /\ \A j \in others : \E m \in 1..R : Ascending(others)[m] = j
      /\ \A l, m \in 1..R : l < m => Ascending(others)[l] < Ascending(others)[m]
  BY <1>2, AscendingIndices
<1>7. /\ \A m \in 1..V : Ascending(Worth)[m] \in Worth
      /\ \A j \in Worth : \E m \in 1..V : Ascending(Worth)[m] = j
      /\ \A l, m \in 1..V : l < m => Ascending(Worth)[l] < Ascending(Worth)[m]
  BY <1>2, AscendingIndices
<1>8. \A m \in 1..asked : /\ m <= R => m \in 1..R /\ place[m] = Ascending(others)[m]
                          /\ ~(m <= R) => m - R \in 1..V /\ place[m] = Ascending(Worth)[m - R]
  BY <1>2, <1>5
<1>9. \A m \in 1..asked : place[m] \in 1..asked
  BY <1>2, <1>6, <1>7, <1>8
<1>10. ASSUME NEW j \in 1..asked PROVE \E m \in 1..asked : place[m] = j
  <2>1. CASE j \in others
    <3>1. PICK m \in 1..R : Ascending(others)[m] = j
      BY <1>6, <2>1
    <3>2. m \in 1..asked /\ m <= R
      BY <1>2
    <3>3. QED
      BY <1>8, <3>1, <3>2
  <2>2. CASE j \in Worth
    <3>1. PICK m \in 1..V : Ascending(Worth)[m] = j
      BY <1>7, <2>2
    <3>2. R + m \in 1..asked /\ ~(R + m <= R) /\ R + m - R = m
      BY <1>2
    <3>3. place[R + m] = j
      <4> DEFINE l == R + m
      <4>1. l \in 1..asked /\ ~(l <= R) /\ l - R = m
        BY <1>2, <3>2
      <4> HIDE DEF l
      <4>2. place[l] = Ascending(Worth)[l - R]
        BY <1>8, <4>1
      <4>3. place[l] = j
        BY <3>1, <4>1, <4>2
      <4>4. QED
        BY <4>3 DEF l
    <3>4. QED
      BY <3>2, <3>3
  <2>3. QED
    BY <1>3, <2>1, <2>2
<1>11. ASSUME NEW l \in 1..asked, NEW m \in 1..asked, l < m PROVE place[l] # place[m]
  <2>1. CASE m <= R
    <3>1. l \in 1..R /\ m \in 1..R /\ place[l] = Ascending(others)[l]
          /\ place[m] = Ascending(others)[m]
      BY <1>2, <1>8, <1>11, <2>1
    <3>2. place[l] < place[m] /\ place[l] \in Int
      BY <1>6, <1>9, <1>11, <3>1
    <3>3. QED
      BY <1>9, <3>2
  <2>2. CASE ~(m <= R) /\ l <= R
    <3>1. place[l] \in others /\ place[m] \in Worth
      BY <1>6, <1>7, <1>8, <2>2
    <3>2. QED
      BY <1>4, <3>1
  <2>3. CASE ~(l <= R)
    <3>1. /\ l - R \in 1..V /\ m - R \in 1..V /\ l - R < m - R
          /\ place[l] = Ascending(Worth)[l - R] /\ place[m] = Ascending(Worth)[m - R]
      BY <1>2, <1>8, <1>11, <2>3
    <3>2. place[l] < place[m]
      BY <1>7, <3>1
    <3>3. QED
      BY <1>9, <3>2
  <2>4. QED
    BY <1>2, <2>1, <2>2, <2>3
<1> HIDE DEF place
<1>12. \A l, m \in 1..asked : place[l] = place[m] => l = m
  <2> SUFFICES ASSUME NEW l \in 1..asked, NEW m \in 1..asked, l # m PROVE place[l] # place[m]
    OBVIOUS
  <2>1. l < m \/ m < l
    BY <1>2
  <2>2. QED
    BY <1>11, <2>1
<1>13. QED
  BY <1>9, <1>10, <1>12

(* The m-th item is about the purl that stands there.                        *)
LEMMA AboutItsPurl ==
    ASSUME GeoInv, Answered, NEW m \in 1..asked
    PROVE  Shows(reply.items[m], NonEmpty[place[m]])
<1> DEFINE others == (1..asked) \ Worth
<1>1. Types /\ ComponentsInv /\ ItemsInv /\ settled /\ at = "replied" /\ reply.code = 200
      /\ endpoint \in {"provenance", "origin"}
  BY DEF GeoInv, Answered, settled, Types
<1>2. /\ Worth \in SUBSET (1..asked) /\ others \in SUBSET (1..asked)
      /\ Len(valid) = Cardinality(Worth) /\ Len(rejected) = Cardinality(others)
      /\ Len(valid) \in Nat /\ Len(rejected) \in Nat /\ asked \in Nat
      /\ Len(rejected) + Len(valid) = asked
      /\ valid = Keep(components, Worth) /\ rejected = Keep(components, others)
  BY <1>1, Split
<1>3. \A j \in 1..asked : Outcome(NonEmpty[j], components[j])
  BY <1>1 DEF ComponentsInv, settled
<1>4. reply.items = items /\ Len(items) = asked
  BY AnsweredItems DEF GeoInv, ReplyInv, Answered
<1>5. CASE m <= Len(rejected)
  <2>1. m \in 1..Len(rejected) /\ place[m] = Ascending(others)[m]
    BY <1>2, <1>5 DEF place
  <2> HIDE DEF others, place
  <2>2. Ascending(others)[m] \in others /\ rejected[m] = components[Ascending(others)[m]]
    <3>1. m \in 1..Cardinality(others) /\ asked \in Nat /\ others \in SUBSET (1..asked)
      BY <1>2, <2>1
    <3>2. \A j \in 1..Cardinality(others) :
             /\ Ascending(others)[j] \in others
             /\ Keep(components, others)[j] = components[Ascending(others)[j]]
      BY <3>1, KeepSeq
    <3>3. QED
      BY <1>2, <3>1, <3>2
  <2>3. items[m].purl = rejected[m].purl
    BY <1>1, <2>1 DEF ItemsInv
  <2>4. place[m] \in 1..asked /\ items[m].purl = components[place[m]].purl
    BY <1>2, <2>1, <2>2, <2>3
  <2>5. QED
    BY <1>3, <1>4, <2>4 DEF Outcome, Kin, Shows
<1>6. CASE ~(m <= Len(rejected))
  <2> DEFINE k == m - Len(rejected)
  <2>1. k \in 1..Len(valid) /\ place[m] = Ascending(Worth)[k] /\ Len(rejected) + k = m
    BY <1>2, <1>6 DEF place
  <2> HIDE DEF others, place, k
  <2>2. Ascending(Worth)[k] \in Worth /\ valid[k] = components[Ascending(Worth)[k]]
    <3>1. k \in 1..Cardinality(Worth)
      BY <1>2, <2>1
    <3>2. asked \in Nat /\ Worth \in SUBSET (1..asked)
      BY <1>2
    <3>3. \A j \in 1..Cardinality(Worth) :
             /\ Ascending(Worth)[j] \in Worth
             /\ Keep(components, Worth)[j] = components[Ascending(Worth)[j]]
      BY <3>2, KeepSeq
    <3>4. /\ Ascending(Worth)[k] \in Worth
          /\ Keep(components, Worth)[k] = components[Ascending(Worth)[k]]
      BY <3>1, <3>3
    <3>5. QED
      BY <1>2, <3>4
  <2>3. place[m] \in 1..asked /\ valid[k] = components[place[m]]
    BY <1>2, <2>1, <2>2
  <2>4. Kin(NonEmpty[place[m]], valid[k])
    BY <1>3, <2>3 DEF Outcome
  <2>5. Item(k) = items[m]
    BY <2>1, AnsweredItems
  <2>6. items[m].purl = valid[k].original \/ items[m].purl = valid[k].purl
    <3>1. CASE endpoint = "provenance"
      <4>1. ProvenanceOf(valid[k], Item(k), served)
        BY <2>1, <3>1, AnsweredItems
      <4>2. QED
        BY <2>5, <4>1 DEF ProvenanceOf
    <3>2. CASE endpoint = "origin"
      <4>1. Item(k) = OriginItem(valid[k])
        BY <2>1, <3>2, AnsweredItems
      <4>2. QED
        BY <2>5, <4>1 DEF OriginItem
    <3>3. QED
      BY <1>1, <3>1, <3>2
  <2>7. QED
    BY <1>4, <2>4, <2>6 DEF Kin, Shows
<1>7. QED
  BY <1>5, <1>6

(* Every purl asked about is answered by exactly one item                    *)
(* (service/provenance_support.go, usecase/provenance.go): none is dropped    *)
(* and none repeated, in whatever order they were resolved.                  *)
THEOREM NobodyIsLeftOut == Spec => []OneAnswerEach
<1>1. GeoInv => OneAnswerEach
  <2> SUFFICES ASSUME GeoInv, Answered PROVE OneAnswerEach
    BY DEF OneAnswerEach
  <2>1. settled /\ Len(reply.items) = asked
    BY AnsweredItems
  <2>2. /\ \A m \in 1..asked : place[m] \in 1..asked
        /\ \A l, m \in 1..asked : place[l] = place[m] => l = m
        /\ \A j \in 1..asked : \E m \in 1..asked : place[m] = j
    BY <2>1, PlacesEveryone
  <2>3. \A m \in 1..asked : Shows(reply.items[m], NonEmpty[place[m]])
    BY AboutItsPurl
  <2>4. place = [m \in 1..asked |-> place[m]]
    BY DEF place
  <2> HIDE DEF place
  <2>5. place \in [1..asked -> 1..asked]
    BY <2>2, <2>4
  <2>6. /\ place \in Injection(1..asked, 1..asked)
        /\ place \in Surjection(1..asked, 1..asked)
    BY <2>2, <2>5, Fun_IsInj, Fun_IsSurj
  <2>7. place \in Bijection(1..asked, 1..asked)
    BY <2>6 DEF Bijection
  <2>8. QED
    BY <2>1, <2>3, <2>7 DEF OneAnswerEach, asked
<1>2. QED
  BY <1>1, RequestInvariant, PTL
=============================================================================
