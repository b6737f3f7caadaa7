--------------------------- MODULE Resolver_proofs ---------------------------
(* What the operators of Resolver compute, for every input: the row a purl is *)
(* identified by and the version it is pinned to.  SelectVersion is defined   *)
(* by recursion; induction is taken over sets of numbers (Induction).         *)
EXTENDS Resolver, WellFoundedInduction, TLAPS

-----------------------------------------------------------------------------
(* A set of numbers has a least one.                                         *)
LEMMA Least ==
    ASSUME NEW S \in SUBSET Nat, S # {}
    PROVE  \E m \in S : \A k \in S : m <= k
<1>1. PICK m \in S : \A k \in S : <<k, m>> \notin OpToRel(<, Nat)
  BY NatLessThanWellFounded, WFMin, Zenon
<1>2. \A k \in S : ~(k < m)
  BY <1>1 DEF OpToRel
<1>3. QED
  BY <1>2

(* Induction over the numbers, as a fact about sets.                         *)
LEMMA Induction ==
    ASSUME NEW S \in SUBSET Nat, 0 \in S, \A m \in S : m + 1 \in S
    PROVE  S = Nat
<1> SUFFICES ASSUME Nat \ S # {} PROVE FALSE
  OBVIOUS
<1>1. PICK m \in Nat \ S : \A k \in Nat \ S : m <= k
  BY Least
<1>2. m - 1 \in S
  BY <1>1
<1>3. QED
  BY <1>1, <1>2

(* f takes the values of a recursion over 1..N.                              *)
Recurs(f, N, base, step) == f[0] = base /\ \A i \in 1..N : f[i] = step[<<i, f[i - 1]>>]

(* There is one, for any step.                                               *)
LEMMA Recursion ==
    ASSUME NEW N \in Nat, NEW A, NEW base \in A, NEW step \in [(1..N) \X A -> A]
    PROVE  \E f \in [0..N -> A] : Recurs(f, N, base, step)
<1> DEFINE Solves(f, m) == Recurs(f, m, base, step)
           S == {m \in Nat : m <= N => \E f \in [0..m -> A] : Solves(f, m)}
<1> USE DEF Recurs
<1>1. 0 \in S
  <2>1. [i \in 0..0 |-> base] \in [0..0 -> A] /\ Solves([i \in 0..0 |-> base], 0)
    OBVIOUS
  <2>2. QED
    BY <2>1
<1>2. ASSUME NEW m \in S, m + 1 <= N PROVE \E g \in [0..(m + 1) -> A] : Solves(g, m + 1)
  <2>1. PICK f \in [0..m -> A] : Solves(f, m)
    BY <1>2
  <2> DEFINE g == [i \in 0..(m + 1) |-> IF i = m + 1 THEN step[<<m + 1, f[m]>>] ELSE f[i]]
  <2>2. step[<<m + 1, f[m]>>] \in A
    BY <1>2
  <2>3. g \in [0..(m + 1) -> A]
    BY <2>1, <2>2
  <2>4. \A i \in 1..(m + 1) : g[i] = step[<<i, g[i - 1]>>]
    <3> SUFFICES ASSUME NEW i \in 1..(m + 1) PROVE g[i] = step[<<i, g[i - 1]>>]
      OBVIOUS
    <3>1. CASE i = m + 1
      <4>1. g[i] = step[<<m + 1, f[m]>>] /\ g[m] = f[m]
        BY <3>1
      <4>2. i - 1 = m
        BY <3>1
      <4>3. QED
        BY <3>1, <4>1, <4>2
    <3>2. CASE i # m + 1
      <4>1. i \in 1..m /\ i - 1 \in 0..m
        BY <3>2
      <4>2. g[i] = f[i] /\ g[i - 1] = f[i - 1]
        BY <4>1
      <4>3. QED
        BY <2>1, <4>1, <4>2
    <3>3. QED
      BY <3>1, <3>2
  <2>5. g[0] = base
    BY <2>1
  <2>6. Solves(g, m + 1)
    BY <2>4, <2>5
  <2>7. QED
    BY <2>3, <2>6
<1>3. S = Nat
  <2> HIDE DEF Solves
  <2>1. \A m \in S : m + 1 \in S
    <3> SUFFICES ASSUME NEW m \in S PROVE m + 1 \in S
      OBVIOUS
    <3>1. m + 1 \in Nat
      OBVIOUS
    <3>2. QED
      BY <1>2, <3>1
  <2> HIDE DEF S
  <2>2. S \in SUBSET Nat
    BY DEF S
  <2>3. QED
    BY <1>1, <2>1, <2>2, Induction
<1>4. N \in S
  BY <1>3
<1>5. QED
  BY <1>4

-----------------------------------------------------------------------------
(* The versions SelectVersion may keep, by their places in the list.          *)
Fits(versions, allowed) ==
    {i \in 1..Len(versions) : versions[i] # NoVersion /\ Precedence(versions[i]) \in allowed}

(* Place i holds the first of the highest of those in S.                     *)
FirstHighest(versions, S, i) ==
    /\ i \in S
    /\ \A j \in S : /\ Precedence(versions[j]) <= Precedence(versions[i])
                    /\ j < i => Precedence(versions[j]) < Precedence(versions[i])

(* The step of the recursion in SelectVersion.                               *)
Better(version, kept, allowed) ==
    IF /\ version # NoVersion
       /\ Precedence(version) \in allowed
       /\ kept = NoVersion \/ Precedence(version) > Precedence(kept)
    THEN version ELSE kept

(* SelectVersion takes that step for each published version in turn.         *)
LEMMA SelectVersionRecurs ==
    ASSUME NEW versions \in Seq(VersionType), NEW allowed
    PROVE  \E best \in [0..Len(versions) -> VersionType] :
              /\ best[0] = NoVersion
              /\ \A i \in 1..Len(versions) : best[i] = Better(versions[i], best[i - 1], allowed)
              /\ SelectVersion(versions, allowed) = best[Len(versions)]
<1> DEFINE N == Len(versions)
           Solves(f) == f = [i \in 0..N |->
              IF i = 0 THEN NoVersion ELSE Better(versions[i], f[i - 1], allowed)]
           best == CHOOSE f : Solves(f)
           step == [p \in (1..N) \X VersionType |-> Better(versions[p[1]], p[2], allowed)]
<1>1. N \in Nat /\ NoVersion \in VersionType /\ \A i \in 1..N : versions[i] \in VersionType
  <2>1. NoVersion \in VersionType
    BY DEF NoVersion, VersionType
  <2>2. QED
    BY <2>1
<1>2. step \in [(1..N) \X VersionType -> VersionType]
  BY <1>1 DEF Better
<1>3. PICK f \in [0..N -> VersionType] :
         f[0] = NoVersion /\ \A i \in 1..N : f[i] = step[<<i, f[i - 1]>>]
  <2> HIDE DEF step, N, Solves, best
  <2>1. N \in Nat /\ NoVersion \in VersionType
    BY <1>1
  <2>2. \E f \in [0..N -> VersionType] : Recurs(f, N, NoVersion, step)
    BY <1>2, <2>1, Recursion
  <2>3. QED
    BY <2>2 DEF Recurs
<1>4. \A i \in 1..N : f[i] = Better(versions[i], f[i - 1], allowed)
  <2> SUFFICES ASSUME NEW i \in 1..N PROVE f[i] = Better(versions[i], f[i - 1], allowed)
    OBVIOUS
  <2>1. f[i - 1] \in VersionType
    BY <1>1, <1>3
  <2>2. <<i, f[i - 1]>> \in (1..N) \X VersionType
    BY <2>1
  <2>3. QED
    BY <1>3, <2>2
<1>5. Solves(f)
  <2> DEFINE g == [i \in 0..N |-> IF i = 0 THEN NoVersion ELSE Better(versions[i], f[i - 1], allowed)]
  <2>1. \A i \in 0..N : f[i] = g[i]
    <3> SUFFICES ASSUME NEW i \in 0..N, i # 0 PROVE f[i] = g[i]
      BY <1>3
    <3>1. i \in 1..N
      BY <1>1
    <3>2. QED
      BY <1>4, <3>1
  <2>2. QED
    BY <1>3, <2>1
<1>6. Solves(best)
  <2> HIDE DEF Solves
  <2>1. QED
    BY <1>5, Zenon
<1>7. SelectVersion(versions, allowed) = best[N]
  BY Zenon DEF SelectVersion, Better
<1>8. best[0] = NoVersion /\ \A i \in 1..N : best[i] = Better(versions[i], best[i - 1], allowed)
  <2> HIDE DEF best
  <2>1. \A i \in 0..N : best[i] = IF i = 0 THEN NoVersion ELSE Better(versions[i], best[i - 1], allowed)
    BY <1>6
  <2>2. QED
    BY <1>1, <2>1
<1>9. best = f
  <2> HIDE DEF best
  <2> DEFINE S == {m \in Nat : m <= N => best[m] = f[m]}
  <2>1. 0 \in S
    BY <1>3, <1>8
  <2>2. \A m \in S : m + 1 \in S
    <3> SUFFICES ASSUME NEW m \in S, m + 1 <= N PROVE best[m + 1] = f[m + 1]
      OBVIOUS
    <3>1. m + 1 \in 1..N /\ (m + 1) - 1 = m /\ best[m] = f[m]
      BY <1>1
    <3>2. QED
      BY <1>4, <1>8, <3>1
  <2>3. S = Nat
    <3> HIDE DEF S
    <3>1. S \in SUBSET Nat
      BY DEF S
    <3>2. QED
      BY <2>1, <2>2, <3>1, Induction
  <2>4. \A i \in 0..N : best[i] = f[i]
    BY <2>3
  <2>5. QED
    BY <1>3, <1>6, <2>4
<1>10. QED
  BY <1>3, <1>4, <1>7, <1>9

(* The first of the highest of the versions in S, none if there are none.    *)
Selected(versions, S, version) ==
    IF S = {} THEN version = NoVersion
    ELSE \E i \in S : FirstHighest(versions, S, i) /\ version = versions[i]

(* Whatever order the rows come in, SelectVersion keeps the first of the      *)
(* highest versions allowed, and none only when none is (version.go:31-73):   *)
(* labels that are not semver count as 0.0.0 and empty ones are passed over.  *)
THEOREM SelectsHighest ==
    ASSUME NEW versions \in Seq(VersionType), NEW allowed
    PROVE  Selected(versions, Fits(versions, allowed), SelectVersion(versions, allowed))
<1> DEFINE N == Len(versions)
           upTo(m) == {j \in Fits(versions, allowed) : j <= m}
<1>1. N \in Nat /\ \A i \in 1..N : versions[i] \in VersionType /\ Precedence(versions[i]) \in Nat
  <2>1. N \in Nat /\ \A i \in 1..N : versions[i] \in VersionType
    OBVIOUS
  <2>2. \A x \in VersionType : Precedence(x) \in Nat
    BY DEF VersionType, Precedence
  <2>3. QED
    BY <2>1, <2>2
<1>2. PICK best \in [0..N -> VersionType] :
         /\ best[0] = NoVersion
         /\ \A i \in 1..N : best[i] = Better(versions[i], best[i - 1], allowed)
         /\ SelectVersion(versions, allowed) = best[N]
  BY SelectVersionRecurs
<1> DEFINE P(m) == Selected(versions, upTo(m), best[m])
           S == {m \in Nat : m <= N => P(m)}
<1>3. 0 \in S
  <2>1. upTo(0) = {}
    BY <1>1 DEF Fits
  <2>2. QED
    BY <1>2, <2>1 DEF Selected
<1>4. ASSUME NEW m \in Nat, m + 1 <= N, P(m) PROVE P(m + 1)
  <2> DEFINE new == versions[m + 1]
             kept == best[m]
  <2>1. m + 1 \in 1..N /\ (m + 1) - 1 = m /\ m \in 0..N
    BY <1>1, <1>4
  <2>2. best[m + 1] = Better(new, kept, allowed)
    BY <1>2, <2>1
  <2>3. upTo(m + 1) = IF new # NoVersion /\ Precedence(new) \in allowed
                      THEN upTo(m) \union {m + 1} ELSE upTo(m)
    BY <1>1, <2>1 DEF Fits
  <2>4. upTo(m) \subseteq 1..m /\ m + 1 \notin upTo(m) /\ upTo(m) \subseteq 1..N
        /\ \A j \in upTo(m) : versions[j] # NoVersion
    BY <1>1 DEF Fits
  <2> HIDE DEF upTo
  <2>5. CASE ~(new # NoVersion /\ Precedence(new) \in allowed)
    BY <1>4, <2>2, <2>3, <2>5 DEF Better
  <2>6. CASE /\ new # NoVersion /\ Precedence(new) \in allowed /\ upTo(m) = {}
    <3>1. kept = NoVersion /\ best[m + 1] = new /\ upTo(m + 1) = {m + 1}
      BY <1>4, <2>2, <2>3, <2>6 DEF Better, Selected
    <3>2. FirstHighest(versions, {m + 1}, m + 1)
      BY <1>1, <2>1 DEF FirstHighest
    <3>3. QED
      BY <3>1, <3>2 DEF Selected
  <2>7. CASE /\ new # NoVersion /\ Precedence(new) \in allowed /\ upTo(m) # {}
    <3>1. PICK i \in upTo(m) : FirstHighest(versions, upTo(m), i) /\ kept = versions[i]
      BY <1>4, <2>7 DEF Selected
    <3>2. kept # NoVersion /\ upTo(m + 1) = upTo(m) \union {m + 1} /\ i \in 1..m /\ i \in 1..N
      BY <2>3, <2>4, <2>7, <3>1
    <3>3. CASE Precedence(new) > Precedence(kept)
      <4>1. best[m + 1] = new
        BY <2>2, <2>7, <3>3 DEF Better
      <4>2. \A j \in upTo(m) : Precedence(versions[j]) < Precedence(new)
        <5>1. \A j \in upTo(m) : /\ Precedence(versions[j]) \in Nat
                                 /\ Precedence(versions[j]) <= Precedence(kept)
          BY <1>1, <2>4, <3>1 DEF FirstHighest
        <5>2. Precedence(new) \in Nat /\ Precedence(kept) \in Nat
          BY <1>1, <2>1, <3>1, <3>2
        <5>3. QED
          BY <3>3, <5>1, <5>2
      <4>3. FirstHighest(versions, upTo(m + 1), m + 1)
        <5>1. Precedence(new) \in Nat /\ \A j \in upTo(m) : Precedence(versions[j]) \in Nat
          BY <1>1, <2>1, <2>4
        <5>2. QED
          BY <3>2, <4>2, <5>1 DEF FirstHighest
      <4>4. QED
        BY <3>2, <4>1, <4>3 DEF Selected
    <3>4. CASE ~(Precedence(new) > Precedence(kept))
      <4>1. best[m + 1] = kept
        BY <2>2, <2>7, <3>2, <3>4 DEF Better
      <4>2. Precedence(new) <= Precedence(kept) /\ ~(m + 1 < i)
        BY <1>1, <2>1, <3>1, <3>2, <3>4
      <4>3. FirstHighest(versions, upTo(m + 1), i)
        BY <3>1, <3>2, <4>2 DEF FirstHighest
      <4>4. QED
        BY <3>1, <3>2, <4>1, <4>3 DEF Selected
    <3>5. QED
      BY <3>3, <3>4
  <2>8. QED
    BY <2>5, <2>6, <2>7
<1>5. N \in S
  <2>1. \A m \in S : m + 1 \in S
    <3> SUFFICES ASSUME NEW m \in S, m + 1 <= N PROVE P(m + 1)
      OBVIOUS
    <3>1. m \in Nat /\ P(m)
      BY <1>1
    <3> HIDE DEF P
    <3>2. QED
      BY <1>4, <3>1
  <2>2. S \in SUBSET Nat
    OBVIOUS
  <2> HIDE DEF S
  <2>3. S = Nat
    BY <1>3, <2>1, <2>2, Induction
  <2>4. QED
    BY <1>1, <2>3
<1>6. upTo(N) = Fits(versions, allowed)
  BY <1>1 DEF Fits
<1>7. P(N)
  <2> HIDE DEF P
  <2>1. QED
    BY <1>1, <1>5
<1>8. QED
  BY <1>2, <1>6, <1>7

-----------------------------------------------------------------------------
(* The keys of a purl.                                                       *)
Keys(purl) == {Key(purl, s, q) : s \in {purl.spelling, "canonical", "decoded"}, q \in BOOLEAN}

(* The candidates of a purl are among them.                                  *)
LEMMA CandidateKeysType ==
    ASSUME NEW purl \in PurlType
    PROVE  CandidateKeys(purl) \in Seq(Keys(purl))
<1> DEFINE KeyType == Keys(purl)
<1>1. \A s \in {purl.spelling, "canonical", "decoded"}, q \in BOOLEAN : Key(purl, s, q) \in KeyType
  BY DEF Keys
<1>2. purl.qualified \in BOOLEAN
  BY DEF PurlType
<1> HIDE DEF KeyType
<1>3. \A a, b, c \in KeyType :
         <<a>> \in Seq(KeyType) /\ <<a, b>> \in Seq(KeyType) /\ <<a, b, c>> \in Seq(KeyType)
  OBVIOUS
<1>4. RawKeys(purl) \in Seq(KeyType)
  <2>1. Key(purl, purl.spelling, TRUE) \in KeyType /\ Key(purl, purl.spelling, FALSE) \in KeyType
    BY <1>1, <1>2
  <2>2. QED
    BY <1>3, <2>1, Zenon DEF RawKeys
<1>5. << Key(purl, "canonical", purl.qualified), Key(purl, "canonical", FALSE),
         Key(purl, "decoded", FALSE) >> \in Seq(KeyType)
  <2>1. /\ Key(purl, "canonical", purl.qualified) \in KeyType
        /\ Key(purl, "canonical", FALSE) \in KeyType /\ Key(purl, "decoded", FALSE) \in KeyType
    BY <1>1, <1>2, Zenon
  <2>2. QED
    BY <1>3, <2>1, Zenon
<1>6. \A s, t \in Seq(KeyType) : s \o t \in Seq(KeyType)
  OBVIOUS
<1>7. QED
  BY <1>4, <1>5, <1>6, Zenon DEF CandidateKeys, KeyType

(* The version in the purl is no part of its key.                            *)
LEMMA KeysIgnoreVersion ==
    ASSUME NEW purl \in PurlType, purl.version = NoVersion \/ purl.cut = "none"
    PROVE  CandidateKeys(Stripped(purl)) = CandidateKeys(purl)
<1>1. \/ Stripped(purl) = purl
      \/ Stripped(purl) = [purl EXCEPT !.version = NoVersion]
  BY DEF Stripped
<1>2. /\ Stripped(purl).name = purl.name /\ Stripped(purl).spelling = purl.spelling
      /\ Stripped(purl).qualified = purl.qualified
  BY <1>1 DEF PurlType
<1>3. QED
  BY <1>2 DEF CandidateKeys, RawKeys, Key

(* What the cut of a version leaves of a purl is a purl: its version is gone  *)
(* or as it was, and its name as it was or what the cut left of it.          *)
LEMMA StrippedPurl ==
    ASSUME NEW purl \in PurlType
    PROVE  /\ Stripped(purl) \in PurlType
           /\ Stripped(purl).version \in {NoVersion, purl.version}
           /\ \/ Stripped(purl).name = purl.name
              \/ Stripped(purl).name = purl.cut /\ purl.cut # "none"
<1>1. CASE purl.version # NoVersion /\ purl.cut # "none"
  <2> DEFINE left == [purl EXCEPT !.name = purl.cut, !.cut = "none"]
  <2>1. left.name = purl.cut /\ left.version = purl.version
    BY DEF PurlType
  <2>2. left \in PurlType
    <3>1. purl.cut \in STRING
      BY <1>1 DEF PurlType
    <3>2. QED
      BY <3>1 DEF PurlType
  <2> HIDE DEF left
  <2>3. Stripped(purl) = left
    BY <1>1 DEF Stripped, left
  <2>4. QED
    BY <1>1, <2>1, <2>2, <2>3
<1>2. CASE ~(purl.version # NoVersion /\ purl.cut # "none")
  <2>1. NoVersion \in VersionType
    BY DEF NoVersion, VersionType
  <2>2. Stripped(purl) \in {purl, [purl EXCEPT !.version = NoVersion]}
    BY <1>2 DEF Stripped
  <2>3. /\ [purl EXCEPT !.version = NoVersion] \in PurlType
        /\ [purl EXCEPT !.version = NoVersion].version = NoVersion
        /\ [purl EXCEPT !.version = NoVersion].name = purl.name
    BY <2>1 DEF PurlType
  <2>4. QED
    BY <2>2, <2>3
<1>3. QED
  BY <1>1, <1>2

(* A component is rejected by sanitising, or to be looked up.                *)
LEMMA SanitisedType ==
    ASSUME NEW dto, dto.purl \in PurlType
    PROVE  LET c == SanitiseComponent(dto)
           IN  /\ c.purl \in PurlType /\ c.original = dto.purl
               /\ c.purl \in {dto.purl, Stripped(dto.purl)}
               /\ c.status \in {"SUCCESS", "INVALID_PURL"}
               /\ c.status = "SUCCESS" => c = Sanitised(dto) /\ c.purl.name # ""
<1>1. CASE dto.purl.kind = "purl"
  <2>1. SanitiseComponent(dto) = Sanitised(dto)
    BY <1>1 DEF SanitiseComponent
  <2>2. /\ Sanitised(dto).purl = Stripped(dto.purl) /\ Sanitised(dto).original = dto.purl
        /\ Sanitised(dto).status = IF Stripped(dto.purl).name = "" THEN "INVALID_PURL"
                                   ELSE "SUCCESS"
    BY DEF Sanitised
  <2>3. QED
    BY <2>1, <2>2, StrippedPurl
<1>2. CASE dto.purl.kind # "purl"
  BY <1>2 DEF SanitiseComponent, Invalid
<1>3. QED
  BY <1>1, <1>2

(* What PickKey returns for any keys and rows: a row with the most specific   *)
(* key any row has, and none only when no row has any of them                *)
(* (purl_key.go:77-87).                                                      *)
THEOREM PicksMostSpecific ==
    ASSUME NEW T, NEW keys \in Seq(T), NEW rows
    PROVE  LET row == PickKey(keys, rows)
           IN  \/ /\ row = NoRow
                  /\ \A i \in DOMAIN keys : \A r \in rows : r.purl # keys[i]
               \/ /\ row \in rows
                  /\ \E i \in DOMAIN keys :
                        /\ row.purl = keys[i]
                        /\ \A r \in rows, j \in 1..(i - 1) : r.purl # keys[j]
<1> DEFINE stored(i) == {r \in rows : r.purl = keys[i]}
           hits == {i \in DOMAIN keys : stored(i) # {}}
           first == CHOOSE i \in hits : \A j \in hits : i <= j
           row == PickKey(keys, rows)
<1>1. DOMAIN keys = 1..Len(keys) /\ Len(keys) \in Nat
  OBVIOUS
<1>2. CASE hits = {}
  BY <1>2 DEF PickKey
<1>3. CASE hits # {}
  <2>1. first \in hits /\ \A j \in hits : first <= j
    <3>1. hits \in SUBSET Nat
      BY <1>1
    <3>2. \E i \in hits : \A j \in hits : i <= j
      <4> HIDE DEF hits
      <4>1. QED
        BY <1>3, <3>1, Least
    <3> HIDE DEF hits
    <3>3. QED
      BY <3>2, Zenon
  <2>2. row = CHOOSE r \in stored(first) : TRUE
    BY <1>3 DEF PickKey
  <2> HIDE DEF first, row
  <2>3. row \in stored(first)
    <3>1. stored(first) # {}
      BY <2>1
    <3> HIDE DEF stored
    <3>2. QED
      BY <2>2, <3>1, Zenon
  <2>4. \A r \in rows, j \in 1..(first - 1) : r.purl # keys[j]
    BY <1>1, <2>1
  <2>5. row \in rows /\ row.purl = keys[first] /\ first \in DOMAIN keys
    BY <2>1, <2>3
  <2>6. QED
    BY <2>4, <2>5 DEF row
<1>4. QED
  BY <1>2, <1>3

(* Reading only the rows that match one of the keys loses nothing.           *)
LEMMA PicksAmongMatching ==
    ASSUME NEW T, NEW keys \in Seq(T), NEW rows
    PROVE  PickKey(keys, Matching(keys, rows)) = PickKey(keys, rows)
<1> DEFINE stored(i) == {r \in rows : r.purl = keys[i]}
           matching(i) == {r \in Matching(keys, rows) : r.purl = keys[i]}
<1>1. \A i \in DOMAIN keys : matching(i) = stored(i)
  BY DEF Matching, Contains
<1>2. {i \in DOMAIN keys : matching(i) # {}} = {i \in DOMAIN keys : stored(i) # {}}
  BY <1>1
<1> DEFINE hits == {i \in DOMAIN keys : stored(i) # {}}
           first == CHOOSE i \in hits : \A j \in hits : i <= j
<1>3. CASE hits = {}
  BY <1>2, <1>3 DEF PickKey
<1>4. CASE hits # {}
  <2>1. first \in DOMAIN keys
    <3>1. hits \in SUBSET Nat
      OBVIOUS
    <3>2. \E i \in hits : \A j \in hits : i <= j
      <4> HIDE DEF hits
      <4>1. QED
        BY <1>4, <3>1, Least
    <3>3. first \in hits
      <4> HIDE DEF hits
      <4>1. QED
        BY <3>2, Zenon
    <3>4. QED
      BY <3>3
  <2>2. matching(first) = stored(first)
    BY <1>1, <2>1
  <2>3. PickKey(keys, rows) = CHOOSE r \in stored(first) : TRUE
    BY <1>4 DEF PickKey
  <2>4. PickKey(keys, Matching(keys, rows)) = CHOOSE r \in matching(first) : TRUE
    <3>1. {i \in DOMAIN keys : matching(i) # {}} = hits
      BY <1>2
    <3>2. QED
      BY <1>4, <3>1, Zenon DEF PickKey
  <2>5. QED
    BY <2>2, <2>3, <2>4
<1>5. QED
  BY <1>3, <1>4

-----------------------------------------------------------------------------
(* The other spelling of a version is a version, of the same precedence.     *)
LEMMA TogglesPrefix ==
    ASSUME NEW wanted \in VersionType \ {NoVersion}
    PROVE  /\ TogglePrefix(wanted) \in VersionType \ {NoVersion}
           /\ Precedence(TogglePrefix(wanted)) = Precedence(wanted)
           /\ Precedence(wanted) \in Nat
<1>1. wanted.rank \in Int /\ wanted.v \in BOOLEAN
  BY DEF VersionType
<1>2. CASE wanted.rank < 0
  BY <1>1, <1>2 DEF TogglePrefix, Precedence
<1>3. CASE ~(wanted.rank < 0)
  <2>1. TogglePrefix(wanted) = [wanted EXCEPT !.v = ~@]
    BY <1>3 DEF TogglePrefix
  <2>2. /\ TogglePrefix(wanted) \in VersionType
        /\ TogglePrefix(wanted).rank = wanted.rank
    BY <2>1 DEF VersionType
  <2>3. NoVersion.rank = -1
    BY DEF NoVersion
  <2>4. TogglePrefix(wanted) # NoVersion
    BY <1>1, <1>3, <2>2, <2>3
  <2>5. QED
    BY <1>1, <1>3, <2>2, <2>4 DEF Precedence
<1>4. QED
  BY <1>2, <1>3

(* A version asked for is matched in the spelling it was asked in, else in    *)
(* the other, else not at all.                                               *)
LEMMA MatchesEither ==
    ASSUME NEW versions \in Seq(VersionType), NEW wanted \in VersionType \ {NoVersion}
    PROVE  LET match == MatchVersion(versions, wanted)
           IN  /\ match # NoVersion => match \in ToSet(versions) \intersect {wanted, TogglePrefix(wanted)}
               /\ match = NoVersion => wanted \notin ToSet(versions)
                                       /\ TogglePrefix(wanted) \notin ToSet(versions)
               /\ wanted \in ToSet(versions) => match = wanted
<1>1. \A x : Contains(versions, x) <=> x \in ToSet(versions)
  BY DEF Contains, ToSet
<1>2. TogglePrefix(wanted) # NoVersion
  BY TogglesPrefix
<1>3. QED
  BY <1>1, <1>2 DEF MatchVersion
=============================================================================
