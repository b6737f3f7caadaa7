----------------------- MODULE ProvenanceQueries_proofs -----------------------
(* What the queries of ProvenanceQueries return, for any tables: the order of *)
(* their rows and whom each row counts.                                      *)
EXTENDS ProvenanceQueries, FiniteSetTheorems, FunctionTheorems, TLAPS

-----------------------------------------------------------------------------
(* Putting a set in order.                                                   *)

StrictOrder(S, before) ==
    /\ \A x \in S : <<x, x>> \notin before
    /\ \A x, y, z \in S : <<x, y>> \in before /\ <<y, z>> \in before => <<x, z>> \in before
    /\ \A x, y \in S : x # y => <<x, y>> \in before \/ <<y, x>> \in before

Below(S, before, x) == {y \in S : <<y, x>> \in before}

(* An element has fewer below it than one it comes before.                   *)
LEMMA RankRises ==
    ASSUME NEW S, IsFiniteSet(S), NEW before, StrictOrder(S, before), NEW y \in S
    PROVE  /\ Cardinality(Below(S, before, y)) \in 0..(Cardinality(S) - 1)
           /\ \A x \in S : <<x, y>> \in before =>
                 Cardinality(Below(S, before, x)) < Cardinality(Below(S, before, y))
<1> DEFINE under(x) == Below(S, before, x)
<1>1. under(y) \subseteq S \ {y}
  BY DEF Below, StrictOrder
<1>2. \A T : T \subseteq S => IsFiniteSet(T) /\ Cardinality(T) \in Nat
  BY FS_Subset, FS_CardinalityType
<1>3. Cardinality(under(y)) <= Cardinality(S) - 1
  <2>1. IsFiniteSet(S \ {y}) /\ Cardinality(S \ {y}) = Cardinality(S) - 1
    BY FS_RemoveElement
  <2>2. Cardinality(under(y)) <= Cardinality(S \ {y})
    BY <1>1, <2>1, FS_Subset
  <2>3. QED
    BY <2>1, <2>2
<1>4. ASSUME NEW x \in S, <<x, y>> \in before
      PROVE  Cardinality(under(x)) < Cardinality(under(y))
  <2>1. x \in under(y) /\ under(x) \subseteq under(y) \ {x}
    BY <1>4 DEF Below, StrictOrder
  <2>2. IsFiniteSet(under(y)) /\ Cardinality(under(y)) \in Nat /\ Cardinality(under(x)) \in Nat
    BY <1>2 DEF Below
  <2>3. IsFiniteSet(under(y) \ {x}) /\ Cardinality(under(y) \ {x}) = Cardinality(under(y)) - 1
    BY <2>1, <2>2, FS_RemoveElement
  <2>4. Cardinality(under(x)) <= Cardinality(under(y) \ {x})
    BY <2>1, <2>3, FS_Subset
  <2>5. QED
    BY <2>2, <2>3, <2>4
<1>5. Cardinality(under(y)) \in Nat /\ Cardinality(S) \in Nat
  BY <1>2 DEF Below
<1>6. QED
  BY <1>3, <1>4, <1>5

(* InOrder lists every element of the set once, in the order given: what     *)
(* ORDER BY does to the rows of a query.                                     *)
THEOREM ListedInOrder ==
    ASSUME NEW S, IsFiniteSet(S), NEW before, StrictOrder(S, before)
    PROVE  /\ Cardinality(S) \in Nat
           /\ InOrder(S, before) \in [1..Cardinality(S) -> S]
           /\ \A x \in S : \E k \in 1..Cardinality(S) : InOrder(S, before)[k] = x
           /\ \A j, k \in 1..Cardinality(S) : j < k =>
                 <<InOrder(S, before)[j], InOrder(S, before)[k]>> \in before
<1> DEFINE N == Cardinality(S)
           rank == [x \in S |-> Cardinality(Below(S, before, x)) + 1]
           list == InOrder(S, before)
<1>1. N \in Nat /\ \A x \in S : Cardinality(Below(S, before, x)) \in 0..(N - 1)
  BY RankRises, FS_CardinalityType
<1>2. rank \in [S -> 1..N]
  BY <1>1
<1>3. \A x, y \in S : <<x, y>> \in before => rank[x] < rank[y]
  BY <1>1, RankRises
<1>4. \A x, y \in S : rank[x] = rank[y] => x = y
  <2> SUFFICES ASSUME NEW x \in S, NEW y \in S, rank[x] = rank[y], x # y PROVE FALSE
    OBVIOUS
  <2>1. rank[x] < rank[y] \/ rank[y] < rank[x]
    BY <1>3 DEF StrictOrder
  <2>2. QED
    BY <1>2, <2>1
<1> HIDE DEF rank
<1>5. \A k \in 1..N : \E x \in S : rank[x] = k
  <2>1. rank \in Injection(S, 1..N)
    BY <1>2, <1>4, Fun_IsInj
  <2>2. IsFiniteSet(1..N) /\ Cardinality(1..N) = N
    BY <1>1, FS_Interval
  <2>3. rank \in Surjection(S, 1..N)
    BY <2>1, <2>2, FS_Injection
  <2>4. QED
    BY <2>3, Fun_SurjectionProperties, Zenon
<1>6. \A k \in 1..N : list[k] \in S /\ rank[list[k]] = k
  <2> SUFFICES ASSUME NEW k \in 1..N
               PROVE  list[k] \in S /\ rank[list[k]] = k
    OBVIOUS
  <2>1. \E x \in S : rank[x] = k
    BY <1>5
  <2>2. \A x \in S : rank[x] = k <=> Cardinality(Below(S, before, x)) = k - 1
    BY <1>1 DEF rank
  <2>3. list[k] = CHOOSE x \in S : Cardinality(Below(S, before, x)) = k - 1
    BY DEF InOrder, Below
  <2>4. QED
    BY <2>1, <2>2, <2>3, Zenon
<1>7. list = [k \in 1..N |-> CHOOSE x \in S : Cardinality(Below(S, before, x)) = k - 1]
  BY DEF InOrder, Below
<1>8. \A x \in S : rank[x] \in 1..N /\ list[rank[x]] = x
  BY <1>2, <1>4, <1>6
<1>9. ASSUME NEW j \in 1..N, NEW k \in 1..N, j < k
      PROVE  <<list[j], list[k]>> \in before
  <2>1. list[j] \in S /\ list[k] \in S /\ rank[list[j]] < rank[list[k]]
    BY <1>6, <1>9
  <2>2. list[j] # list[k] /\ ~(rank[list[k]] < rank[list[j]])
    BY <1>2, <2>1
  <2>3. QED
    BY <1>3, <2>1, <2>2 DEF StrictOrder
<1>10. list \in [1..N -> S]
  BY <1>6, <1>7
<1> HIDE DEF list
<1>11. QED
  BY <1>1, <1>8, <1>9, <1>10 DEF list

-----------------------------------------------------------------------------
(* What is computed from the elements of a finite set is finite.             *)
LEMMA ImageFinite ==
    ASSUME NEW S, IsFiniteSet(S), NEW f, NEW T, T = {f[x] : x \in S}
    PROVE  IsFiniteSet(T) /\ Cardinality(T) <= Cardinality(S)
<1> DEFINE g == [x \in S |-> f[x]]
<1>1. g \in [S -> T] /\ \A t \in T : \E x \in S : g[x] = t
  OBVIOUS
<1>2. g \in Surjection(S, T)
  BY <1>1, Fun_IsSurj
<1>3. QED
  BY <1>2, FS_Surjection

(* The same country once, the one with more vendors first.                   *)
LEMMA RowsOrder ==
    ASSUME NEW locations, IsFiniteSet(locations), \A l \in locations : l.country \in Int
    PROVE  LET rows == CountryRows(locations)
           IN  /\ IsFiniteSet(rows) /\ StrictOrder(rows, Before(rows))
               /\ \A r \in rows : r.count \in Nat
<1> DEFINE vendors(c) == {l.vendor : l \in {l \in locations : l.country = c}}
           row == [l \in locations |-> [country |-> l.country, count |-> Cardinality(vendors(l.country))]]
           rows == CountryRows(locations)
<1>1. rows = {row[l] : l \in locations}
  BY DEF CountryRows
<1>2. IsFiniteSet(rows)
  <2> HIDE DEF rows, row
  <2>1. QED
    BY <1>1, ImageFinite
<1>3. \A c : IsFiniteSet(vendors(c)) /\ Cardinality(vendors(c)) \in Nat
  <2> TAKE c
  <2> DEFINE L == {l \in locations : l.country = c}
             of == [l \in L |-> l.vendor]
  <2>1. IsFiniteSet(L)
    BY FS_Subset
  <2>2. vendors(c) = {of[l] : l \in L}
    OBVIOUS
  <2>3. IsFiniteSet(vendors(c))
    <3> HIDE DEF vendors, L, of
    <3>1. QED
      BY <2>1, <2>2, ImageFinite
  <2>4. QED
    BY <2>3, FS_CardinalityType
<1>4. \A r \in rows : /\ r.country \in Int /\ r.count \in Nat
                      /\ r = [country |-> r.country, count |-> r.count]
                      /\ r.count = Cardinality(vendors(r.country))
  <2>1. \A l \in locations : row[l] = [country |-> l.country, count |-> Cardinality(vendors(l.country))]
    OBVIOUS
  <2> HIDE DEF rows, row, vendors
  <2>2. ASSUME NEW r \in rows
        PROVE  \E l \in locations : r = [country |-> l.country, count |-> Cardinality(vendors(l.country))]
    BY <1>1, <2>1
  <2>3. QED
    BY <1>3, <2>2
<1> HIDE DEF rows, row, vendors
<1>5. StrictOrder(rows, Before(rows))
  <2>1. \A r, s \in rows : <<r, s>> \in Before(rows) <=>
                           \/ r.count > s.count
                           \/ r.count = s.count /\ r.country < s.country
    BY DEF Before
  <2>2. \A r \in rows : <<r, r>> \notin Before(rows)
    BY <1>4, <2>1
  <2>3. ASSUME NEW r \in rows, NEW s \in rows, NEW t \in rows,
               <<r, s>> \in Before(rows), <<s, t>> \in Before(rows)
        PROVE  <<r, t>> \in Before(rows)
    <3>1. /\ r.count \in Nat /\ s.count \in Nat /\ t.count \in Nat
          /\ r.country \in Int /\ s.country \in Int /\ t.country \in Int
      BY <1>4
    <3>2. /\ r.count > s.count \/ (r.count = s.count /\ r.country < s.country)
          /\ s.count > t.count \/ (s.count = t.count /\ s.country < t.country)
      BY <2>1, <2>3
    <3>3. r.count > t.count \/ (r.count = t.count /\ r.country < t.country)
      BY <3>1, <3>2
    <3>4. QED
      BY <2>1, <3>3
  <2>4. ASSUME NEW r \in rows, NEW s \in rows, r # s
        PROVE  <<r, s>> \in Before(rows) \/ <<s, r>> \in Before(rows)
    <3>1. r.country # s.country
      BY <1>4, <2>4
    <3>2. /\ r.count \in Nat /\ s.count \in Nat
          /\ r.country \in Int /\ s.country \in Int
      BY <1>4
    <3>3. QED
      BY <2>1, <3>1, <3>2
  <2>5. QED
    BY <2>2, <2>3, <2>4 DEF StrictOrder
<1>6. QED
  BY <1>2, <1>4, <1>5 DEF rows

(* A ranking of whom the contributors are: no country twice, the one with     *)
(* most contributors first, and none with more than there are.               *)
IsRanking(s, contributors) ==
    /\ \E n \in Nat : /\ DOMAIN s = 1..n
                      /\ s = [k \in 1..n |-> [country |-> s[k].country, count |-> s[k].count]]
    /\ \A k \in DOMAIN s : /\ s[k].country \in Int
                           /\ s[k].count \in Nat /\ s[k].count > 0
                           /\ s[k].count <= Cardinality(contributors)
    /\ \A j, k \in DOMAIN s : j < k =>
          s[j].country # s[k].country /\ s[j].count >= s[k].count

LEMMA RankedIsRanking ==
    ASSUME NEW locations, IsFiniteSet(locations), \A l \in locations : l.country \in Int,
           NEW contributors, IsFiniteSet(contributors),
           \A l \in locations : l.vendor \in contributors
    PROVE  IsRanking(Ranked(locations), contributors)
<1> DEFINE rows == CountryRows(locations)
           list == Ranked(locations)
           vendors(c) == {l.vendor : l \in {l \in locations : l.country = c}}
<1>1. \A r \in rows : /\ r = [country |-> r.country, count |-> r.count]
                      /\ r.country \in Int
                      /\ r.count = Cardinality(vendors(r.country))
                      /\ vendors(r.country) # {} /\ vendors(r.country) \subseteq contributors
  <2> TAKE r \in rows
  <2>1. PICK l \in locations : r = [country |-> l.country, count |-> Cardinality(vendors(l.country))]
    BY DEF CountryRows
  <2>2. l.vendor \in vendors(l.country)
    OBVIOUS
  <2>3. \A c : vendors(c) \subseteq contributors
    OBVIOUS
  <2> HIDE DEF vendors, rows
  <2>4. QED
    BY <2>1, <2>2, <2>3
<1>2. \A r \in rows : r.count \in Nat /\ r.count > 0 /\ r.count <= Cardinality(contributors)
  <2> SUFFICES ASSUME NEW r \in rows
               PROVE  r.count \in Nat /\ r.count > 0 /\ r.count <= Cardinality(contributors)
    OBVIOUS
  <2> DEFINE V == vendors(r.country)
  <2>1. V # {} /\ V \subseteq contributors /\ r.count = Cardinality(V)
    BY <1>1
  <2> HIDE DEF V, rows, vendors
  <2>2. IsFiniteSet(V) /\ Cardinality(V) <= Cardinality(contributors)
    BY <2>1, FS_Subset
  <2>3. Cardinality(V) \in Nat /\ Cardinality(V) # 0
    BY <2>1, <2>2, FS_CardinalityType, FS_EmptySet
  <2>4. QED
    BY <2>1, <2>2, <2>3
<1>3. IsFiniteSet(rows) /\ StrictOrder(rows, Before(rows))
  BY RowsOrder
<1>4. list = InOrder(rows, Before(rows))
  BY DEF Ranked
<1> HIDE DEF rows, list, vendors
<1>5. /\ Cardinality(rows) \in Nat /\ list \in [1..Cardinality(rows) -> rows]
      /\ \A j, k \in 1..Cardinality(rows) : j < k => <<list[j], list[k]>> \in Before(rows)
  BY <1>3, <1>4, ListedInOrder
<1>6. \A k \in 1..Cardinality(rows) : list[k] \in rows
  BY <1>5
<1>7. list = [k \in 1..Cardinality(rows) |-> [country |-> list[k].country, count |-> list[k].count]]
  BY <1>1, <1>5, <1>6
<1>8. ASSUME NEW j \in 1..Cardinality(rows), NEW k \in 1..Cardinality(rows), j < k
      PROVE  list[j].country # list[k].country /\ list[j].count >= list[k].count
  <2>1. /\ list[j].count \in Nat /\ list[k].count \in Nat
        /\ list[j].country \in Int /\ list[k].country \in Int
    BY <1>1, <1>2, <1>6
  <2>2. \/ list[j].count > list[k].count
        \/ list[j].count = list[k].count /\ list[j].country < list[k].country
    BY <1>5, <1>8 DEF Before
  <2>3. list[j].country = list[k].country => list[j].count = list[k].count
    BY <1>1, <1>6
  <2>4. QED
    BY <2>1, <2>2, <2>3
<1>9. DOMAIN list = 1..Cardinality(rows)
  BY <1>5
<1>10. QED
  BY <1>1, <1>2, <1>5, <1>6, <1>7, <1>8, <1>9 DEF IsRanking, list

GitHubIds(e, id) == {v.id : v \in Mined(e, id)}

LEMMA GitHubIdsFinite ==
    ASSUME NEW e, IsExport(e), NEW id
    PROVE  IsFiniteSet(GitHubIds(e, id))
<1> DEFINE of == [v \in Mined(e, id) |-> v.id]
<1>1. IsFiniteSet(Mined(e, id))
  BY FS_Subset DEF IsExport, Mined
<1>2. GitHubIds(e, id) = {of[v] : v \in Mined(e, id)}
  BY DEF GitHubIds
<1> HIDE DEF of
<1>3. QED
  BY <1>1, <1>2, ImageFinite

(* Both country queries rank the countries of a component's GitHub           *)
(* contributors: vendors of other mines are not counted, nor anyone twice in  *)
(* a country.                                                                *)
THEOREM QueriesRank ==
    ASSUME NEW e, IsExport(e), NEW id
    PROVE  /\ IsRanking(CountryCounts(e, id), GitHubIds(e, id))
           /\ IsRanking(TimezoneOrigin(e, id), GitHubIds(e, id))
<1>1. IsFiniteSet(GitHubIds(e, id))
  BY GitHubIdsFinite
<1>2. IsRanking(CountryCounts(e, id), GitHubIds(e, id))
  <2> DEFINE typed == {v.id : v \in {v \in Mined(e, id) : Filled(v.type)}}
             located == {vl \in e.vendor_location : vl.vendor_id \in typed}
             joined == {p \in located \X e.country : p[2].id = p[1].country_id /\ Filled(p[2].name)}
             of == [p \in joined |-> [vendor |-> p[1].vendor_id, country |-> p[2].name]]
             rows == {[vendor |-> p[1].vendor_id, country |-> p[2].name] : p \in joined}
  <2>1. IsFiniteSet(joined)
    <3>1. IsFiniteSet(located)
      BY FS_Subset DEF IsExport
    <3>2. IsFiniteSet(located \X e.country)
      BY <3>1, FS_Product DEF IsExport
    <3>3. QED
      BY <3>2, FS_Subset
  <2>2. rows = {of[p] : p \in joined}
    OBVIOUS
  <2>3. \A l \in rows : l.vendor \in GitHubIds(e, id) /\ l.country \in Int
    BY DEF IsExport, GitHubIds
  <2>4. CountryCounts(e, id) = Ranked(rows)
    BY DEF CountryCounts
  <2> HIDE DEF joined, of, rows
  <2>5. IsFiniteSet(rows)
    BY <2>1, <2>2, ImageFinite
  <2>6. QED
    BY <1>1, <2>3, <2>4, <2>5, RankedIsRanking
<1>3. IsRanking(TimezoneOrigin(e, id), GitHubIds(e, id))
  <2> DEFINE declared == {d \in e.vendor_location_declared :
                             d.vendor_id \in GitHubIds(e, id) /\ Filled(d.timezone_country)}
             of == [d \in declared |-> [vendor |-> d.vendor_id, country |-> d.timezone_country]]
             rows == {[vendor |-> d.vendor_id, country |-> d.timezone_country] : d \in declared}
  <2>1. IsFiniteSet(declared)
    BY FS_Subset DEF IsExport
  <2>2. rows = {of[d] : d \in declared}
    OBVIOUS
  <2>3. \A l \in rows : l.vendor \in GitHubIds(e, id) /\ l.country \in Int
    BY DEF IsExport
  <2>4. TimezoneOrigin(e, id) = Ranked(rows)
    BY DEF TimezoneOrigin, GitHubIds
  <2> HIDE DEF declared, of, rows
  <2>5. IsFiniteSet(rows)
    BY <2>1, <2>2, ImageFinite
  <2>6. QED
    BY <1>1, <2>3, <2>4, <2>5, RankedIsRanking
<1>4. QED
  BY <1>2, <1>3
=============================================================================
