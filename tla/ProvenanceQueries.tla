-------------------------- MODULE ProvenanceQueries --------------------------
(* The four queries of pkg/models/provenance.go, over the tables of an        *)
(* export.  A text column is a number, so that it can be ordered: 0 is the    *)
(* empty string and a negative number NULL.  A join compares as SQL does,     *)
(* and DISTINCT is what a set does.                                           *)
EXTENDS Integers, Sequences, FiniteSets, SequencesExt

NotNull(text) == text >= 0
Filled(text) == NotNull(text) /\ text # 0

(* What the proofs need of the tables of an export.                          *)
IsExport(e) ==
    /\ IsFiniteSet(e.vendor) /\ IsFiniteSet(e.vendor_location)
    /\ IsFiniteSet(e.vendor_location_declared) /\ IsFiniteSet(e.country)
    /\ \A c \in e.country : c.name \in Int
    /\ \A d \in e.vendor_location_declared : d.timezone_country \in Int

GitHub == 5

Contributors(e, id) == {ct.contributor_id : ct \in {ct \in e.contribution : ct.purl_id = id}}

\* Mutant: contributors of every mine count.
MinedAnywhere(e, id) ==
    LET contributors == Contributors(e, id)
    IN  {v \in e.vendor : v.id \in contributors}

(* The contributors of a component that come from the GitHub mine.           *)
Mined(e, id) ==
    LET contributors == Contributors(e, id)
    IN  {v \in e.vendor : v.mine_id = GitHub /\ v.id \in contributors}

(* A finite set as a sequence, by the pairs of a strict total order.         *)
InOrder(S, before) ==
    [k \in 1..Cardinality(S) |->
        CHOOSE x \in S : Cardinality({y \in S : <<y, x>> \in before}) = k - 1]

(* COUNT(DISTINCT vendor) GROUP BY country                                   *)
CountryRows(locations) ==
    LET vendors(country) == {l.vendor : l \in {l \in locations : l.country = country}}
    IN  {[country |-> country, count |-> Cardinality(vendors(country))] :
            country \in {l.country : l \in locations}}

(* ORDER BY count DESC, country ASC                                          *)
Before(rows) ==
    {p \in rows \X rows : \/ p[1].count > p[2].count
                          \/ p[1].count = p[2].count /\ p[1].country < p[2].country}

Ranked(locations) ==
    LET rows == CountryRows(locations) IN InOrder(rows, Before(rows))

CountryCounts(e, id) ==
    LET typed == {v.id : v \in {v \in Mined(e, id) : Filled(v.type)}}
        located == {vl \in e.vendor_location : vl.vendor_id \in typed}
        joined == {p \in located \X e.country : p[2].id = p[1].country_id /\ Filled(p[2].name)}
    IN  Ranked({[vendor |-> p[1].vendor_id, country |-> p[2].name] : p \in joined})

TimezoneOrigin(e, id) ==
    LET mined == {v.id : v \in Mined(e, id)}
    IN  Ranked({[vendor |-> d.vendor_id, country |-> d.timezone_country] :
                   d \in {d \in e.vendor_location_declared :
                             d.vendor_id \in mined /\ Filled(d.timezone_country)}})

(* Any type but NULL, the empty one too; the order of the rows is left out.  *)
DeclaredLocations(e, id) ==
    LET typed == {v \in Mined(e, id) : NotNull(v.type)}
        located == {d \in e.vendor_location_declared : Filled(d.declared_location)}
        joined == {p \in typed \X located : p[2].vendor_id = p[1].id}
    IN  {[type |-> p[1].type, vendor |-> p[1].username, location |-> p[2].declared_location] :
            p \in joined}

TooManyContributors(e, id) == id \in e.too_many_contributors
=============================================================================
