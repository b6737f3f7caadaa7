--------------------------- MODULE MCGeoProvenance ---------------------------
(* Two exports and requests about components with data of every kind: one    *)
(* with hundreds of contributors, one with none that count, one that is only *)
(* listed, two of the same name in different ecosystems, and one whose scope *)
(* starts with its version, which sanitising makes another.                  *)
EXTENDS GeoProvenance

Ver(rank) == [v |-> FALSE, rank |-> rank]
Purl(name, version, escaped) ==
    [kind |-> "purl", name |-> name, spelling |-> "canonical",
     qualified |-> FALSE, version |-> version, escaped |-> escaped, cut |-> "none"]
Ask(name, version) == [purl |-> Purl(name, version, FALSE), requirement |-> NoRequirement]
Escaped(name, version) == [purl |-> Purl(name, version, TRUE), requirement |-> NoRequirement]
Without(kind) == [purl |-> [Purl("npm/a", NoVersion, FALSE) EXCEPT !.kind = kind],
                  requirement |-> NoRequirement]

Mangled(name, left, version) ==
    [purl |-> [Purl(name, version, FALSE) EXCEPT !.cut = left], requirement |-> NoRequirement]

Empty == Without("empty")
Bad == Without("invalid")
A == Ask("npm/a", NoVersion)
A1 == Ask("npm/a", Ver(1))
A9 == Escaped("npm/a", Ver(9))
PyA == Ask("pypi/a", NoVersion)
B == Ask("npm/b", NoVersion)
B1 == Escaped("npm/b", Ver(1))
C == Ask("npm/c", NoVersion)
Z == Ask("npm/z", NoVersion)
Y0 == Mangled("npm/@0x/y", "npm/x/y", Ver(0))
Lost == Mangled("npm/@0", "", Ver(0))

MCNameOf == [name \in {"npm/a", "pypi/a", "npm/b", "npm/c", "npm/z", "npm/@0", "npm/@0x/y",
                       "npm/x/y"} |->
               CASE name \in {"npm/a", "pypi/a"} -> "a" [] name = "npm/b" -> "b"
                 [] name = "npm/c" -> "c" [] name = "npm/z" -> "z" [] name = "npm/@0" -> "@0"
                 [] name = "npm/@0x/y" -> "@0x/y" [] name = "npm/x/y" -> "x/y"]

MCRequests ==
    { <<>>, <<Empty>>, <<Bad>>, <<A>>, <<PyA>>, <<B1>>, <<C>>, <<Z>>,
      <<Empty, Empty>>, <<A1, B>>, <<A9, Bad>>, <<C, B>>, <<PyA, A1>>, <<A, A1>>,
      <<Empty, A9, C>>, <<B, Z, A>>, <<C, Bad, PyA>>, <<B1, PyA, Empty>>,
      <<A, A, B>>, <<A1, A9, PyA>>, <<Z, A, Bad, B>>, <<B, Empty, C, A1>>,
      <<Y0>>, <<B, Lost>>, <<Lost, Y0, Bad>> }

\* The request of the finding: one package asked about at two versions.
MCSameName == { <<A, A1>>, <<A, PyA>>, <<B, C>>, <<A, B, C>>, <<C, B1, PyA>> }

Row(name, id) ==
    [purl |-> [name |-> name, spelling |-> "canonical", qualified |-> FALSE],
     purl_id |-> id, source |-> "none"]

Rows == {Row("npm/a", "a1"), Row("pypi/a", "a2"), Row("npm/b", "b1"), Row("npm/c", "c1"),
         Row("npm/x/y", "y1")}
Published == [a1 |-> <<Ver(1), Ver(2)>>, a2 |-> <<Ver(1)>>, b1 |-> <<Ver(2)>>,
              c1 |-> <<Ver(1)>>, y1 |-> <<Ver(0)>>]

(* Contributors: who is who, for every file.  700 has no type and 800 an     *)
(* empty one; 900 to 902 are not of the GitHub mine.                         *)
Untyped == -1
User == 1
Vendors ==
    {[id |-> n, username |-> n, mine_id |-> IF n < 900 THEN 5 ELSE 6,
      type |-> CASE n = 700 -> Untyped [] n = 800 -> 0 [] OTHER -> User] :
        n \in 1..601 \union {700, 800, 900, 901, 902}}

Contributions(id, vendors) == {[purl_id |-> id, contributor_id |-> n] : n \in vendors}
Lives(vendors, country) == {[vendor_id |-> n, country_id |-> country] : n \in vendors}
Declares(vendors, place, zone) ==
    {[vendor_id |-> n, declared_location |-> place, timezone_country |-> zone] : n \in vendors}

(* Countries 7 and 8 have no name.                                           *)
Countries == {[id |-> 10 * n, name |-> n] : n \in 1..4} \union
             {[id |-> 70, name |-> 0], [id |-> 80, name |-> -1]}

Yesterday ==
    [rows |-> Rows, published |-> Published, too_many_contributors |-> {"a2", "c1"},
     vendor |-> Vendors, country |-> Countries,
     contribution |-> Contributions("a1", 1..601) \union
                      Contributions("a2", {2, 700, 800, 900}) \union
                      Contributions("b1", {901, 902}) \union Contributions("y1", {2, 601}),
     vendor_location |-> Lives({1, 2}, 10) \union Lives({2, 3, 900, 901}, 20) \union
                         Lives({4}, 70) \union Lives({5}, 80) \union Lives({700, 800}, 30),
     vendor_location_declared |->
        Declares(1..200, 0, 3) \union Declares(201..600, -1, 2) \union
        Declares({601}, 5, 1) \union Declares({601, 602, 901}, 6, 4) \union
        Declares({700, 800}, 7, 0)]

Today ==
    [rows |-> Rows \ {Row("npm/c", "c1")}, published |-> [Published EXCEPT !.c1 = <<>>],
     too_many_contributors |-> {"b1"},
     vendor |-> Vendors, country |-> Countries,
     contribution |-> Contributions("a1", 1..3) \union Contributions("a2", {700, 800}) \union
                      Contributions("b1", 1..7) \union Contributions("y1", {1, 3}),
     vendor_location |-> Lives({1, 2}, 10) \union Lives({3, 700}, 40),
     vendor_location_declared |->
        Declares({1, 2}, 8, 2) \union Declares({3, 4, 700}, -1, 1) \union Declares({5}, 0, -1)]

MCExport == [yesterday |-> Yesterday, today |-> Today]
=============================================================================
