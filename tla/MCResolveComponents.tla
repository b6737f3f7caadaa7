------------------------- MODULE MCResolveComponents -------------------------
(* Two exports and requests for the components in them: a scoped name stored  *)
(* canonically, one stored only as the caller writes it, one stored with and  *)
(* without its qualifiers; versions with a v, without, and not semver.        *)
EXTENDS ResolveComponents

Ver(v, rank) == [v |-> v, rank |-> rank]
Purl(name, spelling, qualified, version, escaped) ==
    [kind |-> "purl", name |-> name, spelling |-> spelling,
     qualified |-> qualified, version |-> version, escaped |-> escaped, cut |-> "none"]
Plain(name) == Purl(name, "canonical", FALSE, NoVersion, FALSE)
Ask(purl, requirement) == [purl |-> purl, requirement |-> requirement]
Row(name, spelling, qualified, id, source) ==
    [purl |-> [name |-> name, spelling |-> spelling, qualified |-> qualified],
     purl_id |-> id, source |-> source]

NoKind(kind) == [Plain("a") EXCEPT !.kind = kind]

(* A package whose unescaped scope starts with the version asked for, like    *)
(* npm/@0x/utils@0: sanitising leaves the name of another package, or none.  *)
Mangled(name, left, version) ==
    [Purl(name, "decoded", FALSE, version, FALSE) EXCEPT !.cut = left]

Dtos ==
    { Ask(NoKind("empty"), NoRequirement),
      Ask(NoKind("invalid"), Literal(Ver(TRUE, 1))),
      Ask(Plain("a"), NoRequirement),
      Ask(Plain("a"), Constraint({0, 1})),
      Ask(Plain("a"), Constraint({7})),
      Ask(Plain("a"), Unparseable),
      Ask(Plain("a"), Literal(Ver(TRUE, 1))),
      Ask(Purl("a", "decoded", FALSE, Ver(FALSE, 2), FALSE), Constraint({1})),
      Ask(Purl("a", "other", FALSE, Ver(FALSE, 5), TRUE), NoRequirement),
      Ask(Purl("b", "other", TRUE, NoVersion, FALSE), NoRequirement),
      Ask(Purl("b", "decoded", TRUE, Ver(FALSE, -2), TRUE), NoRequirement),
      Ask(Purl("b", "canonical", FALSE, NoVersion, FALSE), Literal(Ver(FALSE, -3))),
      Ask(Mangled("0b", "b", Ver(FALSE, -3)), NoRequirement),
      Ask(Mangled("0b", "b", Ver(FALSE, 0)), Constraint({1})),
      Ask(Mangled("0", "", Ver(FALSE, 0)), NoRequirement),
      Ask(Plain("z"), NoRequirement) }

MCRequests ==
    {<<>>} \union {<<d>> : d \in Dtos} \union
    { << Ask(NoKind("empty"), NoRequirement),
         Ask(Plain("a"), Constraint({0, 1})),
         Ask(Purl("b", "other", TRUE, NoVersion, FALSE), NoRequirement) >>,
      << Ask(Plain("z"), NoRequirement),
         Ask(Plain("a"), Literal(Ver(TRUE, 1))),
         Ask(Plain("a"), NoRequirement) >>,
      << Ask(Plain("a"), NoRequirement),
         Ask(Plain("a"), Literal(Ver(TRUE, 1))),
         Ask(Plain("a"), Constraint({0, 1})) >>,
      << Ask(Mangled("0", "", Ver(FALSE, 0)), NoRequirement),
         Ask(Mangled("0b", "b", Ver(FALSE, -3)), NoRequirement) >> }

MCExport ==
    [ yesterday |->
        [rows |-> { Row("a", "canonical", FALSE, "a1", "b1"),
                    Row("b", "canonical", FALSE, "b1", "b1"),
                    Row("b", "other", TRUE, "b2", "none"),
                    Row("b", "canonical", TRUE, "b3", "none"),
                    Row("0b", "canonical", FALSE, "c1", "none") },
         published |-> [a1 |-> <<Ver(FALSE, 1), NoVersion, Ver(TRUE, 3), Ver(FALSE, 2)>>,
                        b1 |-> <<Ver(FALSE, -2), Ver(FALSE, -3)>>,
                        b2 |-> <<NoVersion>>, b3 |-> <<Ver(FALSE, -2)>>, a2 |-> <<>>,
                        c1 |-> <<Ver(FALSE, 0)>>]],
      today |->
        [rows |-> { Row("a", "decoded", FALSE, "a2", "a1"),
                    Row("b", "other", FALSE, "b1", "none"),
                    Row("0b", "canonical", FALSE, "c1", "none") },
         published |-> [a2 |-> <<Ver(TRUE, 1), Ver(FALSE, 0)>>,
                        b1 |-> <<Ver(FALSE, -3)>>,
                        a1 |-> <<>>, b2 |-> <<>>, b3 |-> <<>>,
                        c1 |-> <<Ver(FALSE, 0), Ver(FALSE, 1)>>]] ]
=============================================================================
