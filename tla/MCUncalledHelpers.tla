-------------------------- MODULE MCUncalledHelpers --------------------------
(* Two exports: a package with a repository of another ecosystem as its       *)
(* source, a fork with one of its own, a component that is its own source, a  *)
(* dangling link and a source that does not parse; a country that only one    *)
(* of the two has.                                                            *)
EXTENDS UncalledHelpers

Ver(rank) == [v |-> FALSE, rank |-> rank]
Purl(name, version) ==
    [kind |-> "purl", name |-> name, spelling |-> "canonical",
     qualified |-> FALSE, version |-> version, escaped |-> FALSE, cut |-> "none"]
Call(purl, requirement) ==
    [purl |-> purl, requirement |-> requirement, sourceFor |-> TRUE, looked |-> FALSE]
Ask(name, requirement) == Call(Purl(name, NoVersion), requirement)
Looked(c) == [c EXCEPT !.looked = TRUE]

MCTypeOf ==
    [name \in {"npm/ui", "github/ui", "github/fork", "npm/self", "odd"} |->
       CASE name \in {"npm/ui", "npm/self"} -> "npm"
         [] name \in {"github/ui", "github/fork"} -> "github"
         [] OTHER -> "none"]

MCCalls ==
    { Ask("npm/ui", Literal(Ver(1))),
      Ask("npm/ui", Literal(Ver(3))),
      Ask("npm/ui", Constraint({2})),
      Ask("github/fork", Literal(Ver(1))),
      Ask("github/fork", NoRequirement),
      Ask("npm/self", NoRequirement),
      Ask("github/ui", Unparseable),
      Call(Purl("npm/ui", Ver(9)), NoRequirement),
      [Ask("npm/ui", NoRequirement) EXCEPT !.sourceFor = FALSE],
      [Ask("npm/ui", NoRequirement) EXCEPT !.purl.kind = "invalid"],
      Looked(Ask("npm/ui", Literal(Ver(3)))) }

Row(name, id_, source_) ==
    [purl |-> [name |-> name, spelling |-> "canonical", qualified |-> FALSE],
     purl_id |-> id_, source |-> source_]

MCExport ==
    [ yesterday |->
        [ rows |-> { Row("npm/ui", "n1", "g1"), Row("github/ui", "g1", "o1"),
                     Row("github/fork", "g2", "g1"), Row("npm/self", "n2", "n2"),
                     Row("odd", "o1", "gone") },
          published |-> [id_ \in {"n1", "n2", "g1", "g2", "g3", "o1"} |-> <<Ver(1)>>],
          data |-> [name \in DOMAIN MCTypeOf |->
                      IF name = "github/ui" THEN {2} ELSE IF name = "odd" THEN {1} ELSE {}],
          countries |-> [n \in {1, 2} |-> IF n = 1 THEN "Eswatini" ELSE "Peru"] ],
      today |->
        [ rows |-> { Row("npm/ui", "n1", "g3"), Row("github/ui", "g3", "gone"),
                     Row("github/fork", "g1", "g3"), Row("npm/self", "n2", "none") },
          published |-> [id_ \in {"n1", "n2", "g1", "g2", "g3", "o1"} |-> <<>>],
          data |-> [name \in DOMAIN MCTypeOf |->
                      IF name = "github/ui" THEN {2, 3} ELSE IF name = "npm/ui" THEN {1} ELSE {}],
          countries |-> [n \in {1} |-> "Eswatini"] ] ]
=============================================================================
