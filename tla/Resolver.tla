------------------------------ MODULE Resolver ------------------------------
(* How one requested purl becomes a component of the serving database         *)
(* (pkg/resolver): sanitising, the candidate spellings of its key, and the    *)
(* version it is pinned to.  Pure operators; ResolveComponents runs them.     *)
(*                                                                            *)
(* A version is what comparisons tell apart: whether it is written with a     *)
(* leading v, and its rank in semver order, rank 0 being 0.0.0.  A negative   *)
(* rank is a label that is not semver; NoVersion is the empty string.         *)
(*                                                                            *)
(* A requirement is absent, a literal version, or has a semver operator: then *)
(* it allows a set of ranks, or does not parse as a constraint.               *)
(*                                                                            *)
(* A purl is "empty", "invalid" or has a name (type and namespace included)   *)
(* in some spelling, maybe qualifiers, and maybe a version.  It is "" when    *)
(* compHelper.ComponentNameFromString cannot derive a name from it.  An       *)
(* escaped version (1.0%2Bdfsg) does not occur literally in the purl.  When   *)
(* "@version" occurs in the name itself, before the version, cut is what is   *)
(* left of the name without it (npm/x/utils for npm/@0x/utils@0); else it is  *)
(* "none".                                                                   *)
EXTENDS Integers, Sequences, SequencesExt

NoVersion == [v |-> FALSE, rank |-> -1]

NoRequirement == [kind |-> "none"]
Literal(version) == [kind |-> "literal", version |-> version]
Constraint(ranks) == [kind |-> "constraint", allows |-> ranks]
Unparseable == [kind |-> "unparseable"]

(* What requests and exports carry: a version, a purl, a requirement.        *)
VersionType == [v : BOOLEAN, rank : Int]

PurlType == [kind : {"purl", "empty", "invalid"}, name : STRING, spelling : STRING,
         qualified : BOOLEAN, version : VersionType, escaped : BOOLEAN,
         cut : {"none"} \union STRING]

IsRequirement(requirement) ==
    \/ requirement \in {NoRequirement, Unparseable}
    \/ /\ requirement.kind = "literal" /\ requirement = Literal(requirement.version)
       /\ requirement.version \in VersionType \ {NoVersion}
    \/ /\ requirement.kind = "constraint" /\ requirement = Constraint(requirement.allows)
       /\ requirement.allows \subseteq Nat

HasSemverOperator(requirement) == requirement.kind \in {"constraint", "unparseable"}

-----------------------------------------------------------------------------
(* Sanitising.                                                               *)

Invalid(dto) ==
    [purl |-> dto.purl, original |-> dto.purl, requirement |-> dto.requirement,
     status |-> "INVALID_PURL", purl_id |-> "none", versions |-> <<>>,
     version |-> NoVersion]

(* strings.Replace cuts the first literal "@version": out of the name when    *)
(* it occurs there, and the version itself then stays; nothing when it is    *)
(* only written escaped.                                                     *)
Stripped(purl) ==
    IF purl.version = NoVersion THEN purl
    ELSE IF purl.cut # "none" THEN [purl EXCEPT !.name = purl.cut, !.cut = "none"]
    ELSE IF purl.escaped THEN purl
    ELSE [purl EXCEPT !.version = NoVersion]

(* The version moves from the purl into the requirement, replacing the       *)
(* caller's; a purl left without a component name is rejected after that.    *)
Sanitised(dto) ==
    [purl |-> Stripped(dto.purl), original |-> dto.purl,
     requirement |-> IF dto.purl.version # NoVersion
                     THEN Literal(dto.purl.version) ELSE dto.requirement,
     status |-> IF Stripped(dto.purl).name = "" THEN "INVALID_PURL" ELSE "SUCCESS",
     purl_id |-> "none", versions |-> <<>>, version |-> NoVersion]

SanitiseComponent(dto) ==
    IF dto.purl.kind = "purl" THEN Sanitised(dto) ELSE Invalid(dto)

SanitiseComponents(dtos) == [i \in DOMAIN dtos |-> SanitiseComponent(dtos[i])]

-----------------------------------------------------------------------------
(* The key: the spellings to look up, most specific first.                   *)

Key(purl, spelling, qualified) ==
    [name |-> purl.name, spelling |-> spelling, qualified |-> qualified]

RawKeys(purl) ==
    IF purl.qualified
    THEN << Key(purl, purl.spelling, TRUE), Key(purl, purl.spelling, FALSE) >>
    ELSE << Key(purl, purl.spelling, FALSE) >>

CandidateKeys(purl) ==
    RawKeys(purl) \o << Key(purl, "canonical", purl.qualified),
                        Key(purl, "canonical", FALSE),
                        Key(purl, "decoded", FALSE) >>

NoRow == [purl |-> [name |-> "none", spelling |-> "none", qualified |-> FALSE],
          purl_id |-> "none", source |-> "none"]

(* The row of the most specific key that has one.                            *)
PickKey(keys, rows) ==
    LET stored(i) == {r \in rows : r.purl = keys[i]}
        hits == {i \in DOMAIN keys : stored(i) # {}}
        first == CHOOSE i \in hits : \A j \in hits : i <= j
    IN  IF hits = {} THEN NoRow ELSE CHOOSE r \in stored(first) : TRUE

Matching(keys, rows) == {r \in rows : Contains(keys, r.purl)}

(* A component that names itself as its source has none to look up.          *)
HasSource(row) == row.source \notin {"none", row.purl_id}

-----------------------------------------------------------------------------
(* The version.                                                              *)

TogglePrefix(version) ==
    IF version.rank < 0 THEN version ELSE [version EXCEPT !.v = ~@]

MatchVersion(versions, wanted) ==
    IF Contains(versions, wanted) THEN wanted
    ELSE IF Contains(versions, TogglePrefix(wanted)) THEN TogglePrefix(wanted)
    ELSE NoVersion

(* A label that is not semver counts as 0.0.0.                               *)
Precedence(version) == IF version.rank < 0 THEN 0 ELSE version.rank

\* Mutant: whatever is allowed replaces what was found before.
SelectLast(versions, allowed) ==
    LET best[i \in 0..Len(versions)] ==
          IF i = 0 THEN NoVersion
          ELSE IF versions[i] # NoVersion /\ Precedence(versions[i]) \in allowed
          THEN versions[i] ELSE best[i - 1]
    IN  best[Len(versions)]

(* Keeps the first of the highest; allowed is Nat when nothing is asked.     *)
(* best[i] is what it has kept after i versions.                             *)
SelectVersion(versions, allowed) ==
    LET best[i \in 0..Len(versions)] ==
          IF i = 0 THEN NoVersion
          ELSE IF /\ versions[i] # NoVersion
                  /\ Precedence(versions[i]) \in allowed
                  /\ \/ best[i - 1] = NoVersion
                     \/ Precedence(versions[i]) > Precedence(best[i - 1])
          THEN versions[i] ELSE best[i - 1]
    IN  best[Len(versions)]

Allowed(requirement) ==
    IF requirement.kind = "constraint" THEN requirement.allows ELSE Nat

PinVersion(versions, inPurl, requirement) ==
    CASE inPurl # NoVersion            -> MatchVersion(versions, inPurl)
      [] requirement.kind = "literal"  -> MatchVersion(versions, requirement.version)
      [] OTHER                         -> SelectVersion(versions, Allowed(requirement))

-----------------------------------------------------------------------------
(* What resolveOne leaves in the component.                                  *)

NotFound(c) == [c EXCEPT !.status = "COMPONENT_NOT_FOUND"]

Found(c, purl_id, versions) ==
    LET pinned == PinVersion(versions, c.purl.version, c.requirement)
    IN  [c EXCEPT !.purl_id = purl_id, !.versions = versions, !.version = pinned,
                  !.status = IF pinned = NoVersion THEN "VERSION_NOT_FOUND" ELSE @]

(* The outcome when no query fails, of a sanitised component: the row is     *)
(* read from one file and its versions from another, or the same.            *)
ResolutionAcross(c, file, later) ==
    LET row == PickKey(CandidateKeys(c.purl), file.rows)
    IN  IF c.status # "SUCCESS" THEN c
        ELSE IF row = NoRow THEN NotFound(c)
        ELSE Found(c, row.purl_id, later.published[row.purl_id])

Resolution(dto, file) == ResolutionAcross(SanitiseComponent(dto), file, file)
=============================================================================
