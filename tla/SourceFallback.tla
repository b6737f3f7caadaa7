---------------------------- MODULE SourceFallback ----------------------------
(* pkg/resolver/fallback.go: a lookup that yields nothing for a purl is run   *)
(* again for the source code component its row links to.  One call, query by  *)
(* query; the lookup itself is the caller's.  No handler calls it yet.        *)
EXTENDS Resolver, ServedFile

CONSTANTS Calls,  \* purl, requirement, whether a sourceFor is given, and
                  \* whether the first lookup is still to be run
          TypeOf  \* the purl type of every name, "none" if it does not parse

ASSUME FallbackAssumption ==
    /\ \A c \in Calls :
          /\ c.purl \in PurlType /\ c.purl.name \in DOMAIN TypeOf
          /\ IsRequirement(c.requirement)
          /\ c.sourceFor \in BOOLEAN /\ c.looked \in BOOLEAN
    /\ \A f \in Files :
          /\ \A r \in Export[f].rows : r.purl.name \in DOMAIN TypeOf
          /\ Export[f].data \in [DOMAIN TypeOf -> SUBSET Nat]

VARIABLES call,   \* the arguments
          at,     \* where the call is
          own,    \* what the lookup of the purl itself returned
          link,   \* the row SourcePurlFor found for the purl
          source, \* the row that one links to
          answer  \* what the call returns

fallback == <<call, at, own, link, source, answer>>

-----------------------------------------------------------------------------
(* The caller's lookup, by versions that carry data.                         *)
Asking(requirement) ==
    CASE requirement.kind = "literal" -> {requirement.version.rank}
      [] OTHER -> Allowed(requirement)

Lookup(f, name, requirement) == Export[f].data[name] \intersect Asking(requirement)

(* An answer: the data, whose it is, under which requirement, and the source *)
(* purl when it is marked (applyFallback) as recovered from there.           *)
Unmarked(name, requirement, data, err) ==
    [name |-> name, requirement |-> requirement, data |-> data,
     marked |-> FALSE, err |-> err]

MarkedResult(name, requirement, data) ==
    [Unmarked(name, requirement, data, FALSE) EXCEPT !.marked = TRUE]

Zero == Unmarked("none", NoRequirement, {}, FALSE)

FallbackInit ==
    /\ call \in Calls
    /\ at = IF call.looked THEN "sourceFor" ELSE "own"
    /\ own = Zero /\ answer = Zero
    /\ link = NoRow /\ source = NoRow

Goes(where) == at' = where /\ UNCHANGED answer
Returns(a) == at' = "returned" /\ answer' = a

-----------------------------------------------------------------------------
LookupOwn ==
    /\ at = "own"
    /\ LET found == Unmarked(call.purl.name, call.requirement,
                             Lookup(file, call.purl.name, call.requirement), FALSE)
       IN  /\ own' = found
           /\ IF found.data # {} THEN Returns(found) ELSE Goes("sourceFor")
    /\ UNCHANGED <<call, link, source, handle>>

(* Its error is kept, and returned when the source has nothing either.       *)
OwnFails ==
    /\ at = "own" /\ Fail(1)
    /\ own' = Unmarked(call.purl.name, call.requirement, {}, TRUE)
    /\ Goes("sourceFor")
    /\ UNCHANGED <<call, link, source>>

(* SourcePurlFor: the first query of Resolve.  No sourceFor, a purl without  *)
(* an identity, or an unknown component: there is no source.                 *)
IdentifyRequested ==
    /\ at = "sourceFor"
    /\ LET keys == CandidateKeys(call.purl)
           hit == PickKey(keys, Matching(keys, Export[file].rows))
           known == call.sourceFor /\ call.purl.kind = "purl" /\ hit # NoRow
       IN  /\ link' = IF known THEN hit ELSE NoRow
           /\ IF known THEN Goes("versions") ELSE Returns(own)
    /\ UNCHANGED <<call, own, source, handle>>

\* Mutant: a component without the version asked for is given up.
ReadItsVersionsPinned ==
    /\ at = "versions"
    /\ LET versions == Export[file].published[link.purl_id]
           pinned == PinVersion(versions, call.purl.version, NoRequirement)
       IN  IF HasSource(link) /\ pinned # NoVersion THEN Goes("linked") ELSE Returns(own)
    /\ UNCHANGED <<call, own, link, source, handle>>

(* Its second query: the versions do not matter here, only that it answers.  *)
ReadItsVersions ==
    /\ at = "versions"
    /\ IF HasSource(link) THEN Goes("linked") ELSE Returns(own)
    /\ UNCHANGED <<call, own, link, source, handle>>

(* The purl as the caller wrote it, when that is a stored key at all.        *)
SameString(key) ==
    call.purl.version = NoVersion
        /\ key = Key(call.purl, call.purl.spelling, call.purl.qualified)

(* sourcePurl: a dangling reference means no source, and so does one to the  *)
(* string the caller sent.                                                   *)
FollowSource ==
    /\ at = "linked"
    /\ \/ \E r \in Export[file].rows :
             /\ r.purl_id = link.source /\ source' = r
             /\ IF SameString(r.purl) THEN Returns(own) ELSE Goes("hop")
       \/ /\ \A r \in Export[file].rows : r.purl_id # link.source
          /\ Returns(own) /\ UNCHANGED source
    /\ UNCHANGED <<call, own, link, handle>>

(* Any error of SourcePurlFor reads as no source.                            *)
SourceForFails ==
    /\ at \in {"sourceFor", "versions", "linked"}
    /\ call.sourceFor /\ call.purl.kind = "purl"
    /\ Fail(1)
    /\ Returns(own)
    /\ UNCHANGED <<call, own, link, source>>

-----------------------------------------------------------------------------
(* sourceHop.                                                                *)

\* Mutant: any source is asked again without the requirement.
RetriesAlways == call.requirement # NoRequirement

CrossEcosystem ==
    /\ call.purl.kind = "purl"
    /\ TypeOf[call.purl.name] # TypeOf[source.purl.name]

\* The condition under which the requirement is dropped.
Retries == call.requirement # NoRequirement /\ CrossEcosystem

AfterHop == IF Retries THEN Goes("retry") ELSE Returns(own)

HopTo(requirement, otherwise) ==
    LET name == source.purl.name
        data == Lookup(file, name, requirement)
    IN  IF data # {} THEN Returns(MarkedResult(name, requirement, data)) ELSE otherwise

Hop ==
    /\ at = "hop"
    /\ HopTo(call.requirement, AfterHop)
    /\ UNCHANGED <<call, own, link, source, handle>>

HopFails ==
    /\ at = "hop" /\ Fail(1)
    /\ AfterHop
    /\ UNCHANGED <<call, own, link, source>>

HopAgain ==
    /\ at = "retry"
    /\ HopTo(NoRequirement, Returns(own))
    /\ UNCHANGED <<call, own, link, source, handle>>

HopAgainFails ==
    /\ at = "retry" /\ Fail(1)
    /\ Returns(own)
    /\ UNCHANGED <<call, own, link, source>>

FallbackStep ==
    \/ LookupOwn \/ OwnFails
    \/ IdentifyRequested \/ ReadItsVersions \/ FollowSource \/ SourceForFails
    \/ Hop \/ HopFails \/ HopAgain \/ HopAgainFails

-----------------------------------------------------------------------------
FallbackTypeOK ==
    /\ call \in Calls
    /\ at \in {"own", "sourceFor", "versions", "linked", "hop", "retry", "returned"}
    /\ \A a \in {own, answer} :
          /\ a.name \in DOMAIN TypeOf \union {"none"} /\ a.data \subseteq Nat
          /\ a.marked \in BOOLEAN /\ a.err \in BOOLEAN
          /\ ~(a.err /\ a.marked)
    /\ at \in {"hop", "retry"} => HasSource(link) /\ source.purl_id = link.source

(* Some file served during the call links the purl to a component of that    *)
(* name; the row of that component may come from another file.               *)
LinkedTo(name) ==
    \E f, g \in served :
        LET row == PickKey(CandidateKeys(call.purl), Export[f].rows)
        IN  /\ HasSource(row)
            /\ \E s \in Export[g].rows : s.purl_id = row.source /\ s.purl.name = name

(* A query for this found nothing, or may have failed.                       *)
MayMiss(name, requirement) ==
    failures > 0 \/ \E f \in served : Lookup(f, name, requirement) = {}

(* Data that is not the purl's own is always marked, comes from the source   *)
(* it is linked to, and is returned only when the purl had none.  "A genuine *)
(* exact match stays authoritative" (fallback.go:53-54): the requirement is  *)
(* dropped only for a source of another ecosystem that has nothing under it. *)
(* "A lookup that fails is not a miss" (fallback_test.go:172): its error is  *)
(* returned, unless there is data to return.                                 *)
RecoveryIsHonest ==
    at = "returned" =>
        /\ answer.data # {} =>
              \E f \in served : answer.data = Lookup(f, answer.name, answer.requirement)
        /\ ~answer.marked => answer.data = {} \/ answer.name = call.purl.name
        /\ answer.marked =>
              /\ answer.data # {} /\ LinkedTo(answer.name)
              /\ call.looked \/ MayMiss(call.purl.name, call.requirement)
              /\ answer.requirement # call.requirement =>
                    /\ TypeOf[answer.name] # TypeOf[call.purl.name]
                    /\ MayMiss(answer.name, call.requirement)
        /\ own.err /\ answer.data = {} => answer.err

(* The rows the call may take for its source: one, if ids are unique, which  *)
(* the table does not demand.                                                *)
Linked ==
    LET row == PickKey(CandidateKeys(call.purl), Export[file].rows)
    IN  {r \in Export[file].rows :
            /\ call.sourceFor /\ call.purl.kind = "purl"
            /\ HasSource(row) /\ r.purl_id = row.source}

(* What the call may try, best first: the purl itself, the source it links   *)
(* to under the requirement, and, across ecosystems, under none.             *)
Attempts(sources) ==
    LET others == {r.purl.name : r \in {s \in sources : ~SameString(s.purl)}}
        foreign == {name \in others : TypeOf[name] # TypeOf[call.purl.name]}
    IN  << IF call.looked THEN {} ELSE {<<call.purl.name, call.requirement>>},
           {<<name, call.requirement>> : name \in others},
           {<<name, NoRequirement>> : name \in foreign} >>

(* From file f, answer a is that of the first attempt that finds something.   *)
Best(attempts, f, a) ==
    LET has(i) == {t \in attempts[i] : Lookup(f, t[1], t[2]) # {}}
        good == {i \in DOMAIN attempts : has(i) # {}}
    IN  IF good = {} THEN a.data = {}
        ELSE /\ a.data # {}
             /\ \E i \in good : /\ \A j \in good : i <= j
                                /\ <<a.name, a.requirement>> \in has(i)

(* Left alone, with every query answered, the call returns the data of the   *)
(* best attempt that has some, and nothing only when none has.               *)
RecoversWhatItCan ==
    at = "returned" /\ failures = 0 /\ served = {file} =>
        IF Linked = {} THEN Best(Attempts({}), file, answer)
        ELSE \E r \in Linked : Best(Attempts({r}), file, answer)
=============================================================================
