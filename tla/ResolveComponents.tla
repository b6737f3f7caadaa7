-------------------------- MODULE ResolveComponents --------------------------
(* ResolveComponents (pkg/resolver/components.go): the main goroutine feeds   *)
(* the indices of the components through a channel to a few workers, each of  *)
(* which resolves the component of an index in place with up to three         *)
(* queries.  A query may fail, and a reload may change the file between two.  *)
EXTENDS Resolver, ServedFile

CONSTANTS Requests,    \* the sequences of requested components
          Workers      \* worker goroutines, numbers from 1

(* Requests are slices of purls and requirements; in whatever export a row   *)
(* was found, a query for its versions answers with a list of them.          *)
ASSUME ResolveAssumption ==
    /\ Workers \subseteq Nat \ {0} /\ 1 \in Workers /\ IsFiniteSet(Workers)
    /\ \A r \in Requests : /\ Len(r) \in Nat /\ DOMAIN r = 1..Len(r)
                           /\ \A i \in DOMAIN r : /\ r[i].purl \in PurlType
                                                 /\ IsRequirement(r[i].requirement)
    /\ \A f, g \in Files : \A r \in Export[f].rows :
          /\ r # NoRow /\ r.purl_id \in DOMAIN Export[g].published
          /\ Export[g].published[r.purl_id] \in Seq(VersionType)

VARIABLES request,    \* the request, as it came
          components, \* the slice the workers write
          sent,       \* how many indices were put in the channel
          taken,      \* how many of them were taken out
          main,       \* where the main goroutine is
          at,         \* where each worker is
          idx,        \* the index it works on
          row,        \* the row its identity query found
          read        \* the versions its second query read

vars == <<request, components, sent, taken, main, at, idx, row, read, handle>>
environment == <<request, handle>>

n == Len(request)

Init ==
    /\ request \in Requests
    /\ components = SanitiseComponents(request)
    /\ sent = 0 /\ taken = 0
    /\ main = IF n = 0 THEN "returned" ELSE "feeding"
    /\ at = [w \in Workers |-> IF w <= n THEN "ready" ELSE "ended"]
    /\ idx = [w \in Workers |-> 0]
    /\ row = [w \in Workers |-> NoRow]
    /\ read = [w \in Workers |-> <<>>]
    /\ Opened

-----------------------------------------------------------------------------
(* The main goroutine.  The channel has room for every index.                *)

\* Mutant: one index too many is sent.
SendOneMore ==
    /\ main = "feeding" /\ sent <= n
    /\ sent - taken < n
    /\ sent' = sent + 1
    /\ UNCHANGED <<environment, components, taken, main, at, idx, row, read>>

Send ==
    /\ main = "feeding" /\ sent < n
    /\ sent - taken < n
    /\ sent' = sent + 1
    /\ UNCHANGED <<environment, components, taken, main, at, idx, row, read>>

CloseJobs ==
    /\ main = "feeding" /\ sent = n
    /\ main' = "waiting"
    /\ UNCHANGED <<environment, components, sent, taken, at, idx, row, read>>

\* Mutant: the wait group is released when the jobs are, not their workers.
ReturnEarly ==
    /\ main = "waiting"
    /\ taken = n
    /\ main' = "returned"
    /\ UNCHANGED <<environment, components, sent, taken, at, idx, row, read>>

Return ==
    /\ main = "waiting"
    /\ \A w \in Workers : at[w] = "ended"
    /\ main' = "returned"
    /\ UNCHANGED <<environment, components, sent, taken, at, idx, row, read>>

-----------------------------------------------------------------------------
(* A worker.                                                                 *)

Goes(w, where) == at' = [at EXCEPT ![w] = where]
Writes(w, c) == components' = [components EXCEPT ![idx[w]] = c]
Mine(w) == components[idx[w]]

\* Mutant: two workers can see the same head of the queue.
TakeShared(w) ==
    /\ at[w] = "ready" /\ taken < sent
    /\ idx' = [idx EXCEPT ![w] = taken + 1]
    /\ taken' = IF \E u \in Workers : idx[u] = taken + 1 THEN taken + 1 ELSE taken
    /\ Goes(w, "resolving")
    /\ UNCHANGED <<environment, components, sent, main, row, read>>

Take(w) ==
    /\ at[w] = "ready" /\ taken < sent
    /\ taken' = taken + 1
    /\ idx' = [idx EXCEPT ![w] = taken + 1]
    /\ Goes(w, "resolving")
    /\ UNCHANGED <<environment, components, sent, main, row, read>>

\* Mutant: the worker waits for the call that waits for it.
EndsNever(w) ==
    /\ at[w] = "ready"
    /\ main = "returned"
    /\ Goes(w, "ended")
    /\ UNCHANGED <<environment, components, sent, taken, main, idx, row, read>>

(* The range over the channel ends once it is closed and empty.              *)
Ends(w) ==
    /\ at[w] = "ready"
    /\ main # "feeding" /\ taken = sent
    /\ Goes(w, "ended")
    /\ UNCHANGED <<environment, components, sent, taken, main, idx, row, read>>

(* A component rejected by sanitising is left as it is.                      *)
Skip(w) ==
    /\ at[w] = "resolving" /\ Mine(w).status # "SUCCESS"
    /\ Goes(w, "ready")
    /\ UNCHANGED <<environment, components, sent, taken, main, idx, row, read>>

\* Mutant: a component that is not found is written, and its lookup goes on.
IdentifyGoesOn(w) ==
    /\ at[w] = "resolving" /\ Mine(w).status = "SUCCESS"
    /\ LET keys == CandidateKeys(Mine(w).purl)
           hit == PickKey(keys, Matching(keys, Export[file].rows))
       IN  /\ row' = [row EXCEPT ![w] = hit]
           /\ Goes(w, IF hit = NoRow THEN "resolving" ELSE "identified")
           /\ IF hit = NoRow THEN Writes(w, NotFound(Mine(w))) ELSE UNCHANGED components
    /\ UNCHANGED <<environment, sent, taken, main, idx, read>>

Identify(w) ==
    /\ at[w] = "resolving" /\ Mine(w).status = "SUCCESS"
    /\ LET keys == CandidateKeys(Mine(w).purl)
           hit == PickKey(keys, Matching(keys, Export[file].rows))
       IN  /\ row' = [row EXCEPT ![w] = hit]
           /\ IF hit = NoRow
              THEN Goes(w, "ready") /\ Writes(w, NotFound(Mine(w)))
              ELSE Goes(w, "identified") /\ UNCHANGED components
    /\ UNCHANGED <<environment, sent, taken, main, idx, read>>

\* Mutant: the versions are read where some earlier query was answered.
ReadVersionsAnywhere(w) ==
    /\ at[w] = "identified"
    /\ \E f \in served :
          read' = [read EXCEPT ![w] = Export[f].published[row[w].purl_id]]
    /\ Goes(w, "read")
    /\ UNCHANGED <<environment, components, sent, taken, main, idx, row>>

(* A component another file identified may have no versions in this one.     *)
ReadVersions(w) ==
    /\ at[w] = "identified"
    /\ read' = [read EXCEPT ![w] = Export[file].published[row[w].purl_id]]
    /\ Goes(w, "read")
    /\ UNCHANGED <<environment, components, sent, taken, main, idx, row>>

(* Any other error reads as a component that does not exist.                 *)
QueryFails(w) ==
    /\ at[w] \in {"resolving", "identified"} /\ Mine(w).status = "SUCCESS"
    /\ Fail(1)
    /\ Writes(w, NotFound(Mine(w)))
    /\ Goes(w, "ready")
    /\ UNCHANGED <<request, sent, taken, main, idx, row, read>>

(* The source component is looked up first when HasSource(row[w]): it need   *)
(* not exist, nor the query succeed, and nothing here uses it.               *)
Finish(w) ==
    /\ at[w] = "read"
    /\ Writes(w, Found(Mine(w), row[w].purl_id, read[w]))
    /\ Goes(w, "ready")
    /\ UNCHANGED <<environment, sent, taken, main, idx, row, read>>

-----------------------------------------------------------------------------
(* A reload swaps another file in while the call runs.                       *)
ReloadMeanwhile ==
    /\ Reload /\ main # "returned"
    /\ UNCHANGED <<request, components, sent, taken, main, at, idx, row, read>>

Main == Send \/ CloseJobs \/ Return

Work(w) ==
    \/ Take(w) \/ Ends(w) \/ Skip(w) \/ Identify(w) \/ ReadVersions(w)
    \/ QueryFails(w) \/ Finish(w)

Next == Main \/ (\E w \in Workers : Work(w)) \/ ReloadMeanwhile

(* Goroutines run and queries answer, or fail; nobody has to reload.         *)
Spec ==
    /\ Init /\ [][Next]_vars
    /\ WF_vars(Main)
    /\ \A w \in Workers : WF_vars(Work(w))

-----------------------------------------------------------------------------
Rows == UNION {Export[f].rows : f \in Files}
Readable == UNION {Range(Export[f].published) : f \in Files}

TypeOK ==
    /\ request \in Requests
    /\ DOMAIN components = 1..n
    /\ sent \in 0..n /\ taken \in 0..sent
    /\ main \in {"feeding", "waiting", "returned"}
    /\ at \in [Workers -> {"ready", "resolving", "identified", "read", "ended"}]
    /\ idx \in [Workers -> 0..n]
    /\ row \in [Workers -> Rows \union {NoRow}]
    /\ read \in [Workers -> Readable \union {<<>>}]
    /\ HandleTypeOK

Busy(w) == at[w] \in {"resolving", "identified", "read"}

(* The workers write their components in place and without a lock: no two    *)
(* ever work on the same one, none works on one still queued, and none works *)
(* on any once the call has returned the slice.                              *)
OneWriter ==
    /\ \A w \in Workers : Busy(w) => /\ idx[w] \in 1..taken
                                     /\ main # "returned"
    /\ \A w, u \in Workers : Busy(w) /\ Busy(u) /\ idx[w] = idx[u] => w = u

(* The version a caller asked for, if any: one in the purl takes precedence. *)
Asked(dto) ==
    IF dto.purl.version # NoVersion THEN dto.purl.version
    ELSE IF dto.requirement.kind = "literal" THEN dto.requirement.version
    ELSE NoVersion

(* The published versions that would do: either spelling of the one asked    *)
(* for, else all those that the constraint, if it parses, lets through.      *)
Suitable(dto, versions) ==
    {x \in ToSet(versions) : /\ x # NoVersion
                             /\ IF Asked(dto) # NoVersion
                                THEN x \in {Asked(dto), TogglePrefix(Asked(dto))}
                                ELSE Precedence(x) \in Allowed(dto.requirement)}

BestVersion(dto, c) ==
    IF Suitable(dto, c.versions) = {} THEN c.status = "VERSION_NOT_FOUND"
    ELSE /\ c.status = "SUCCESS"
         /\ c.version \in Suitable(dto, c.versions)
         /\ \A x \in Suitable(dto, c.versions) : Precedence(x) <= Precedence(c.version)
         /\ Asked(dto) \in ToSet(c.versions) => Asked(dto) \in {c.version, NoVersion}

(* A component is looked up by the purl it was asked about by, or, when the   *)
(* cut of its version fell into its name, by what that left.                 *)
LookedUp(dto) ==
    IF dto.purl.version # NoVersion /\ dto.purl.cut # "none"
    THEN Stripped(dto.purl) ELSE dto.purl

(* In the file f no row has a more specific spelling of the purl's key.      *)
Identifies(f, purl, purl_id) ==
    \E i \in DOMAIN CandidateKeys(purl) :
        /\ \E r \in Export[f].rows : r.purl = CandidateKeys(purl)[i] /\ r.purl_id = purl_id
        /\ \A r \in Export[f].rows, j \in 1..(i - 1) : r.purl # CandidateKeys(purl)[j]

(* Some file served during the call has no row for the purl.                 *)
Unknown(dto) ==
    \E f \in served : Matching(CandidateKeys(LookedUp(dto)), Export[f].rows) = {}

(* A known component that is answered as if it did not exist.                *)
Denied(dto, c) == c.status = "COMPONENT_NOT_FOUND" /\ ~Unknown(dto)

Answers(dto, c) ==
    IF SanitiseComponent(dto).status # "SUCCESS" THEN c = SanitiseComponent(dto)
    ELSE c.status # "COMPONENT_NOT_FOUND" =>
           /\ \E f \in served : Identifies(f, LookedUp(dto), c.purl_id)
           /\ \E g \in served : c.versions = Export[g].published[c.purl_id]
           /\ BestVersion(dto, c)

(* When the call returns, every component has been resolved, whichever       *)
(* worker took it and in whatever order: each carries the identity of the    *)
(* purl sanitising left it, by the most specific spelling stored in a file   *)
(* served during the call, and the version asked for or the highest allowed  *)
(* of those that this file, or another served during the call, publishes.    *)
(* A query that fails denies the one component it was for (components.go:99).*)
EveryComponentAnswered ==
    main = "returned" =>
        /\ \A i \in 1..n : Answers(request[i], components[i])
        /\ Cardinality({i \in 1..n : Denied(request[i], components[i])}) <= failures

(* "A version carried in the purl is moved into the requirement"             *)
(* (components.go:123) and no more: a component that is found is the one     *)
(* asked about.                                                              *)
FoundAsAsked ==
    main = "returned" => \A i \in 1..n :
        components[i].purl_id # "none" =>
            \E f \in served : Identifies(f, request[i].purl, components[i].purl_id)

(* Its identity and its versions are from no one file: it may be denied a     *)
(* version that each of them publishes for it, under another id.             *)
Mixed(dto, c) ==
    /\ c.purl_id # "none"
    /\ ~ \E f \in served : /\ Identifies(f, LookedUp(dto), c.purl_id)
                           /\ c.versions = Export[f].published[c.purl_id]

(* The identity is read by one query and the versions of that id by another   *)
(* (resolver.go:169, :188): when the file changes, the components mixed from *)
(* two files are those the workers have in hand, and no others.              *)
OnlyInHandAreMixed ==
    main = "returned" =>
        Cardinality({i \in 1..n : Mixed(request[i], components[i])})
            <= reloads * Cardinality(Workers)

(* Left alone, the call does what resolving one component after another in   *)
(* one file would: this is what the use cases rely on.                       *)
SameAsSequential ==
    main = "returned" /\ failures = 0 /\ served = {file} =>
        components = [i \in 1..n |-> Resolution(request[i], Export[file])]

(* The call does what BatchAnswer promises: each component is written once,   *)
(* by one worker, in one step, and the slice is returned, never to be        *)
(* written again, once all of them are.                                      *)
Answered == {k \in 1..taken : ~ \E w \in Workers : Busy(w) /\ idx[w] = k}
Batch == INSTANCE BatchAnswer WITH
    batch <- components, answered <- Answered, returned <- main = "returned"
ImplementsBatchAnswer == Batch!Spec

(* The call returns: no channel operation or wait blocks for ever.           *)
CallReturns == <>(main = "returned")
=============================================================================
