---------------------------- MODULE GeoProvenance ----------------------------
(* One request to the service (pkg/service, pkg/usecase, pkg/models): its     *)
(* purls are converted, resolved, looked up one query after another by        *)
(* GetProvenance or GetOrigin, and answered item by item, or with one error   *)
(* for the whole request.  Resolving is what BatchAnswer promises of          *)
(* ResolveComponents: the components are answered one by one, in any order,   *)
(* by Resolver's operators.  A reload may change the file between two         *)
(* queries, and a query may fail.                                             *)
EXTENDS Resolver, ServedFile, ProvenanceQueries

CONSTANTS Requests, \* the sequences of requested components
          NameOf    \* compHelper.ComponentNameFromString: a purl's name
                    \* without its type, for every name

ASSUME GeoAssumption ==
    /\ \A r \in Requests : /\ Len(r) \in Nat /\ DOMAIN r = 1..Len(r)
                           /\ \A k \in DOMAIN r : /\ r[k].purl \in PurlType
                                                 /\ r[k].purl.name \in DOMAIN NameOf
                                                 /\ r[k].purl.cut \in {"none", ""} \union DOMAIN NameOf
    /\ \A f \in Files : IsExport(Export[f])
    /\ \A f, g \in Files : \A r \in Export[f].rows : r.purl_id \in DOMAIN Export[g].published

VARIABLES endpoint,   \* "provenance" or "origin"
          request,    \* the components of the request message
          components, \* those sent to ResolveComponents, as it leaves them
          resolved,   \* the indices of those it has answered
          at,         \* where the handler is
          i,          \* the component being looked up
          got,        \* what its first queries returned
          origins,    \* resMaps: percentages by component name
          tooMany,    \* by component name
          items,      \* the output items so far
          reply       \* the HTTP code and the items of the response

vars == <<endpoint, request, components, resolved, at, i, got, origins, tooMany, items,
          reply, handle>>
resolving == <<components, resolved>>
environment == <<endpoint, request, handle>>
maps == <<origins, tooMany>>

Nothing == [declared |-> {}, counts |-> <<>>]
Names == {NameOf[name] : name \in DOMAIN NameOf}
Name(c) == NameOf[c.purl.name]

Init ==
    /\ endpoint \in {"provenance", "origin"}
    /\ request \in Requests
    /\ components = <<>> /\ resolved = {}
    /\ i = 1 /\ got = Nothing
    /\ at = "converting"
    /\ origins = [name \in Names |-> <<>>]
    /\ tooMany = [name \in Names |-> FALSE]
    /\ items = <<>>
    /\ reply = [code |-> 0, items |-> <<>>]
    /\ Opened

(* The queries, answered by every file once and for all.                     *)
Ids == UNION {DOMAIN Export[f].published : f \in Files}
Declared == [f \in Files |-> [id \in Ids |-> DeclaredLocations(Export[f], id)]]
Curated == [f \in Files |-> [id \in Ids |-> CountryCounts(Export[f], id)]]
Origin == [f \in Files |-> [id \in Ids |-> TimezoneOrigin(Export[f], id)]]
Listed(f, c) == TooManyContributors(Export[f], c.purl_id)

-----------------------------------------------------------------------------
Replies(code, answers) == at' = "replied" /\ reply' = [code |-> code, items |-> answers]

(* What a loop over s keeps of it: the elements at some indices, in order.   *)
Ascending(kept) == InOrder(kept, {p \in kept \X kept : p[1] < p[2]})
Keep(s, kept) == [k \in DOMAIN Ascending(kept) |-> s[Ascending(kept)[k]]]

NonEmpty == Keep(request, {k \in DOMAIN request : request[k].purl.kind # "empty"})

(* convertProvenanceInput and its like drop the empty purls.                 *)
Convert ==
    /\ at = "converting"
    /\ components' = SanitiseComponents(NonEmpty)
    /\ IF NonEmpty = <<>> THEN Replies(400, <<>>)
       ELSE at' = "resolving" /\ UNCHANGED reply
    /\ UNCHANGED <<environment, resolved, i, got, maps, items>>

(* A component is answered: its row may come from the file before a reload   *)
(* and its versions from the one after it, for all of them start together.   *)
ResolveComponent(k) ==
    /\ at = "resolving" /\ k \in DOMAIN components \ resolved
    /\ \E f \in served :
          components' = [components EXCEPT ![k] = ResolutionAcross(@, Export[f], Export[file])]
    /\ resolved' = resolved \union {k}
    /\ UNCHANGED <<environment, at, i, got, maps, items, reply>>

(* One whose own query fails reads as not found.                             *)
ResolveFails(k) ==
    /\ at = "resolving" /\ k \in DOMAIN components \ resolved
    /\ components[k].status = "SUCCESS"
    /\ Fail(1)
    /\ components' = [components EXCEPT ![k] = NotFound(@)]
    /\ resolved' = resolved \union {k}
    /\ UNCHANGED <<endpoint, request, at, i, got, maps, items, reply>>

WorthIt(c) == c.status \in {"SUCCESS", "VERSION_NOT_FOUND"}

Worth == {k \in DOMAIN components : WorthIt(components[k])}

(* validComponents: those worth looking up.                                  *)
valid == IF at \in {"converting", "resolving"} THEN <<>> ELSE Keep(components, Worth)
rejected == Keep(components, DOMAIN components \ Worth)

RejectedItem(c) == [purl |-> c.purl, status |-> c.status, declared |-> {}, places |-> <<>>]

(* The rejected ones are answered first.                                     *)
Resolved ==
    /\ at = "resolving" /\ resolved = DOMAIN components
    /\ items' = [k \in DOMAIN rejected |-> RejectedItem(rejected[k])]
    /\ at' = IF endpoint = "provenance" THEN "declared" ELSE "counting"
    /\ UNCHANGED <<environment, resolving, i, got, maps, reply>>

-----------------------------------------------------------------------------
(* GetProvenance.                                                            *)

GetDeclaredLocations ==
    /\ at = "declared" /\ i <= Len(valid)
    /\ got' = [got EXCEPT !.declared = Declared[file][valid[i].purl_id]]
    /\ at' = "curated"
    /\ UNCHANGED <<environment, resolving, i, maps, items, reply>>

GetCountryCounts ==
    /\ at = "curated"
    /\ got' = [got EXCEPT !.counts = Curated[file][valid[i].purl_id]]
    /\ at' = "listed"
    /\ UNCHANGED <<environment, resolving, i, maps, items, reply>>

Status(listed, informed, otherwise) ==
    IF listed THEN "TOO_MANY_CONTRIBUTORS"
    ELSE IF informed THEN otherwise
    ELSE "COMPONENT_WITHOUT_INFO"

ProvenanceItem(c, listed) ==
    [purl |-> c.original,
     status |-> Status(listed, got.declared # {} \/ got.counts # <<>>, "SUCCESS"),
     declared |-> got.declared, places |-> got.counts]

\* Mutant: what was got for a component is left for the next one.
AddProvenanceItemStale ==
    /\ at = "listed"
    /\ items' = Append(items, ProvenanceItem(valid[1], Listed(file, valid[i])))
    /\ i' = i + 1 /\ got' = Nothing
    /\ at' = "declared"
    /\ UNCHANGED <<environment, resolving, maps, reply>>

(* HasTooManyContributors, and the item.                                     *)
AddProvenanceItem ==
    /\ at = "listed"
    /\ items' = Append(items, ProvenanceItem(valid[i], Listed(file, valid[i])))
    /\ i' = i + 1 /\ got' = Nothing
    /\ at' = "declared"
    /\ UNCHANGED <<environment, resolving, maps, reply>>

(* What the response shows: the info code is the status, unless SUCCESS.     *)
ProvenanceReply ==
    /\ at = "declared" /\ i > Len(valid)
    /\ IF items = <<>> THEN Replies(404, <<>>) ELSE Replies(200, items)
    /\ UNCHANGED <<environment, resolving, i, got, maps, items>>

-----------------------------------------------------------------------------
(* GetOrigin: collects by component name, then builds the items.             *)

GetTimezoneOrigin ==
    /\ at = "counting" /\ i <= Len(valid)
    /\ got' = [got EXCEPT !.counts = Origin[file][valid[i].purl_id]]
    /\ at' = "collecting"
    /\ UNCHANGED <<environment, resolving, i, maps, items, reply>>

Total(counts) ==
    LET sum[k \in 0..Len(counts)] == IF k = 0 THEN 0 ELSE sum[k - 1] + counts[k].count
    IN  sum[Len(counts)]

\* Mutant: the percentage is computed in an int16, as before 0.6.0.
ShareInt16(o, total) ==
    LET wrapped == (100 * o.count) % 65536
        percent == IF wrapped < 32768 THEN wrapped ELSE wrapped - 65536
    IN  [country |-> o.country, count |-> (200 * percent + total) \div (2 * total)]

(* In hundredths of a percent, rounded half up.                              *)
Hundred == 10000
Percentage == 0..Hundred

Share(o, total) ==
    [country |-> o.country, count |-> (20000 * o.count + total) \div (2 * total)]

\* Mutant: each country's share is that of the first.
SharesOfFirst(counts) == [k \in DOMAIN counts |-> Share(counts[1], Total(counts))]

Shares(counts) == [k \in DOMAIN counts |-> Share(counts[k], Total(counts))]

\* Mutant: a component without contributors is never left.
CollectOriginStuck ==
    /\ at = "collecting"
    /\ tooMany' = [tooMany EXCEPT ![Name(valid[i])] = Listed(file, valid[i])]
    /\ origins' = [origins EXCEPT ![Name(valid[i])] = @ \o Shares(got.counts)]
    /\ i' = IF got.counts = <<>> THEN i ELSE i + 1
    /\ got' = Nothing
    /\ at' = "counting"
    /\ UNCHANGED <<environment, resolving, items, reply>>

(* HasTooManyContributors, and the shares; a component without contributors  *)
(* has none to add.                                                          *)
CollectOrigin ==
    /\ at = "collecting"
    /\ tooMany' = [tooMany EXCEPT ![Name(valid[i])] = Listed(file, valid[i])]
    /\ origins' = [origins EXCEPT ![Name(valid[i])] = @ \o Shares(got.counts)]
    /\ i' = i + 1 /\ got' = Nothing
    /\ at' = "counting"
    /\ UNCHANGED <<environment, resolving, items, reply>>

OriginItem(c) ==
    [purl |-> c.purl,
     status |-> Status(tooMany[Name(c)], origins[Name(c)] # <<>>, c.status),
     declared |-> {}, places |-> origins[Name(c)]]

\* Mutant: a component without data is left out of the answer.
OriginReplyInformed ==
    /\ at = "counting" /\ i > Len(valid)
    /\ LET informed == Keep(valid, {k \in DOMAIN valid : origins[Name(valid[k])] # <<>>})
           answers == items \o [k \in DOMAIN informed |-> OriginItem(informed[k])]
       IN  items' = answers /\ Replies(200, answers)
    /\ UNCHANGED <<environment, resolving, i, got, maps>>

OriginReply ==
    /\ at = "counting" /\ i > Len(valid)
    /\ LET answers == items \o [k \in DOMAIN valid |-> OriginItem(valid[k])]
       IN  items' = answers /\ Replies(200, answers)
    /\ UNCHANGED <<environment, resolving, i, got, maps>>

-----------------------------------------------------------------------------
AtQuery == \/ at \in {"declared", "counting"} /\ i <= Len(valid)
           \/ at \in {"curated", "listed", "collecting"}

\* Mutant: what was found before the error is returned with it.
QueryFailsLate ==
    /\ AtQuery /\ Fail(1)
    /\ Replies(500, items)
    /\ UNCHANGED <<endpoint, request, resolving, i, got, maps, items>>

(* HandleServiceError answers with a 500 and no items.                       *)
QueryFails ==
    /\ AtQuery /\ Fail(1)
    /\ Replies(500, <<>>)
    /\ UNCHANGED <<endpoint, request, resolving, i, got, maps, items>>

(* The trailer with the code of a success cannot be set: the answer is       *)
(* dropped.                                                                  *)
TrailerFails ==
    /\ at \in {"declared", "counting"} /\ i > Len(valid)
    /\ endpoint = "origin" \/ items # <<>>
    /\ Fail(1)
    /\ Replies(500, <<>>)
    /\ UNCHANGED <<endpoint, request, resolving, i, got, maps, items>>

ReloadMeanwhile ==
    /\ Reload /\ at # "replied"
    /\ UNCHANGED <<endpoint, request, resolving, at, i, got, maps, items, reply>>

ResolveComponents == \E k \in DOMAIN components : ResolveComponent(k) \/ ResolveFails(k)

GetProvenance ==
    GetDeclaredLocations \/ GetCountryCounts \/ AddProvenanceItem \/ ProvenanceReply

GetOrigin == GetTimezoneOrigin \/ CollectOrigin \/ OriginReply

Handler ==
    \/ Convert \/ ResolveComponents \/ Resolved \/ GetProvenance \/ GetOrigin
    \/ QueryFails \/ TrailerFails

Next == Handler \/ ReloadMeanwhile

(* The handler runs and its queries answer, or fail; nobody has to reload.   *)
Spec == Init /\ [][Next]_vars /\ WF_vars(Handler)

-----------------------------------------------------------------------------
TypeOK ==
    /\ endpoint \in {"provenance", "origin"} /\ request \in Requests
    /\ at \in {"converting", "resolving", "declared", "curated", "listed",
               "counting", "collecting", "replied"}
    /\ Len(components) <= Len(request) /\ resolved \subseteq DOMAIN components
    /\ i \in 1..(Len(valid) + 1)
    /\ \A c \in ToSet(valid) : WorthIt(c) /\ c.purl_id \in Ids
    /\ DOMAIN tooMany = Names /\ DOMAIN origins = Names
    /\ \A name \in Names : \A o \in ToSet(origins[name]) : o.count \in Percentage
    /\ Len(items) <= Len(request)
    /\ reply.code \in {0, 200, 400, 404, 500}
    /\ HandleTypeOK

Answered == at = "replied" /\ reply.code = 200

(* An item shows the purl as it was asked for, or as sanitising left it.     *)
Shows(item, dto) == item.purl \in {dto.purl, SanitiseComponent(dto).purl}

(* Every purl asked about is answered by exactly one item, whatever became   *)
(* of it: none is dropped and none repeated, though the answers to rejected  *)
(* purls are moved to the front and empty purls are passed over.             *)
OneAnswerEach ==
    Answered =>
        /\ Len(reply.items) = Len(NonEmpty)
        /\ \E asking \in Bijection(1..Len(NonEmpty), 1..Len(NonEmpty)) :
               \A k \in 1..Len(NonEmpty) : Shows(reply.items[k], NonEmpty[asking[k]])

(* The items of the components that were looked up come last, in order.      *)
Item(k) == reply.items[Len(reply.items) - Len(valid) + k]

StatusFits(c, item, otherwise) ==
    /\ item.status \in {"TOO_MANY_CONTRIBUTORS", "COMPONENT_WITHOUT_INFO", otherwise}
    /\ \E f \in served : (item.status = "TOO_MANY_CONTRIBUTORS") = Listed(f, c)
    /\ item.status = "COMPONENT_WITHOUT_INFO" => item.declared = {} /\ item.places = <<>>
    /\ item.status = otherwise => item.declared # {} \/ item.places # <<>>

(* Each item of GetProvenance carries the data of its own component, and a   *)
(* listed component is reported as such even with no data ("hid the status   *)
(* from exactly the components it describes", provenance.go:96-98).          *)
ProvenanceIsItsOwn ==
    Answered /\ endpoint = "provenance" => \A k \in DOMAIN valid :
        /\ Item(k).purl = valid[k].original
        /\ \E f \in served : Item(k).declared = Declared[f][valid[k].purl_id]
        /\ \E f \in served : Item(k).places = Curated[f][valid[k].purl_id]
        /\ StatusFits(valid[k], Item(k), "SUCCESS")

(* GetOrigin keeps what it finds by component name: this is about those      *)
(* whose name no other component of the request has.                         *)
Shared(k) == \E l \in DOMAIN valid \ {k} : Name(valid[l]) = Name(valid[k])

(* The places are the countries counted, in their order, each with the       *)
(* nearest hundredth of a percent that its contributors are of all counted.  *)
Distribution(places, counts) ==
    /\ Len(places) = Len(counts)
    /\ \A m \in DOMAIN counts :
          /\ places[m].country = counts[m].country
          /\ 2 * Total(counts) * places[m].count <= 20000 * counts[m].count + Total(counts)
          /\ 2 * Total(counts) * places[m].count >= 20000 * counts[m].count - Total(counts)

(* Each item of GetOrigin is about its own component; with a name of its     *)
(* own, it carries that component's countries, the share of each of them,    *)
(* and its listing.                                                          *)
OriginIsItsOwn ==
    Answered /\ endpoint = "origin" => \A k \in DOMAIN valid :
        /\ Item(k).purl = valid[k].purl
        /\ ~Shared(k) =>
              /\ \E f \in served : Distribution(Item(k).places, Origin[f][valid[k].purl_id])
              /\ StatusFits(valid[k], Item(k), valid[k].status)

(* The places of an item count its own component's contributors, those of    *)
(* the GitHub mine only ("other mines can share a username with a GitHub     *)
(* contributor", provenance.go:92-93): none without one, none counting more  *)
(* than there are, no country twice, and "highest first" (provenance.go:116).*)
RankedByContributors ==
    Answered => \A k \in DOMAIN valid :
        LET places == Item(k).places
            contributors(f) ==
                {v.id : v \in {v \in Export[f].vendor : v.mine_id = 5}} \intersect
                {ct.contributor_id : ct \in {ct \in Export[f].contribution :
                                                ct.purl_id = valid[k].purl_id}}
        IN  ~Shared(k) \/ endpoint = "provenance" =>
                /\ \A m, n \in DOMAIN places : m < n =>
                       /\ places[m].country # places[n].country
                       /\ places[m].count >= places[n].count
                /\ \E f \in served :
                       /\ places # <<>> => contributors(f) # {}
                       /\ endpoint = "provenance" => \A p \in ToSet(places) :
                             p.count \in 1..Cardinality(contributors(f))

(* A request that fails is answered with the reason and nothing else: 400    *)
(* when it names no purl, 500 when a query or the trailer failed, never half *)
(* an answer, and never the 404 GetProvenance keeps for an empty one.        *)
ErrorsAreWhole ==
    at = "replied" =>
        /\ reply.code \in {200, 400, 500}
        /\ reply.code # 200 => reply.items = <<>>
        /\ reply.code = 400 <=> NonEmpty = <<>>
        /\ reply.code = 500 => failures > 0

(* The percentages of an item add up to a hundred, but for half a hundredth  *)
(* of rounding per country.                                                  *)
AddUp(item) ==
    item.places # <<>> =>
        /\ 2 * Total(item.places) <= 20000 + Len(item.places)
        /\ 2 * Total(item.places) >= 20000 - Len(item.places)

(* An origin item with a name of its own shows a whole distribution.         *)
OwnSharesAddUp ==
    Answered /\ endpoint = "origin" =>
        \A k \in DOMAIN valid : ~Shared(k) => AddUp(Item(k))

(* "countries distribution for a given purl" (CHANGELOG.md:147): every       *)
(* origin item shows one whole distribution.                                 *)
SharesAddUp ==
    Answered /\ endpoint = "origin" => \A item \in ToSet(reply.items) : AddUp(item)

(* Every request is answered.                                                *)
RequestIsAnswered == <>(at = "replied")
=============================================================================
