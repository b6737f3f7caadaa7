# Verification of the geoprovenance service

The service answers two questions about software components, where their
contributors are (*provenance*) and how they spread over countries (*origin*),
from a read-only DuckDB file, the *serving export*. The export is rotated daily
by repointing a symlink, and a running process moves to the new file on SIGHUP
without dropping requests. That reload is the concurrent heart of the program and
of this project; the path of a request through resolver and use cases is the rest.

## Inventory

| component (source) | state | operations | hard parts | correct when |
|---|---|---|---|---|
| reloading connector (`pkg/db/reload.go`) | generations (open file, count of connections, retired), the current one | Connect, conn.Close, Reload, Close, validate, dropIdle | the mutex is released between the steps of a reload; reloads, connections and Close overlap | no file closed under a connection, none closed twice or leaked, a swap only to a complete file, closed stays closed |
| connection pool (`database/sql`, `pkg/db/db.go`) | idle list, open count, waiting requests | conn, putConn, retry, SetMaxIdleConns | IsValid, the swap and putConn are separate critical sections; the limit | a query is answered, on the file served when it began or a later one unless its connection was never used before, and stale connections drain |
| SIGHUP listener, server life, opening (`reload.go`, `pkg/cmd/server.go`, `pkg/db/db.go`) | a channel of one signal, done | Notify, select, Reload, Stop, Close | signals during a reload are coalesced, a reload fails, stop does not wait | an announced rotation is served or its reload fails after it, the handle keeps every table, the listener ends, nothing is open after Close |
| resolution (`pkg/resolver/resolver.go`, `purl_key.go`, `version.go`) | none | candidateKeys, pickKey, pinVersion, SelectVersion | spellings, a version cut out of the text of a purl, non-semver labels, ties | the most specific row, the version asked for or the highest allowed |
| worker pool (`pkg/resolver/components.go`) | a slice written in place, a channel, a wait group | SanitiseComponents, ResolveComponents, resolveOne | unlocked writes, failing queries, a reload between two queries | one writer per element, the sequential answer, the call returns |
| use cases (`pkg/usecase`), queries (`pkg/models/provenance.go`) | results by component | GetProvenance, GetOrigin | results kept across a loop, by name; joins over vendors of several mines; a failing query | each purl answered once, with the places of its own GitHub contributors, ranked |
| request pipeline (`pkg/service`, `pkg/errors`) | none | six handlers over runPipeline, converters, HandleServiceError | partial answers, a trailer that cannot be set | an error is whole and has the right code |
| source fallback (`pkg/resolver/fallback.go`) | none | WithSourceFallback, RecoverFromSource, SourcePurlFor | hidden errors; the source is found, then asked, in queries of their own | recovered data is marked and comes from the source; what can be recovered is. Not called by the service yet |
| country cache (`pkg/models/countries.go`) | a process-wide map behind a read-write lock | GetCountryByID, loadCountries | first callers race, the table is read without the lock, no reload invalidates the map | a name is one a served file has; nobody loads twice. Not called by the service any more |
| configuration, logging, gRPC and REST start, DTOs, purl helpers | | | | not modelled: see below |

Requests call the resolver and the models; both call `sqlx`, whose pool calls the
connector back (Connect, IsValid, ResetSession, Close). The signal goroutine calls
Reload, which swaps the connector's generation and calls the pool back (dropIdle).
No handler knows of reloads: a request's queries simply find another file.

## Modules

    ServingHandle          what a database handle that moves between files promises
      ^ implemented by
    ReloadingConnector     reload.go: generations, reloads, Close          (+ _proofs, MC)
    ConnPool               the pool over it, during a reload            (+ _proofs)
    SighupReload           the process and its listener around it      (+ _proofs)
    ServedFile             what code that queries sees of all this: a file, sometimes another, or an error
    Resolver               operators: sanitising, keys, versions       (+ _proofs)
    ProvenanceQueries      operators: the SQL over an export's tables (+ _proofs)
      ^ extended by
    ResolveComponents      the worker pool that runs the resolver      (+ _proofs, MC)
      implements BatchAnswer, what a caller of a batch relies on
    GeoProvenance          a whole request: converters, use cases, reply   (+ _proofs, MC)
    SourceFallback         a lookup retried for the source component
    CountryCache           the lazily loaded map of country names
      composed in UncalledHelpers, the code no handler calls   (+ _proofs, MC)

The seams: ReloadingConnector assumes connections end, and ConnPool's
SupersededDrains shows the pool sees to it. ConnPool and SighupReload take a reload
at a coarser grain (swap, then drop idle; look, open, swap), whose detail is
ReloadingConnector's. GeoProvenance takes the worker pool as
BatchAnswer leaves it to a caller: a request's components, which start together, are
answered one by one, in any order, each by Resolver's `ResolutionAcross` (its row from
any file read so far and its versions from the one read then) or, when its query failed, as
not found. ResolveComponents' SameAsSequential ties the workers to the same operator
when the file stays and no query fails. ServedFile's `Reload` and `Fail` are what is
left of the connector and the pool for the modules above them: between any two
queries the file may be another one, and any query may fail. `file` is the file the next
query reads. That is not always the file served then: a query that is the first on a
connection dialled before a swap reads the superseded one (LateOnlyOnFirstUse). So
ServedFile lets a file be read again after another was. `MaxReloads` is 2 in `resolve`
and `request`, to go there and back, and 1 in `helpers`, where 2 take TLC too long; the
theorems hold for any number.

**ReloadingConnector.** `cur` is `r.cur`; `open`, `retired` and `closed` are the
fields and fate of each generation; each connection, each caller of Reload and the
goroutine that calls Close has a program counter. An action is one critical
section of the mutex or one call outside it, so everything the lock does not
protect interleaves: Resolve and OpenNext resolve the symlink separately,
ListedOld and Check read the tables of both files, Swap re-checks that the
generation captured at the start is still current, Discard closes a candidate that
was not swapped in. `release` and `retire` decide under the mutex who closes a file
and close it after unlocking (CloseConnector).

**ConnPool.** `Acquire`, `Retry`, `HandOver`, the cleaner (`CleanerTakes`,
`CleanerCloses`) and the opener are database/sql's, modelled from what pkg/db relies
on and marked external in the map; `Dial`, `ResetSession`, `IsValid`, `CloseConn`,
`SwapIn`, `ForbidIdle` and `AllowIdle` are this repository's. `used` is the pool's
needReset: ResetSession is asked only of a connection that a query has used, so one
that the opener has just dialled runs its first query unasked. The limits of
`setPoolOptions` on age are taken without a clock: wherever the pool looks at the age
of a connection, it may be past its limit (`TooOld` when a query is given one,
`PutExpired` when it is put back, `CleanerTakes` while it is idle). On its last
attempt a query takes a connection of any age. Generations are numbered in the order
they become current; a request makes `Queries` queries, each with its own connection.

**SighupReload.** `process` follows RunServer from start to its deferred calls,
`listener` the goroutine of ReloadOnSIGHUP. Outside the window from Notify to
signal.Stop a SIGHUP has Go's default effect. The model lets the listener go on
after RunServer returns; in `main` the process exits then. `driver` is the one
configured: sqlite and postgres open and ping the same way and get the Reloader that
does nothing, any other name, or a missing path or DSN, is refused. At the start a
file only has to answer, so the process may begin on an export that lacks tables;
from then on a reload must carry every table in use. `ReloadFails` is any error of
any step of Reload, at any time. `attempt` is kept for RotationIsServed: whether the
last reload began after the path was last repointed, and failed.

**Resolver.** A version is a record of a leading `v` and a rank in semver order;
ranks below 0 are labels that are not semver. A constraint is the set of ranks it
lets through. A purl has a name, the spelling the caller used, a qualifier flag
and a version that may be escaped. `Stripped` is what is left when its version is moved
to the requirement: the code removes the first literal `@version` of the text, which
is the version itself, or nothing when it is escaped, or else the start of a raw scope
that reads like it (`pkg:npm/@0x/utils@0` becomes `pkg:npm/x/utils@0`); `cut` is the
name that leaves, and a name that leaves nothing is rejected with what was stripped. Whether a string has a semver operator is the
external helper's to say: it is part of a requirement here. Prerelease rules of the
semver library are inside the sets of ranks.

**ResolveComponents.** `sent` and `taken` stand for the channel: indices go in and
come out in order. Each worker takes an index, identifies its component, reads its
versions and writes the result in place, in separate steps, so a reload or a
failure falls between any two. The lookup of the source component is part of
`Finish`: its result and its errors are ignored by this caller. Under the mapping
`batch <- components`, `answered <-` the indices taken and no longer worked on, the
module implements BatchAnswer: each element is written in one step by one worker,
once, and the slice is handed back when all are and never written again.

**GeoProvenance.** One action per query, as in the use cases, then the reply. The
three pairs of handlers differ in message types only; a single-component request is
a request of length one. Shares are integers, in hundredths of a percent; the code
computes them as float32 and rounds to two places. The properties do not repeat that
computation: `Distribution` compares an item's places with its component's counts,
country by country, and allows each share half a hundredth of a percent. The JSON round trip only renames
fields, so it is no action; a trailer that cannot be set is (`TrailerFails`). The loops
that split a slice in two (empty purls or not, `validComponents` or rejected) are
`Keep`: the elements at some indices, in the order of the indices.

**ProvenanceQueries.** The four queries as operators over sets of rows: a join is a
set of pairs, `DISTINCT` is what a set does, `GROUP BY` a set of countries
(`CountryRows`), and `ORDER BY` is `InOrder`: the k-th row is the one that k - 1 rows
come before, by count and name. Texts are numbers, to have an order: 0 is the
empty string and a negative number NULL, as each filter of the SQL tells them apart.
GeoProvenance evaluates them once per file and component.

**SourceFallback, CountryCache.** One call of WithSourceFallback (or of
RecoverFromSource, for a caller that has looked already), with a step for each query:
the lookup, the three queries of SourcePurlFor, the lookup of the source, and that
without the requirement. The lookup is a parameter of the Go function and here a
table of the versions that carry data. CountryCache has goroutines that check the map
under the read lock, read the table without it, store under the lock and read again.

## Runs

| run | question | bounds, and why they do | states |
|---|---|---|---|
| connector | is every file closed once, after its users, and every swap sound? | 2 connections, 2 overlapping reloads, Close; 3 generations, so that a reload can be overtaken; files that are small, large and broken | 618k |
| connector_live | is a superseded file closed in the end? | 2 connections, 1 reload, 2 generations: enough for each to be the last to let go; no symmetry, as liveness requires | 31k |
| pool | when does a superseded file still serve, is every query answered, are stale connections gone? | 3 requests for 2 connections, so one waits; 1 idle slot, so one is closed on return; connections that age at any time; 1 reload | 144k |
| pool_failures | how many queries does a reload fail? | 3 requests of 2 queries for a single connection, so that one waits through all its attempts, as a query can be failed by a reload only on its third; 1 reload | 3.5M |
| sighup | is a signalled rotation served, the handle always good and the listener ended? | 3 rotations (one before, one during, one after a reload); two files with the same tables, one with fewer and one that does not answer; every driver; reloads fail at will | 14k |
| resolve | is every component resolved, by one goroutine, rightly, and which from two files? | 2 workers for 3 components, so one takes a second; 16 kinds of component alone and mixed; 2 exports; 2 changes of file (there and back), 1 failure | 72k |
| request | is every purl answered once with its own data, or the request failed whole? | 25 requests of 0 to 4 components to both endpoints; 2 exports that differ in every table, one with 601 contributors, so that a share computed in an int16 overflows, and with contributors of another mine, untyped, or in two countries; purls that sanitising leaves another name, or none; 2 changes of file, 1 failure | 18k |
| helpers | is recovered data honest, and the country map sane when first callers race? | 11 calls that end at every step of the fallback; 2 first callers; 2 exports with other links and countries; 1 change of file, 1 failure | 156k |

Deadlock is checked in `connector`, `connector_live`, `pool` and `pool_failures`, where a Done step
or the environment goes on. It is off in the other runs: their process stops,
their call returns, their request is replied to, and CallReturns,
RequestIsAnswered, HelpersReturn and ListenerEnds say it does so at the right place.

Four more runs each show that the program does not do what one of its documents
says. The counterexample is short in each.

| run | the statement | what happens |
|---|---|---|
| reload_same_file | Reload reports "whether it changed" | repointed and back between the two resolutions of the path, the file in use is opened again and swapped in for itself |
| request_reload | requests running "finish on the previous file" | only the running query does; the next one reads the new file |
| other_package | "a version carried in the purl is moved into the requirement" | the first `@version` of the text is removed, which may be in the scope: another package is looked up and answered |
| origin_same_name | a distribution "for a given purl" | components that share a name are answered with the percentages of both, 200% in all |

Every property of a passing run has a mutant beside the definition it changes,
named for the mistake, that makes TLC find the property violated.

### Fairness

ReloadingConnector, live: goroutines inside the code's own steps are scheduled, and
a connection is closed some time after it was taken (a query ends; the pool drops
or expires it: SupersededDrains). Reloads and rotations need not happen. ConnPool:
query steps, the opener, the reload once begun, and the cleaner, which takes each
connection idle for 30 minutes or an hour old (`setPoolOptions`) and closes it. That a
connection is found too old (`TooOld`, `PutExpired`) may happen, and never must. SighupReload:
RunServer's own steps and the listener's; nobody has to rotate, signal or shut down.
ResolveComponents, GeoProvenance and UncalledHelpers: each goroutine runs, and a
query answers or fails. All are weak fairness of whole processes, never of one outcome.

## Proofs

The theorems hold for every value of the constants: any numbers of connections,
requests, workers, files, reloads and failing queries, any exports and any requests.
They are by module; a theorem of a property that a run checks carries its name.

| module | theorem | says |
|---|---|---|
| ReloadingConnector_proofs | TypeCorrect, Invariance | `[]TypeOK`, `[]IInv` |
| | InUseStaysOpen | NeverClosedInUse: no file is closed under a counted connection |
| | NoDoubleClose | ClosedOnce: no file is closed twice |
| | LeakFree | NothingLeaks: an opened file is current, closed, or somebody's to close |
| | ClosedForGood | ClosedStaysClosed: a reload never revives a closed handle |
| | TablesKept | SwapKeepsTables: a file gives way only to one that answers and has its tables |
| | Implements | the connector implements ServingHandle |
| ConnPool_proofs | TypeCorrect, ConnectionsHaveOneOwner | `[]TypeOK`, `[]PoolInv` |
| | NeverMoreThanMaxOpen | no more connections are open than SetMaxOpenConns allows |
| | LateQueryIsFirst | LateOnlyOnFirstUse: a query on a file superseded before it began is the first of its connection |
| | OnlyReloadsFailQueries | FailuresAreReloads: no more queries fail for want of a connection than connections were open at the swaps |
| | ReloadLeavesNoneIdle | NoneLeftIdle |
| SighupReload_proofs | TypeCorrect | `[]TypeOK` |
| | AlwaysServes | HandleAlwaysServes |
| | NothingServedAtExit | ClosedAtExit |
| | NoSignalForgotten | the safety half of RotationIsServed: an announced rotation is served, pending, being handled, or its reload failed |
| Resolver_proofs | SelectsHighest | SelectVersion keeps the first of the highest allowed versions, for any list |
| | PicksMostSpecific | pickKey returns a row with the most specific key that any row has |
| ResolveComponents_proofs | TypeCorrect, InvariantHolds | `[]TypeOK`, `[]ResolveInv` |
| | WritersAreAlone | OneWriter |
| | AnswersAreRight | EveryComponentAnswered: the row and version of the purl as sanitising left it |
| | OnlyInHandIsMixed | OnlyInHandAreMixed: a change of file mixes no more components from two files than there are workers |
| | WorkersChangeNothing | SameAsSequential |
| | BatchIsAnswered | ResolveComponents implements BatchAnswer |
| UncalledHelpers_proofs | TypeCorrect, InvariantHolds | `[]TypeOK`, `[]HelpersInv` |
| | WhatIsRecoveredIsHonest, WhatCanBeRecoveredIs | RecoveryIsHonest, RecoversWhatItCan |
| | CountriesAreServed, CountriesAreReadOnce | NamesAreServed, ReadOncePerCaller |
| ProvenanceQueries_proofs | ListedInOrder | InOrder lists each element of a finite set once, in the order given |
| | QueriesRank | both country queries return each country once, by falling count, and count no more vendors than the component has GitHub contributors |
| GeoProvenance_proofs | TypeCorrect, RequestInvariant | `[]TypeOK`, `[]GeoInv` |
| | NobodyIsLeftOut | OneAnswerEach |
| | ProvenanceStaysOwn, OriginStaysOwn | ProvenanceIsItsOwn, OriginIsItsOwn |
| | PlacesStayRanked | RankedByContributors |
| | OwnSharesStayWhole | OwnSharesAddUp: the rounding errors of any number of countries together |
| | ErrorsStayWhole | ErrorsAreWhole |

**Assumptions.** Each module names what it needs of its constants, and the runs
evaluate it: the bounds are numbers; the sets the code counts (connections, requests,
workers) are finite; the values that stand for "none" are not elements of the sets they
complete; requests and exports are well formed (a purl the parser can return, a row
whose id has a list of published versions, a name that has a type, what sanitising
leaves of one too, tables that are finite). That every file has a list, if an empty one, for every purl_id is a convention
of the model, not a demand on the exports: an id without versions is a list without
elements.

**The inductive invariants.** No safety property here is inductive as it stands. Each
proof adds the bookkeeping the code relies on:

- `IInv` (connector). That no connection is on a closed file says nothing about who is
  about to close it. A generation's count is the number of connections that hold it;
  the current one is neither retired nor closed; at most one process is at the point
  of closing a generation, which is then retired with a count of zero; a candidate
  belongs to the reload that opened it until it is swapped in or discarded; what a
  reload has checked about both files holds until it swaps.
- `PoolInv` (pool). An open connection is in exactly one place (a query, the idle list,
  connectionOpener, the list being dropped, the cleaner); `numOpen` is the open connections and
  those under way; while idle connections are dropped the idle list is empty and
  stays so. For the failures the invariant adds up two things: the failed queries and
  the connections open to superseded files are together at most `(cur - 1) * MaxOpen`.
  A swap makes at most `MaxOpen` connections stale, and a query fails by using one up:
  its last attempt takes a connection of any age, so what it is refused is superseded.
- `Inv`, `RememberInv` (listener). The tables in use include those of the first file;
  until an announced rotation is served, the signal is pending, the listener is
  between receiving it and swapping, or that reload has failed.
- `ResolveInv` (workers). Indices are sent and taken in order, each busy worker has one
  of its own, and the function returns only when all workers have ended; a component
  is as sanitising left it until it is answered, and then has one of three outcomes; a
  component denied though it exists has a failed query of its own. `MixedInv` adds the
  components mixed from two files to the workers whose row and versions may be: a change
  of file puts at most every worker at risk, and a mixed component uses one of them up.
- `HelpersInv` (fallback, country cache). What a call has read is from a file served
  so far; what it has not found was not there, or a query failed; a goroutine that has
  stored a map leaves one for good.
- `GeoInv` (request). The properties speak of the answer; the invariant says how far it
  is written. Each component taken is as its own purl asked for, and from served files
  (`Outcome`); what was got is about the component at `i`; the items are the rejected
  ones, then those of the first `i - 1` looked up, each with its own data; the maps of
  GetOrigin are right for the names of one component, up to `i`, and untouched after.

Each is proved with a step per action and under it one per conjunct the action
disturbs. Action properties and refinements follow from the invariant in the state
before the step.

**Recursion.** SelectVersion is a recursive function over a list. Resolver_proofs
derives induction as a first-order fact about sets of numbers (`Least`, `Induction`)
from the library's well-founded minimum, proves from it that a function so defined
exists and takes the values of its recursion (`Recursion`), and from that what the
loop computes. ResolveComponents_proofs and UncalledHelpers_proofs use the result.

`Total`, the sum GetOrigin divides by, is a recursive function too: GeoProvenance_proofs
carries each rounded share along the sum (`ShareIsNear`, `SharesOfRanking`), so that n
shares miss a hundred percent by at most n half hundredths, and shows that the shares
of a ranking are a `Distribution` of it (`SharesDistribute`).

**Counting.** OneAnswerEach asks for a bijection between the components asked about and
the items. Its proof gives one (`PlacesEveryone`): the rejected ones
in front and the others behind, each in the order of its index, which ListedInOrder
makes one-to-one.

**Only model-checked.** All liveness (SupersededIsClosed, the pool's, the listener's,
CallReturns, RequestIsAnswered, HelpersReturn): liveness under fairness is out of the
prover's reach. Every safety and action property of the passing runs, and each
refinement's safety, is proved.

### Known limits of the properties

- A query can fail because of a single reload: if it waits for its third attempt too
  and is then handed a superseded connection. FailuresAreReloads bounds how many do; it
  says nothing of attempts, which age (db.go:120-121) costs as well.
- reload.go:68-70 says that connections of a superseded generation "finish what they are
  running, are then dropped", but database/sql calls ResetSession (reload.go:284) only for
  a connection that a query has used. One dialled for a waiting query and not used yet
  serves a query begun after the swap. LateOnlyOnFirstUse says that this is the only case.
- CHANGELOG.md:12 says of a superseded file that "idle connections to it are closed at
  once". NoneLeftIdle holds when Reload returns, but IsValid comes before putConn locks: a
  connection found valid just before the swap is put back idle after it, and with no
  traffic stays until it idles out. SupersededDrains says that it goes in the end.
- reload.go:312-313 says that "a reload never terminates the process". A SIGHUP before
  Notify (server.go:118) or after signal.Stop does: SighupKills. It takes one step, and no
  property is stated about it.
- EveryComponentAnswered speaks of the purl as sanitising leaves it; `other_package` shows
  what that costs. It lets the row and the versions come from different served files:
  the versions of an id of one file are then looked up in another, where the component may
  have another id, and VERSION_NOT_FOUND is answered for a version that both publish,
  though resolver.go:210-211 keeps it for versions that are not published.
  OnlyInHandAreMixed bounds how many components a reload can do this to: those in the
  workers' hands.
- A request whose query fails during resolution is told the component does not exist.
  EveryComponentAnswered allows one such component per failed query and no more.
- `declaredLocationsQuery` takes a vendor whose type is the empty string, though the
  comment above it asks for "a vendor with a type" and `countryCountsQuery` leaves it
  out. The model follows the code.
- `validate` reads the tables of the file in use through a connection that is not
  counted (reload.go:239), so Close, or another reload, may close that file under
  it; the reload then fails or is overtaken, and ClosedStaysClosed and SwapKeepsTables
  hold.

## Not modelled

DuckDB itself, semver and purl parsing; the gRPC and REST servers, configuration,
logging and data types, which hold no state the behaviour depends on;
`pkg/utils/purl.go`, string functions nothing calls; the schema and fixtures of the
tests (`pkg/models/common.go`, `test_schema.go`). Contexts and cancellation are a
failing query. The order of declared locations is left out.

## Plan

Prove the seams between modules, which are so far argued and not checked: that
the file ReloadingConnector serves behaves as ServedFile says, and that the worker
pool leaves a component as GeoProvenance's ResolveComponent and ResolveFails do.
