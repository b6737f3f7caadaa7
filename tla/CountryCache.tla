----------------------------- MODULE CountryCache -----------------------------
(* pkg/models/countries.go: the names of countries, read from the served file *)
(* the first time one is asked for and kept, for every goroutine and for      *)
(* good, in a map behind a read-write lock.  The lock is not held while the   *)
(* table is read.  No handler asks for a country any more.                    *)
EXTENDS ServedFile, FiniteSets

CONSTANTS Callers, \* goroutines that call GetCountryByID
          Ids,     \* the country ids they ask for
          Missing  \* the name given for an id the map does not have

\* What a call returns that could not read the table.
Failed == "error"

ASSUME CountryCacheAssumption ==
    /\ Missing # Failed
    /\ \A f \in Files : \A i \in DOMAIN Export[f].countries : Export[f].countries[i] # Failed

VARIABLES countryMap, \* {} while nil, else the set of the one map
          where,      \* where each goroutine is
          id,         \* the id it asked for
          loaded,     \* the map it read, until it is stored
          loads,      \* how many times it stored one
          outcome     \* what its call returned: a name or an error

cache == <<countryMap, where, id, loaded, loads, outcome>>

NoId == 0

CacheInit ==
    /\ countryMap = {}
    /\ where = [p \in Callers |-> "idle"]
    /\ id = [p \in Callers |-> NoId]
    /\ loaded = [p \in Callers |-> {}]
    /\ loads = [p \in Callers |-> 0]
    /\ outcome = [p \in Callers |-> Failed]

Moves(p, from, to) == where[p] = from /\ where' = [where EXCEPT ![p] = to]

GetCountryByID(p, i) ==
    /\ Moves(p, "idle", "check")
    /\ id' = [id EXCEPT ![p] = i]
    /\ UNCHANGED <<countryMap, loaded, loads, outcome, handle>>

\* Mutant: the map is read again by every call.
CheckNothing(p) ==
    /\ Moves(p, "check", "load")
    /\ UNCHANGED <<countryMap, id, loaded, loads, outcome, handle>>

(* Under the read lock: is the map there?                                    *)
CheckLoaded(p) ==
    /\ Moves(p, "check", IF countryMap = {} THEN "load" ELSE "read")
    /\ UNCHANGED <<countryMap, id, loaded, loads, outcome, handle>>

(* Without the lock: the whole table, from the file served now.              *)
LoadCountries(p) ==
    /\ Moves(p, "load", "store")
    /\ loaded' = [loaded EXCEPT ![p] = {Export[file].countries}]
    /\ UNCHANGED <<countryMap, id, loads, outcome, handle>>

\* Mutant: a failed load is overlooked.
LoadFailsQuietly(p) ==
    /\ Moves(p, "load", "read")
    /\ Fail(1)
    /\ UNCHANGED <<countryMap, id, loaded, loads, outcome>>

(* The query, or the scan of a row (a NULL name).                            *)
LoadFails(p) ==
    /\ Moves(p, "load", "returned")
    /\ Fail(1)
    /\ UNCHANGED <<countryMap, id, loaded, loads, outcome>>

\* Mutant: the map is added to the one stored meanwhile.
StoreInPlace(p) ==
    /\ Moves(p, "store", "read")
    /\ countryMap' = countryMap \union loaded[p]
    /\ loaded' = [loaded EXCEPT ![p] = {}]
    /\ loads' = [loads EXCEPT ![p] = @ + 1]
    /\ UNCHANGED <<id, outcome, handle>>

\* Mutant: only the first map is stored, and the others wait.
StoreFirst(p) ==
    /\ countryMap = {}
    /\ Moves(p, "store", "read")
    /\ countryMap' = loaded[p]
    /\ loaded' = [loaded EXCEPT ![p] = {}]
    /\ loads' = [loads EXCEPT ![p] = @ + 1]
    /\ UNCHANGED <<id, outcome, handle>>

(* Under the lock: it replaces whatever was stored meanwhile.                *)
Store(p) ==
    /\ Moves(p, "store", "read")
    /\ countryMap' = loaded[p]
    /\ loaded' = [loaded EXCEPT ![p] = {}]
    /\ loads' = [loads EXCEPT ![p] = @ + 1]
    /\ UNCHANGED <<id, outcome, handle>>

NameIn(map, i) == IF i \in DOMAIN map THEN map[i] ELSE Missing

(* Under the read lock again: the name, from whichever map is there now; a   *)
(* nil map has none.                                                         *)
Read(p) ==
    /\ Moves(p, "read", "returned")
    /\ outcome' = [outcome EXCEPT ![p] =
                      IF countryMap = {} THEN Missing
                      ELSE NameIn(CHOOSE map \in countryMap : TRUE, id[p])]
    /\ UNCHANGED <<countryMap, id, loaded, loads, handle>>

Return(p) ==
    /\ Moves(p, "returned", "idle")
    /\ id' = [id EXCEPT ![p] = NoId]
    /\ outcome' = [outcome EXCEPT ![p] = Failed]
    /\ UNCHANGED <<countryMap, loaded, loads, handle>>

CacheStep(p) ==
    \/ CheckLoaded(p) \/ LoadCountries(p) \/ LoadFails(p) \/ Store(p) \/ Read(p)
    \/ Return(p)

-----------------------------------------------------------------------------
CacheTypeOK ==
    /\ \A map \in countryMap : \E f \in served : map = Export[f].countries
    /\ Cardinality(countryMap) <= 1
    /\ where \in [Callers -> {"idle", "check", "load", "store", "read", "returned"}]
    /\ id \in [Callers -> Ids \union {NoId}]
    /\ \A p \in Callers : (where[p] = "store") = (loaded[p] # {})
    /\ loads \in [Callers -> Nat]

(* "Read once and cached" (countries.go:48-50), when first callers race: a   *)
(* goroutine whose load succeeded never loads again, however late another one *)
(* replaces its map and however often the file changes.                       *)
ReadOncePerCaller == \A p \in Callers : loads[p] <= 1

(* A call answers with the name its country has in a file served so far; it   *)
(* says there is none only if one of them lacks it, never because it looked   *)
(* while another goroutine was filling the map; and it fails only when the    *)
(* table could not be read.                                                   *)
NamesAreServed ==
    \A p \in Callers : where[p] = "returned" =>
        IF outcome[p] = Failed
        THEN failures > 0
        ELSE \E f \in served : outcome[p] = NameIn(Export[f].countries, id[p])
=============================================================================
