------------------------ MODULE UncalledHelpers_proofs ------------------------
(* Safety of the source fallback and of the country cache, side by side over  *)
(* one handle, for any calls, goroutines, exports, reloads and failures.      *)
EXTENDS UncalledHelpers, Resolver_proofs, FiniteSetTheorems

Keyed(f) == PickKey(CandidateKeys(call.purl), Export[f].rows)

(* What holds of the call between its queries: what it has read is from some  *)
(* file served so far, and what it has not found was not there, or a query    *)
(* failed.                                                                    *)
FallbackInv ==
    /\ at = "own" => ~call.looked
    /\ ~own.marked
    /\ at \notin {"own", "returned"} =>
          own.data = {} /\ (call.looked \/ MayMiss(call.purl.name, call.requirement))
    /\ at \in {"versions", "linked", "hop", "retry"} =>
          /\ call.sourceFor /\ call.purl.kind = "purl"
          /\ \E f \in served : link = Keyed(f)
    /\ at \in {"linked", "hop", "retry"} => HasSource(link)
    /\ at \in {"hop", "retry"} =>
          /\ ~SameString(source.purl) /\ source.purl_id = link.source
          /\ \E g \in served : source \in Export[g].rows
    /\ at = "retry" => Retries /\ MayMiss(source.purl.name, call.requirement)
    /\ RecoveryIsHonest
    /\ RecoversWhatItCan

IsMap(map) == map = {} \/ \E f \in served : map = {Export[f].countries}

(* A goroutine that has stored a map leaves one for good, so it does not load *)
(* another; one about to read a name finds a map.                             *)
CacheInv ==
    /\ IsMap(countryMap)
    /\ loaded = [p \in Callers |-> loaded[p]] /\ outcome = [p \in Callers |-> outcome[p]]
    /\ \A p \in Callers :
          /\ IsMap(loaded[p])
          /\ loads[p] > 0 => countryMap # {}
          /\ where[p] \in {"load", "store"} => loads[p] = 0
          /\ where[p] = "read" => countryMap # {}
          /\ where[p] # "returned" => outcome[p] = Failed
    /\ ReadOncePerCaller /\ NamesAreServed

HandleMoves == Reload \/ Fail(1) \/ UNCHANGED handle

-----------------------------------------------------------------------------
(* Files are added to those served so far, and failures counted.              *)
LEMMA HandleGrows ==
    ASSUME HandleTypeOK, HandleMoves
    PROVE  /\ HandleTypeOK' /\ served \subseteq served' /\ failures <= failures'
           /\ failures \in Nat /\ failures' \in Nat
           /\ failures' = 0 /\ served' = {file'} => UNCHANGED handle
<1> USE ServedFileAssumption DEF ServedFileAssumption, HandleTypeOK, handle
<1>1. CASE Reload
  BY <1>1 DEF Reload
<1>2. CASE Fail(1)
  BY <1>2 DEF Fail
<1>3. CASE UNCHANGED handle
  BY <1>3
<1>4. QED
  BY <1>1, <1>2, <1>3 DEF HandleMoves

(* The call, when something else moves.                                      *)
LEMMA CallKept ==
    ASSUME TypeOK, FallbackInv, UNCHANGED fallback, HandleMoves
    PROVE  FallbackTypeOK' /\ FallbackInv'
<1>1. /\ served \subseteq served' /\ failures <= failures'
      /\ failures \in Nat /\ failures' \in Nat
      /\ failures' = 0 /\ served' = {file'} => UNCHANGED handle
  BY HandleGrows DEF TypeOK
<1>2. FallbackTypeOK'
  BY DEF TypeOK, FallbackTypeOK, fallback
<1>3. \A name, requirement : MayMiss(name, requirement) => MayMiss(name, requirement)'
  BY <1>1 DEF MayMiss
<1>4. \A name : LinkedTo(name) => LinkedTo(name)'
  BY <1>1 DEF LinkedTo, fallback
<1>5. RecoveryIsHonest'
  BY <1>1, <1>3, <1>4 DEF FallbackInv, RecoveryIsHonest, fallback
<1>6. RecoversWhatItCan'
  <2>1. SUFFICES ASSUME failures' = 0, served' = {file'} PROVE RecoversWhatItCan'
    BY DEF RecoversWhatItCan
  <2>2. /\ file' = file /\ served' = served /\ failures' = failures
        /\ call' = call /\ at' = at /\ answer' = answer
    BY <1>1, <2>1 DEF handle, fallback
  <2>3. Linked' = Linked /\ \A sources : Attempts(sources)' = Attempts(sources)
    BY <2>2 DEF Linked, Attempts, SameString
  <2>4. QED
    BY <2>2, <2>3 DEF FallbackInv, RecoversWhatItCan
<1>7. /\ (\E f \in served : link = Keyed(f)) => (\E f \in served : link = Keyed(f))'
      /\ (\E g \in served : source \in Export[g].rows) => (\E g \in served : source \in Export[g].rows)'
  BY <1>1 DEF Keyed, fallback
<1>8. QED
  BY <1>2, <1>3, <1>5, <1>6, <1>7 DEF FallbackInv, SameString, Retries, CrossEcosystem, fallback

(* The cache, when something else moves.                                     *)
LEMMA CacheKept ==
    ASSUME TypeOK, CacheInv, UNCHANGED cache, HandleMoves
    PROVE  CacheTypeOK' /\ CacheInv'
<1>1. served \subseteq served' /\ failures <= failures' /\ failures \in Nat /\ failures' \in Nat
  BY HandleGrows DEF TypeOK
<1>2. \A map : IsMap(map) => IsMap(map)'
  BY <1>1 DEF IsMap
<1>3. CacheTypeOK'
  BY <1>1 DEF TypeOK, CacheTypeOK, cache
<1>4. NamesAreServed'
  BY <1>1 DEF CacheInv, NamesAreServed, cache
<1>5. QED
  BY <1>2, <1>3, <1>4 DEF CacheInv, ReadOncePerCaller, cache

-----------------------------------------------------------------------------
(* There is one map, or none.                                                *)
LEMMA OneMap ==
    ASSUME NEW map, IsMap(map)
    PROVE  Cardinality(map) <= 1
<1>1. CASE map = {}
  BY <1>1, FS_EmptySet
<1>2. ASSUME NEW f \in served, map = {Export[f].countries}
      PROVE  Cardinality(map) <= 1
  <2>1. Cardinality({Export[f].countries}) = 1
    BY FS_Singleton
  <2>2. QED
    BY <1>2, <2>1
<1>3. QED
  BY <1>1, <1>2 DEF IsMap

(* A name read from a map is no failure, and is one of a served file.        *)
LEMMA NameServed ==
    ASSUME HandleTypeOK, NEW map, map # {}, IsMap(map), NEW i
    PROVE  LET name == NameIn(CHOOSE m \in map : TRUE, i)
           IN  name # Failed /\ \E f \in served : name = NameIn(Export[f].countries, i)
<1>1. PICK f \in served : map = {Export[f].countries}
  BY DEF IsMap
<1>2. (CHOOSE m \in map : TRUE) = Export[f].countries
  BY <1>1
<1>3. NameIn(Export[f].countries, i) # Failed
  BY CountryCacheAssumption DEF CountryCacheAssumption, NameIn, HandleTypeOK
<1>4. QED
  BY <1>2, <1>3

(* One goroutine's step.                                                     *)
LEMMA CallerSteps ==
    ASSUME TypeOK, CacheInv, NEW p \in Callers,
           CacheStep(p) \/ \E i \in Ids : GetCountryByID(p, i)
    PROVE  CacheTypeOK' /\ CacheInv'
<1>1. /\ where \in [Callers -> {"idle", "check", "load", "store", "read", "returned"}]
      /\ loads \in [Callers -> Nat] /\ id \in [Callers -> Ids \union {NoId}]
      /\ HandleTypeOK /\ \A r \in Callers : (where[r] = "store") = (loaded[r] # {})
  BY DEF TypeOK, CacheTypeOK
<1>2. PICK to \in {"idle", "check", "load", "store", "read", "returned"} :
        where' = [where EXCEPT ![p] = to]
  BY DEF CacheStep, GetCountryByID, CheckLoaded, LoadCountries, LoadFails, Store, Read, Return, Moves
<1>3. where' \in [Callers -> {"idle", "check", "load", "store", "read", "returned"}]
  BY <1>1, <1>2
<1>4. ASSUME NEW i \in Ids, GetCountryByID(p, i)
      PROVE  CacheTypeOK' /\ CacheInv'
  BY <1>1, <1>3, <1>4
     DEF GetCountryByID, Moves, CacheTypeOK, CacheInv, IsMap, ReadOncePerCaller, NamesAreServed,
         handle, TypeOK
<1>5. CASE CheckLoaded(p)
  BY <1>1, <1>3, <1>5
     DEF CheckLoaded, Moves, CacheTypeOK, CacheInv, IsMap, ReadOncePerCaller, NamesAreServed,
         handle, TypeOK
<1>6. CASE LoadCountries(p)
  <2>1. /\ where[p] = "load" /\ where' = [where EXCEPT ![p] = "store"]
        /\ loaded' = [loaded EXCEPT ![p] = {Export[file].countries}]
        /\ UNCHANGED <<countryMap, id, outcome, loads, file, served, reloads, failures>>
    BY <1>6 DEF LoadCountries, Moves, handle
  <2>2. file \in served /\ IsMap({Export[file].countries})
    BY <1>1 DEF HandleTypeOK, IsMap
  <2>3. CacheTypeOK'
    <3>1. CacheTypeOK /\ CacheInv /\ UNCHANGED <<countryMap, id, outcome, loads>>
      BY <2>1 DEF TypeOK
    <3>2. \A q \in Callers : loaded'[q] = IF q = p THEN {Export[file].countries} ELSE loaded[q]
      BY <2>1, <3>1 DEF CacheInv
    <3>3. \A q \in Callers : where'[q] = IF q = p THEN "store" ELSE where[q]
      BY <1>1, <2>1
    <3>4. \A q \in Callers : (where'[q] = "store") = (loaded'[q] # {})
      BY <1>1, <3>2, <3>3
    <3>5. /\ \A map \in countryMap' : \E f \in served' : map = Export[f].countries
          /\ Cardinality(countryMap') <= 1
      BY <2>1, <3>1 DEF CacheTypeOK
    <3>6. id' \in [Callers -> Ids \union {NoId}] /\ loads' \in [Callers -> Nat]
      BY <1>1, <3>1
    <3>7. QED
      BY <1>3, <3>4, <3>5, <3>6 DEF CacheTypeOK
  <2>4. CacheInv'
    BY <1>1, <2>1, <2>2
       DEF TypeOK, CacheTypeOK, CacheInv, IsMap, ReadOncePerCaller, NamesAreServed
  <2>5. QED
    BY <2>3, <2>4
<1>7. CASE LoadFails(p)
  BY <1>1, <1>3, <1>7, ServedFileAssumption
     DEF LoadFails, Moves, Fail, CacheTypeOK, CacheInv, IsMap, ReadOncePerCaller, NamesAreServed,
         HandleTypeOK, TypeOK, ServedFileAssumption
<1>8. CASE Store(p)
  <2>1. /\ where[p] = "store" /\ where'[p] = "read" /\ countryMap' = loaded[p]
        /\ loaded[p] # {} /\ loaded'[p] = {} /\ loads[p] = 0 /\ loads'[p] = 1
        /\ id' = id /\ outcome' = outcome
        /\ file' = file /\ served' = served /\ failures' = failures
        /\ loads' \in [Callers -> Nat]
        /\ \A q \in Callers \ {p} :
              where'[q] = where[q] /\ loaded'[q] = loaded[q] /\ loads'[q] = loads[q]
    BY <1>1, <1>8 DEF Store, Moves, CacheInv, handle
  <2>2. IsMap(loaded[p]) /\ IsMap(countryMap)' /\ Cardinality(countryMap') <= 1
    BY <2>1, OneMap DEF CacheInv, IsMap
  <2>3. CacheTypeOK'
    <3>1. \A map \in countryMap' : \E f \in served' : map = Export[f].countries
      BY <2>1, <2>2 DEF IsMap
    <3>2. \A q \in Callers : (where'[q] = "store") = (loaded'[q] # {})
      BY <1>1, <2>1
    <3>3. QED
      BY <1>1, <1>3, <2>1, <2>2, <3>1, <3>2 DEF CacheTypeOK
  <2>4. NamesAreServed'
    BY <2>1 DEF CacheInv, NamesAreServed
  <2>5. \A q \in Callers : IsMap(loaded[q])'
    BY <2>1 DEF CacheInv, IsMap
  <2>6. \A q \in Callers :
          /\ loads'[q] > 0 => countryMap' # {}
          /\ where'[q] \in {"load", "store"} => loads'[q] = 0
          /\ where'[q] = "read" => countryMap' # {}
          /\ where'[q] # "returned" => outcome'[q] = Failed
          /\ loads'[q] <= 1
    BY <2>1 DEF CacheInv, ReadOncePerCaller
  <2>7. loaded' = [q \in Callers |-> loaded'[q]] /\ outcome' = [q \in Callers |-> outcome'[q]]
    BY <1>8 DEF Store, CacheInv
  <2>8. QED
    BY <2>2, <2>3, <2>4, <2>5, <2>6, <2>7 DEF CacheInv, ReadOncePerCaller
<1>9. CASE Read(p)
  <2> DEFINE name == NameIn(CHOOSE map \in countryMap : TRUE, id[p])
  <2>1. name # Failed /\ \E f \in served : name = NameIn(Export[f].countries, id[p])
    BY <1>1, <1>9, NameServed DEF Read, Moves, CacheInv
  <2>2. /\ where[p] = "read" /\ where'[p] = "returned" /\ outcome'[p] = name
        /\ UNCHANGED <<countryMap, id, loaded, loads, file, served, reloads, failures>>
        /\ outcome' = [q \in Callers |-> outcome'[q]]
        /\ \A q \in Callers \ {p} : where'[q] = where[q] /\ outcome'[q] = outcome[q]
    BY <1>1, <1>9 DEF Read, Moves, CacheInv, handle
  <2> HIDE DEF name
  <2>3. NamesAreServed'
    BY <2>1, <2>2 DEF CacheInv, NamesAreServed
  <2>4. CacheTypeOK'
    BY <1>1, <1>3, <2>2 DEF TypeOK, CacheTypeOK
  <2>5. IsMap(countryMap)' /\ \A q \in Callers : IsMap(loaded[q])'
    BY <2>2 DEF CacheInv, IsMap
  <2>6. \A q \in Callers :
          /\ loads'[q] > 0 => countryMap' # {}
          /\ where'[q] \in {"load", "store"} => loads'[q] = 0
          /\ where'[q] = "read" => countryMap' # {}
          /\ where'[q] # "returned" => outcome'[q] = Failed
          /\ loads'[q] <= 1
    BY <2>2 DEF CacheInv, ReadOncePerCaller
  <2>7. loaded' = [q \in Callers |-> loaded'[q]]
    BY <2>2 DEF CacheInv
  <2>8. QED
    BY <2>2, <2>3, <2>4, <2>5, <2>6, <2>7 DEF CacheInv, ReadOncePerCaller
<1>10. CASE Return(p)
  BY <1>1, <1>3, <1>10
     DEF Return, Moves, CacheTypeOK, CacheInv, IsMap, ReadOncePerCaller, NamesAreServed,
         handle, TypeOK
<1>11. QED
  BY <1>4, <1>5, <1>6, <1>7, <1>8, <1>9, <1>10 DEF CacheStep

-----------------------------------------------------------------------------
(* What the lookup finds are versions.                                       *)
LEMMA LookupType ==
    ASSUME NEW f \in Files, NEW name \in DOMAIN TypeOf, NEW requirement
    PROVE  Lookup(f, name, requirement) \in SUBSET Nat
BY FallbackAssumption DEF FallbackAssumption, Lookup

(* The arguments of the call and the file it reads.                          *)
LEMMA CallFacts ==
    ASSUME TypeOK
    PROVE  /\ call.purl \in PurlType /\ call.purl.name \in DOMAIN TypeOf
           /\ call.looked \in BOOLEAN /\ file \in Files /\ file \in served
           /\ Lookup(file, call.purl.name, call.requirement) \in SUBSET Nat
           /\ DOMAIN Zero = {"name", "requirement", "data", "marked", "err"}
<1>1. call \in Calls /\ file \in Files /\ file \in served
  BY DEF TypeOK, FallbackTypeOK, HandleTypeOK
<1>2. call.purl \in PurlType /\ call.purl.name \in DOMAIN TypeOf /\ call.looked \in BOOLEAN
  BY <1>1, FallbackAssumption DEF FallbackAssumption
<1>3. QED
  BY <1>1, <1>2, LookupType DEF Zero, Unmarked

(* The first attempt with data is the best, and an answer without data is the *)
(* best when no attempt has any.                                             *)
LEMMA FirstIsBest ==
    ASSUME NEW attempts, DOMAIN attempts = 1..3, NEW f, NEW a, NEW i \in 1..3,
           \A j \in 1..(i - 1) : \A t \in attempts[j] : Lookup(f, t[1], t[2]) = {},
           <<a.name, a.requirement>> \in attempts[i],
           Lookup(f, a.name, a.requirement) # {}, a.data # {}
    PROVE  Best(attempts, f, a)
<1> DEFINE has(j) == {t \in attempts[j] : Lookup(f, t[1], t[2]) # {}}
           good == {j \in DOMAIN attempts : has(j) # {}}
           mine == <<a.name, a.requirement>>
<1>1. mine[1] = a.name /\ mine[2] = a.requirement
  OBVIOUS
<1>2. mine \in has(i)
  BY <1>1
<1>3. i \in good
  BY <1>2
<1>4. \A j \in good : j \in 1..3 /\ has(j) # {}
  OBVIOUS
<1>5. \A j \in 1..(i - 1) : has(j) = {}
  OBVIOUS
<1> HIDE DEF has, good, mine
<1>6. \A j \in good : i <= j
  BY <1>4, <1>5
<1>7. a.data # {} /\ \E k \in good : (\A j \in good : k <= j) /\ mine \in has(k)
  BY <1>2, <1>3, <1>6
<1>8. QED
  BY <1>3, <1>7 DEF Best, has, good, mine

LEMMA NothingIsBest ==
    ASSUME NEW attempts, DOMAIN attempts = 1..3, NEW f, NEW a, a.data = {},
           \A j \in 1..3 : \A t \in attempts[j] : Lookup(f, t[1], t[2]) = {}
    PROVE  Best(attempts, f, a)
BY DEF Best

(* The attempts that go through one source.                                  *)
LEMMA AttemptsVia ==
    ASSUME NEW sources
    PROVE  LET attempts == Attempts(sources)
           IN  /\ DOMAIN attempts = 1..3
               /\ attempts[1] = IF call.looked THEN {} ELSE {<<call.purl.name, call.requirement>>}
               /\ (sources = {} \/ \A r \in sources : SameString(r.purl)) =>
                     attempts[2] = {} /\ attempts[3] = {}
               /\ \A r : sources = {r} /\ ~SameString(r.purl) =>
                     /\ attempts[2] = {<<r.purl.name, call.requirement>>}
                     /\ attempts[3] = IF TypeOf[r.purl.name] # TypeOf[call.purl.name]
                                      THEN {<<r.purl.name, NoRequirement>>} ELSE {}
<1> DEFINE others == {r.purl.name : r \in {s \in sources : ~SameString(s.purl)}}
           foreign == {name \in others : TypeOf[name] # TypeOf[call.purl.name]}
           second == {<<name, call.requirement>> : name \in others}
           third == {<<name, NoRequirement>> : name \in foreign}
<1>1. Attempts(sources) =
        <<IF call.looked THEN {} ELSE {<<call.purl.name, call.requirement>>}, second, third>>
  BY DEF Attempts
<1>2. (sources = {} \/ \A r \in sources : SameString(r.purl)) => second = {} /\ third = {}
  OBVIOUS
<1>3. ASSUME NEW r, sources = {r}, ~SameString(r.purl)
      PROVE  /\ second = {<<r.purl.name, call.requirement>>}
             /\ third = IF TypeOf[r.purl.name] # TypeOf[call.purl.name]
                        THEN {<<r.purl.name, NoRequirement>>} ELSE {}
  <2>1. others = {r.purl.name}
    BY <1>3
  <2>2. foreign = IF TypeOf[r.purl.name] # TypeOf[call.purl.name] THEN {r.purl.name} ELSE {}
    BY <2>1
  <2> HIDE DEF others, foreign
  <2>3. QED
    BY <2>1, <2>2
<1> HIDE DEF second, third
<1>4. QED
  BY <1>1, <1>2, <1>3

-----------------------------------------------------------------------------
(* When nothing was missed, the purl itself has no data once its lookup is    *)
(* over.                                                                      *)
LEMMA OwnMissed ==
    ASSUME TypeOK, FallbackInv, at \notin {"own", "returned"}, failures = 0, served = {file},
           NEW t \in IF call.looked THEN {} ELSE {<<call.purl.name, call.requirement>>}
    PROVE  Lookup(file, t[1], t[2]) = {}
<1>1. ~call.looked /\ t = <<call.purl.name, call.requirement>>
  BY CallFacts
<1>2. MayMiss(call.purl.name, call.requirement)
  BY <1>1 DEF FallbackInv
<1>3. Lookup(file, call.purl.name, call.requirement) = {}
  BY <1>2 DEF MayMiss
<1>4. QED
  BY <1>1, <1>3

(* Giving up: the call returns what its own lookup did.                      *)
LEMMA GivesOwn ==
    ASSUME TypeOK, FallbackInv, at \notin {"own", "returned"}, Returns(own),
           UNCHANGED <<call, own>>, Fail(1) \/ UNCHANGED handle,
           failures = 0 /\ served = {file} /\ UNCHANGED handle =>
              \/ Linked = {}
              \/ \E r \in Linked : \A j \in 2..3 : \A t \in Attempts({r})[j] :
                    Lookup(file, t[1], t[2]) = {}
    PROVE  RecoveryIsHonest' /\ RecoversWhatItCan'
<1>1. at' = "returned" /\ answer' = own /\ own.data = {} /\ ~own.marked
  BY DEF Returns, FallbackInv
<1>2. RecoveryIsHonest'
  BY <1>1 DEF RecoveryIsHonest
<1>3. RecoversWhatItCan'
  <2>1. SUFFICES ASSUME failures' = 0, served' = {file'} PROVE RecoversWhatItCan'
    BY DEF RecoversWhatItCan
  <2>2. failures = 0 /\ served = {file} /\ UNCHANGED handle
    BY <2>1, HandleGrows DEF HandleMoves, TypeOK, handle
  <2>3. Linked' = Linked /\ \A sources : Attempts(sources)' = Attempts(sources)
    BY <2>2 DEF Linked, Attempts, SameString, handle
  <2>4. ASSUME NEW sources,
               \A j \in 2..3 : \A t \in Attempts(sources)[j] : Lookup(file, t[1], t[2]) = {}
        PROVE  Best(Attempts(sources)', file', answer')
    <3>1. \A t \in Attempts(sources)[1] : Lookup(file, t[1], t[2]) = {}
      BY <2>2, AttemptsVia, OwnMissed
    <3>2. \A j \in 1..3 : \A t \in Attempts(sources)[j] : Lookup(file, t[1], t[2]) = {}
      <4>1. \A j \in 1..3 : j = 1 \/ j \in 2..3
        OBVIOUS
      <4>2. QED
        BY <2>4, <3>1, <4>1
    <3>3. DOMAIN Attempts(sources) = 1..3
      BY AttemptsVia
    <3>4. Best(Attempts(sources), file, own)
      BY <1>1, <3>2, <3>3, NothingIsBest
    <3>5. QED
      BY <1>1, <2>2, <2>3, <3>4 DEF handle
  <2>5. \A j \in 2..3 : Attempts({})[j] = {}
    <3>1. \A j \in 2..3 : j = 2 \/ j = 3
      OBVIOUS
    <3>2. QED
      BY <3>1, AttemptsVia
  <2>6. CASE Linked = {}
    BY <2>3, <2>4, <2>5, <2>6 DEF RecoversWhatItCan
  <2>7. ASSUME NEW r \in Linked,
               \A j \in 2..3 : \A t \in Attempts({r})[j] : Lookup(file, t[1], t[2]) = {}
        PROVE  RecoversWhatItCan'
    BY <2>3, <2>4, <2>7 DEF RecoversWhatItCan
  <2>8. QED
    BY <2>2, <2>6, <2>7
<1>4. QED
  BY <1>2, <1>3

-----------------------------------------------------------------------------
IsAnswer(a) ==
    /\ a.name \in DOMAIN TypeOf \union {"none"} /\ a.data \subseteq Nat
    /\ a.marked \in BOOLEAN /\ a.err \in BOOLEAN
    /\ ~(a.err /\ a.marked)

LEMMA AnswersTyped ==
    ASSUME NEW name \in DOMAIN TypeOf, NEW requirement, NEW data \in SUBSET Nat, NEW err \in BOOLEAN
    PROVE  /\ IsAnswer(Unmarked(name, requirement, data, err))
           /\ IsAnswer(MarkedResult(name, requirement, data))
BY DEF IsAnswer, Unmarked, MarkedResult

(* A step that returns, and one that goes on.                                *)
LEMMA Returned ==
    ASSUME TypeOK, at' = "returned", call' = call, IsAnswer(own)', IsAnswer(answer)',
           ~own'.marked, RecoveryIsHonest', RecoversWhatItCan'
    PROVE  FallbackTypeOK' /\ FallbackInv'
<1>1. FallbackTypeOK'
  BY DEF TypeOK, FallbackTypeOK, IsAnswer
<1>2. QED
  BY <1>1 DEF FallbackInv

LEMMA LookupOwnStep ==
    ASSUME TypeOK, FallbackInv, LookupOwn
    PROVE  FallbackTypeOK' /\ FallbackInv'
<1> DEFINE name == call.purl.name
           requirement == call.requirement
           data == Lookup(file, name, requirement)
           found == Unmarked(name, requirement, data, FALSE)
<1>1. /\ found.name = name /\ found.requirement = requirement /\ found.data = data
      /\ ~found.marked /\ ~found.err
  BY DEF Unmarked
<1>2. IsAnswer(found) /\ IsAnswer(answer) /\ name \in DOMAIN TypeOf /\ file \in served
  BY AnswersTyped, CallFacts DEF TypeOK, FallbackTypeOK, IsAnswer
<1>3. /\ at = "own" /\ own' = found /\ UNCHANGED <<call, link, source, file, served, reloads, failures>>
      /\ IF found.data # {} THEN Returns(found) ELSE Goes("sourceFor")
  BY DEF LookupOwn, handle
<1> HIDE DEF found
<1>4. CASE data # {}
  <2>1. at' = "returned" /\ answer' = found
    BY <1>1, <1>3, <1>4 DEF Returns
  <2>2. RecoveryIsHonest'
    BY <1>1, <1>2, <1>3, <2>1 DEF RecoveryIsHonest
  <2>3. RecoversWhatItCan'
    <3>1. ASSUME NEW sources
          PROVE  Best(Attempts(sources), file, found)
      <4>1. /\ DOMAIN Attempts(sources) = 1..3
            /\ Attempts(sources)[1] = {<<name, requirement>>}
        BY <1>3, AttemptsVia DEF FallbackInv
      <4>2. /\ <<found.name, found.requirement>> \in Attempts(sources)[1]
            /\ Lookup(file, found.name, found.requirement) # {} /\ found.data # {}
        BY <1>1, <1>4, <4>1
      <4>3. 1 \in 1..3 /\ 1..(1 - 1) = {}
        OBVIOUS
      <4>4. QED
        BY <4>1, <4>2, <4>3, FirstIsBest
    <3>2. Linked' = Linked /\ \A sources : Attempts(sources)' = Attempts(sources)
      BY <1>3 DEF Linked, Attempts, SameString
    <3>3. QED
      BY <1>3, <2>1, <3>1, <3>2 DEF RecoversWhatItCan
  <2>4. QED
    BY <1>1, <1>2, <1>3, <2>1, <2>2, <2>3, Returned
<1>5. CASE data = {}
  <2>1. at' = "sourceFor" /\ answer' = answer
    BY <1>1, <1>3, <1>5 DEF Goes
  <2>2. MayMiss(call.purl.name, call.requirement)'
    BY <1>2, <1>3, <1>5 DEF MayMiss
  <2>3. FallbackTypeOK'
    BY <1>2, <1>3, <2>1 DEF TypeOK, FallbackTypeOK, IsAnswer
  <2>4. QED
    BY <1>1, <1>3, <1>5, <2>1, <2>2, <2>3 DEF FallbackInv, RecoveryIsHonest, RecoversWhatItCan
<1>6. QED
  BY <1>4, <1>5

LEMMA OwnFailsStep ==
    ASSUME TypeOK, FallbackInv, OwnFails
    PROVE  FallbackTypeOK' /\ FallbackInv'
<1> DEFINE none == Unmarked(call.purl.name, call.requirement, {}, TRUE)
<1>1. IsAnswer(none) /\ ~none.marked /\ none.data = {}
  BY CallFacts, AnswersTyped DEF Unmarked
<1>2. at' = "sourceFor" /\ own' = none /\ UNCHANGED <<call, link, source, answer>>
  BY DEF OwnFails, Goes
<1>3. failures' > 0
  BY DEF OwnFails, Fail, TypeOK, HandleTypeOK
<1> HIDE DEF none
<1>4. FallbackTypeOK'
  BY <1>1, <1>2 DEF TypeOK, FallbackTypeOK, IsAnswer
<1>5. QED
  BY <1>1, <1>2, <1>3, <1>4 DEF FallbackInv, MayMiss, RecoveryIsHonest, RecoversWhatItCan

LEMMA IdentifyStep ==
    ASSUME TypeOK, FallbackInv, IdentifyRequested
    PROVE  FallbackTypeOK' /\ FallbackInv'
<1> DEFINE keys == CandidateKeys(call.purl)
           hit == PickKey(keys, Matching(keys, Export[file].rows))
           known == call.sourceFor /\ call.purl.kind = "purl" /\ hit # NoRow
<1>1. hit = Keyed(file)
  BY CallFacts, CandidateKeysType, PicksAmongMatching DEF Keyed
<1>2. /\ at = "sourceFor" /\ link' = (IF known THEN hit ELSE NoRow)
      /\ IF known THEN Goes("versions") ELSE Returns(own)
      /\ UNCHANGED <<call, own, source, file, served, reloads, failures>>
  BY DEF IdentifyRequested, handle
<1>3. IsAnswer(own) /\ IsAnswer(answer) /\ ~own.marked /\ file \in served
  BY CallFacts DEF TypeOK, FallbackTypeOK, FallbackInv, IsAnswer
<1> HIDE DEF hit
<1>4. CASE known
  <2>1. at' = "versions" /\ link' = Keyed(file) /\ answer' = answer
    BY <1>1, <1>2, <1>4 DEF Goes
  <2>2. (\E f \in served : link = Keyed(f))'
    BY <1>2, <1>3, <2>1 DEF Keyed
  <2>3. FallbackTypeOK'
    BY <1>2, <1>3, <2>1 DEF TypeOK, FallbackTypeOK, IsAnswer
  <2>4. MayMiss(call.purl.name, call.requirement) => MayMiss(call.purl.name, call.requirement)'
    BY <1>2 DEF MayMiss
  <2>5. QED
    BY <1>2, <1>4, <2>1, <2>2, <2>3, <2>4 DEF FallbackInv, RecoveryIsHonest, RecoversWhatItCan
<1>5. CASE ~known
  <2>1. Linked = {}
    <3>1. HasSource(NoRow) = FALSE
      BY DEF HasSource, NoRow
    <3>2. QED
      BY <1>1, <1>5, <3>1 DEF Linked, Keyed
  <2>2. Returns(own) /\ UNCHANGED handle
    BY <1>2, <1>5 DEF handle
  <2>3. RecoveryIsHonest' /\ RecoversWhatItCan'
    BY <1>2, <2>1, <2>2, GivesOwn
  <2>4. QED
    BY <1>2, <1>3, <2>2, <2>3, Returned DEF Returns
<1>6. QED
  BY <1>4, <1>5

LEMMA VersionsStep ==
    ASSUME TypeOK, FallbackInv, ReadItsVersions
    PROVE  FallbackTypeOK' /\ FallbackInv'
<1>1. /\ at = "versions" /\ IF HasSource(link) THEN Goes("linked") ELSE Returns(own)
      /\ UNCHANGED <<call, own, link, source, file, served, reloads, failures>>
  BY DEF ReadItsVersions, handle
<1>2. IsAnswer(own) /\ IsAnswer(answer) /\ ~own.marked
  BY DEF TypeOK, FallbackTypeOK, FallbackInv, IsAnswer
<1>3. CASE HasSource(link)
  <2>1. at' = "linked" /\ answer' = answer
    BY <1>1, <1>3 DEF Goes
  <2>2. FallbackTypeOK'
    BY <1>1, <1>2, <2>1 DEF TypeOK, FallbackTypeOK, IsAnswer
  <2>3. /\ MayMiss(call.purl.name, call.requirement) => MayMiss(call.purl.name, call.requirement)'
        /\ (\E f \in served : link = Keyed(f)) => (\E f \in served : link = Keyed(f))'
    BY <1>1 DEF MayMiss, Keyed
  <2>4. QED
    BY <1>1, <1>3, <2>1, <2>2, <2>3 DEF FallbackInv, RecoveryIsHonest, RecoversWhatItCan
<1>4. CASE ~HasSource(link)
  <2>1. Returns(own) /\ UNCHANGED handle
    BY <1>1, <1>4 DEF handle
  <2>2. served = {file} => Linked = {}
    BY <1>1, <1>4 DEF FallbackInv, Linked, Keyed
  <2>3. RecoveryIsHonest' /\ RecoversWhatItCan'
    BY <1>1, <2>1, <2>2, GivesOwn
  <2>4. QED
    BY <1>1, <1>2, <2>1, <2>3, Returned DEF Returns
<1>5. QED
  BY <1>3, <1>4

LEMMA FollowStep ==
    ASSUME TypeOK, FallbackInv, FollowSource
    PROVE  FallbackTypeOK' /\ FallbackInv'
<1>1. at = "linked" /\ UNCHANGED <<call, own, link, file, served, reloads, failures>>
  BY DEF FollowSource, handle
<1>2. IsAnswer(own) /\ IsAnswer(answer) /\ ~own.marked /\ file \in served
  BY CallFacts DEF TypeOK, FallbackTypeOK, FallbackInv, IsAnswer
<1>3. served = {file} =>
        Linked = {r \in Export[file].rows : r.purl_id = link.source}
  BY <1>1 DEF FallbackInv, Linked, Keyed
<1>4. ASSUME NEW r \in Export[file].rows, r.purl_id = link.source, SameString(r.purl), Returns(own)
      PROVE  RecoveryIsHonest' /\ RecoversWhatItCan'
  <2>1. \A j \in 2..3 : Attempts({r})[j] = {}
    <3>1. \A j \in 2..3 : j = 2 \/ j = 3
      OBVIOUS
    <3>2. \A s \in {r} : SameString(s.purl)
      BY <1>4
    <3>3. QED
      BY <3>1, <3>2, AttemptsVia
  <2>2. UNCHANGED handle /\ UNCHANGED <<call, own>>
    BY <1>1 DEF handle
  <2>3. QED
    BY <1>1, <1>3, <1>4, <2>1, <2>2, GivesOwn
<1>5. ASSUME NEW r \in Export[file].rows, r.purl_id = link.source, source' = r,
             ~SameString(r.purl), Goes("hop")
      PROVE  FallbackTypeOK' /\ FallbackInv'
  <2>1. at' = "hop" /\ answer' = answer
    BY <1>5 DEF Goes
  <2>2. HasSource(link)' /\ source'.purl_id = link'.source
    BY <1>1, <1>5 DEF FallbackInv
  <2>3. FallbackTypeOK'
    BY <1>1, <1>2, <2>1, <2>2 DEF TypeOK, FallbackTypeOK, IsAnswer
  <2>4. /\ MayMiss(call.purl.name, call.requirement) => MayMiss(call.purl.name, call.requirement)'
        /\ (\E f \in served : link = Keyed(f)) => (\E f \in served : link = Keyed(f))'
        /\ (\E g \in served : source \in Export[g].rows)'
        /\ ~SameString(source.purl)'
    BY <1>1, <1>2, <1>5 DEF MayMiss, Keyed, SameString
  <2>5. QED
    BY <1>1, <2>1, <2>2, <2>3, <2>4 DEF FallbackInv, RecoveryIsHonest, RecoversWhatItCan
<1>6. ASSUME \A r \in Export[file].rows : r.purl_id # link.source, Returns(own)
      PROVE  RecoveryIsHonest' /\ RecoversWhatItCan'
  <2>1. served = {file} => Linked = {}
    BY <1>3, <1>6
  <2>2. UNCHANGED handle /\ UNCHANGED <<call, own>>
    BY <1>1 DEF handle
  <2>3. QED
    BY <1>1, <1>6, <2>1, <2>2, GivesOwn
<1>7. ASSUME Returns(own), RecoveryIsHonest', RecoversWhatItCan'
      PROVE  FallbackTypeOK' /\ FallbackInv'
  BY <1>1, <1>2, <1>7, Returned DEF Returns
<1>8. QED
  BY <1>4, <1>5, <1>6, <1>7 DEF FollowSource

LEMMA SourceForFailsStep ==
    ASSUME TypeOK, FallbackInv, SourceForFails
    PROVE  FallbackTypeOK' /\ FallbackInv'
<1>1. /\ at \in {"sourceFor", "versions", "linked"} /\ Fail(1) /\ Returns(own)
      /\ UNCHANGED <<call, own>>
  BY DEF SourceForFails
<1>2. IsAnswer(own) /\ ~own.marked /\ failures' # failures
  BY <1>1 DEF TypeOK, FallbackTypeOK, FallbackInv, IsAnswer, Fail, HandleTypeOK
<1>3. RecoveryIsHonest' /\ RecoversWhatItCan'
  BY <1>1, <1>2, GivesOwn DEF handle
<1>4. QED
  BY <1>1, <1>2, <1>3, Returned DEF Returns

-----------------------------------------------------------------------------
(* The source found: a row of a served file, of a known name.                *)
LEMMA SourceFacts ==
    ASSUME TypeOK, FallbackInv, at \in {"hop", "retry"}
    PROVE  /\ source.purl.name \in DOMAIN TypeOf /\ LinkedTo(source.purl.name)
           /\ ~SameString(source.purl) /\ call.purl.kind = "purl"
           /\ served = {file} => source \in Linked
<1>1. PICK f \in served, g \in served : link = Keyed(f) /\ source \in Export[g].rows
  BY DEF FallbackInv
<1>2. source.purl.name \in DOMAIN TypeOf
  BY <1>1, FallbackAssumption DEF FallbackAssumption, TypeOK, HandleTypeOK
<1>3. LinkedTo(source.purl.name)
  BY <1>1 DEF FallbackInv, LinkedTo, Keyed
<1>4. QED
  BY <1>1, <1>2, <1>3 DEF FallbackInv, Linked, Keyed

(* The source has data.                                                      *)
LEMMA GivesMarked ==
    ASSUME TypeOK, FallbackInv, UNCHANGED <<call, own, link, source, file, served, reloads, failures>>,
           NEW requirement, NEW data, data = Lookup(file, source.purl.name, requirement), data # {},
           \/ at = "hop" /\ requirement = call.requirement
           \/ at = "retry" /\ requirement = NoRequirement,
           Returns(MarkedResult(source.purl.name, requirement, data))
    PROVE  FallbackTypeOK' /\ FallbackInv'
<1> DEFINE name == source.purl.name
           marked == MarkedResult(name, requirement, data)
<1>1. /\ marked.name = name /\ marked.requirement = requirement /\ marked.data = data
      /\ marked.marked /\ ~marked.err
  BY DEF MarkedResult, Unmarked
<1>2. /\ name \in DOMAIN TypeOf /\ LinkedTo(name) /\ call.purl.kind = "purl"
      /\ file \in served /\ file \in Files
      /\ IsAnswer(own) /\ ~own.marked
  BY SourceFacts, CallFacts DEF TypeOK, FallbackTypeOK, FallbackInv, IsAnswer
<1>3. IsAnswer(marked)
  BY <1>2, LookupType, AnswersTyped
<1>4. at' = "returned" /\ answer' = marked
  BY DEF Returns
<1>5. ASSUME requirement # call.requirement
      PROVE  /\ TypeOf[name] # TypeOf[call.purl.name]
             /\ MayMiss(name, call.requirement)
  BY <1>5 DEF FallbackInv, Retries, CrossEcosystem
<1> HIDE DEF marked
<1>6. RecoveryIsHonest'
  <2>1. LinkedTo(name)'
    BY <1>2 DEF LinkedTo
  <2>2. call.looked \/ MayMiss(call.purl.name, call.requirement)'
    BY DEF FallbackInv, MayMiss
  <2>3. requirement # call.requirement => MayMiss(name, call.requirement)'
    BY <1>5 DEF MayMiss
  <2>4. \E f \in served' : data = Lookup(f, name, requirement)
    BY <1>2
  <2>5. QED
    BY <1>1, <1>4, <1>5, <2>1, <2>2, <2>3, <2>4 DEF RecoveryIsHonest
<1>7. RecoversWhatItCan'
  <2>1. SUFFICES ASSUME failures = 0, served = {file} PROVE RecoversWhatItCan'
    BY DEF RecoversWhatItCan
  <2>2. source \in Linked /\ ~SameString(source.purl)
    BY <2>1, SourceFacts
  <2> DEFINE attempts == Attempts({source})
  <2>3. /\ DOMAIN attempts = 1..3
        /\ attempts[1] = IF call.looked THEN {} ELSE {<<call.purl.name, call.requirement>>}
        /\ attempts[2] = {<<name, call.requirement>>}
        /\ attempts[3] = IF TypeOf[name] # TypeOf[call.purl.name]
                         THEN {<<name, NoRequirement>>} ELSE {}
    BY <2>2, AttemptsVia
  <2>4. \A t \in attempts[1] : Lookup(file, t[1], t[2]) = {}
    BY <2>1, <2>3, OwnMissed
  <2> HIDE DEF attempts
  <2>5. Lookup(file, marked.name, marked.requirement) # {} /\ marked.data # {}
    BY <1>1
  <2>6. Best(attempts, file, marked)
    <3>1. CASE at = "hop" /\ requirement = call.requirement
      <4>1. <<marked.name, marked.requirement>> \in attempts[2]
        BY <1>1, <2>3, <3>1
      <4>2. 2 \in 1..3 /\ \A j \in 1..(2 - 1) : j = 1
        OBVIOUS
      <4>3. QED
        BY <2>3, <2>4, <2>5, <4>1, <4>2, FirstIsBest
    <3>2. CASE at = "retry" /\ requirement = NoRequirement
      <4>1. /\ TypeOf[name] # TypeOf[call.purl.name] /\ MayMiss(name, call.requirement)
        BY <3>2 DEF FallbackInv, Retries, CrossEcosystem
      <4>2. <<marked.name, marked.requirement>> \in attempts[3]
        BY <1>1, <2>3, <3>2, <4>1
      <4>3. \A t \in attempts[2] : Lookup(file, t[1], t[2]) = {}
        BY <2>1, <2>3, <4>1 DEF MayMiss
      <4>4. 3 \in 1..3 /\ \A j \in 1..(3 - 1) : j = 1 \/ j = 2
        OBVIOUS
      <4>5. QED
        BY <2>3, <2>4, <2>5, <4>2, <4>3, <4>4, FirstIsBest
    <3>3. QED
      BY <3>1, <3>2
  <2>7. Linked' = Linked /\ attempts' = attempts
    BY DEF Linked, Attempts, SameString, attempts
  <2>8. QED
    BY <1>4, <2>2, <2>6, <2>7 DEF RecoversWhatItCan, attempts
<1>8. QED
  BY <1>2, <1>3, <1>4, <1>6, <1>7, Returned

(* The source has nothing under the requirement, or its query failed.        *)
LEMMA HopMisses ==
    ASSUME TypeOK, FallbackInv, at = "hop", AfterHop, UNCHANGED <<call, own, link, source>>,
           \/ Fail(1)
           \/ UNCHANGED handle /\ Lookup(file, source.purl.name, call.requirement) = {}
    PROVE  FallbackTypeOK' /\ FallbackInv'
<1>1. /\ served \subseteq served' /\ failures <= failures'
      /\ failures \in Nat /\ failures' \in Nat
      /\ MayMiss(source.purl.name, call.requirement)'
  <2>1. served \subseteq served' /\ failures <= failures' /\ failures \in Nat /\ failures' \in Nat
    BY HandleGrows DEF HandleMoves, TypeOK
  <2>2. CASE Fail(1)
    BY <2>1, <2>2 DEF Fail, MayMiss
  <2>3. CASE UNCHANGED handle /\ Lookup(file, source.purl.name, call.requirement) = {}
    <3>1. file \in served' /\ source' = source /\ call' = call
      BY <2>3, CallFacts DEF handle
    <3>2. \E f \in served' : Lookup(f, source'.purl.name, call'.requirement) = {}
      BY <2>3, <3>1
    <3>3. QED
      BY <2>1, <3>2 DEF MayMiss
  <2>4. QED
    BY <2>1, <2>2, <2>3
<1>2. IsAnswer(own) /\ IsAnswer(answer) /\ ~own.marked
  BY DEF TypeOK, FallbackTypeOK, FallbackInv, IsAnswer
<1>3. CASE Retries
  <2>1. at' = "retry" /\ answer' = answer
    BY <1>3 DEF AfterHop, Goes
  <2>2. HasSource(link)' /\ (source.purl_id = link.source)'
    BY DEF FallbackInv
  <2>3. FallbackTypeOK'
    BY <1>2, <2>1, <2>2 DEF TypeOK, FallbackTypeOK, IsAnswer
  <2>4. /\ MayMiss(call.purl.name, call.requirement) => MayMiss(call.purl.name, call.requirement)'
        /\ (\E f \in served : link = Keyed(f)) => (\E f \in served : link = Keyed(f))'
        /\ (\E g \in served : source \in Export[g].rows) => (\E g \in served : source \in Export[g].rows)'
        /\ ~SameString(source.purl) => ~SameString(source.purl)'
        /\ Retries'
    BY <1>1, <1>3 DEF MayMiss, Keyed, SameString, Retries, CrossEcosystem
  <2>5. QED
    BY <1>1, <2>1, <2>2, <2>3, <2>4 DEF FallbackInv, RecoveryIsHonest, RecoversWhatItCan
<1>4. CASE ~Retries
  <2>1. Returns(own)
    BY <1>4 DEF AfterHop
  <2>2. ASSUME failures = 0, served = {file}, UNCHANGED handle
        PROVE  /\ source \in Linked
               /\ \A j \in 2..3 : \A t \in Attempts({source})[j] : Lookup(file, t[1], t[2]) = {}
    <3>1. Lookup(file, source.purl.name, call.requirement) = {}
      BY <2>2 DEF Fail, handle
    <3>2. source \in Linked /\ ~SameString(source.purl) /\ call.purl.kind = "purl"
      BY <2>2, SourceFacts
    <3>3. TypeOf[source.purl.name] # TypeOf[call.purl.name] => call.requirement = NoRequirement
      BY <1>4, <3>2 DEF Retries, CrossEcosystem
    <3>4. /\ Attempts({source})[2] = {<<source.purl.name, call.requirement>>}
          /\ Attempts({source})[3] = IF TypeOf[source.purl.name] # TypeOf[call.purl.name]
                                     THEN {<<source.purl.name, NoRequirement>>} ELSE {}
      BY <3>2, AttemptsVia
    <3>5. \A j \in 2..3 : j = 2 \/ j = 3
      OBVIOUS
    <3>6. QED
      BY <3>1, <3>2, <3>3, <3>4, <3>5
  <2>3. Fail(1) \/ UNCHANGED handle
    OBVIOUS
  <2>4. RecoveryIsHonest' /\ RecoversWhatItCan'
    BY <2>1, <2>2, <2>3, GivesOwn
  <2>5. QED
    BY <1>2, <2>1, <2>4, Returned DEF Returns
<1>5. QED
  BY <1>3, <1>4

LEMMA HopAgainMisses ==
    ASSUME TypeOK, FallbackInv, at = "retry", Returns(own), UNCHANGED <<call, own, link, source>>,
           \/ Fail(1)
           \/ UNCHANGED handle /\ Lookup(file, source.purl.name, NoRequirement) = {}
    PROVE  FallbackTypeOK' /\ FallbackInv'
<1>1. ASSUME failures = 0, served = {file}, UNCHANGED handle
      PROVE  /\ source \in Linked
             /\ \A j \in 2..3 : \A t \in Attempts({source})[j] : Lookup(file, t[1], t[2]) = {}
  <2>1. /\ Lookup(file, source.purl.name, NoRequirement) = {}
        /\ Lookup(file, source.purl.name, call.requirement) = {}
    BY <1>1 DEF Fail, handle, FallbackInv, MayMiss
  <2>2. source \in Linked /\ ~SameString(source.purl)
    BY <1>1, SourceFacts
  <2>3. /\ Attempts({source})[2] = {<<source.purl.name, call.requirement>>}
        /\ Attempts({source})[3] \subseteq {<<source.purl.name, NoRequirement>>}
    BY <2>2, AttemptsVia
  <2>4. \A j \in 2..3 : j = 2 \/ j = 3
    OBVIOUS
  <2>5. QED
    BY <2>1, <2>2, <2>3, <2>4
<1>2. Fail(1) \/ UNCHANGED handle
  OBVIOUS
<1>3. RecoveryIsHonest' /\ RecoversWhatItCan'
  BY <1>1, <1>2, GivesOwn
<1>4. QED
  BY <1>3, Returned DEF Returns, TypeOK, FallbackTypeOK, FallbackInv, IsAnswer

LEMMA FallbackSteps ==
    ASSUME TypeOK, FallbackInv, FallbackStep
    PROVE  FallbackTypeOK' /\ FallbackInv'
<1>1. CASE Hop
  <2> DEFINE name == source.purl.name
             data == Lookup(file, name, call.requirement)
  <2>1. /\ at = "hop" /\ UNCHANGED <<call, own, link, source, file, served, reloads, failures>>
        /\ IF data # {} THEN Returns(MarkedResult(name, call.requirement, data)) ELSE AfterHop
    BY <1>1 DEF Hop, HopTo, handle
  <2>2. CASE data # {}
    BY <2>1, <2>2, GivesMarked
  <2>3. CASE data = {}
    BY <2>1, <2>3, HopMisses DEF handle
  <2>4. QED
    BY <2>2, <2>3
<1>2. CASE HopFails
  BY <1>2, HopMisses DEF HopFails
<1>3. CASE HopAgain
  <2> DEFINE name == source.purl.name
             data == Lookup(file, name, NoRequirement)
  <2>1. /\ at = "retry" /\ UNCHANGED <<call, own, link, source, file, served, reloads, failures>>
        /\ IF data # {} THEN Returns(MarkedResult(name, NoRequirement, data)) ELSE Returns(own)
    BY <1>3 DEF HopAgain, HopTo, handle
  <2>2. CASE data # {}
    BY <2>1, <2>2, GivesMarked
  <2>3. CASE data = {}
    BY <2>1, <2>3, HopAgainMisses DEF handle
  <2>4. QED
    BY <2>2, <2>3
<1>4. CASE HopAgainFails
  BY <1>4, HopAgainMisses DEF HopAgainFails
<1>5. QED
  BY <1>1, <1>2, <1>3, <1>4, LookupOwnStep, OwnFailsStep, IdentifyStep, VersionsStep, FollowStep,
     SourceForFailsStep DEF FallbackStep

-----------------------------------------------------------------------------
(* Every query of the call moves the handle as ServedFile says, and so does   *)
(* every query of the cache.                                                  *)
LEMMA QueriesMoveHandle ==
    ASSUME FallbackStep \/ \E p \in Callers : CacheStep(p) \/ \E i \in Ids : GetCountryByID(p, i)
    PROVE  HandleMoves
<1>1. CASE FallbackStep
  BY <1>1 DEF FallbackStep, LookupOwn, OwnFails, IdentifyRequested, ReadItsVersions, FollowSource,
              SourceForFails, Hop, HopFails, HopAgain, HopAgainFails, HandleMoves
<1>2. ASSUME NEW p \in Callers, CacheStep(p) \/ \E i \in Ids : GetCountryByID(p, i)
      PROVE  HandleMoves
  BY <1>2 DEF CacheStep, GetCountryByID, CheckLoaded, LoadCountries, LoadFails, Store, Read, Return,
              HandleMoves
<1>3. QED
  BY <1>1, <1>2

HelpersInv == FallbackInv /\ CacheInv

LEMMA InitHelpers ==
    ASSUME Init
    PROVE  TypeOK /\ HelpersInv
<1>1. /\ file \in Files /\ served = {file} /\ failures = 0 /\ HandleTypeOK
  BY ServedFileAssumption DEF Init, Opened, HandleTypeOK, ServedFileAssumption
<1>2. /\ call \in Calls /\ call.looked \in BOOLEAN
      /\ at = (IF call.looked THEN "sourceFor" ELSE "own")
      /\ own = Zero /\ answer = Zero
  BY FallbackAssumption DEF Init, FallbackInit, FallbackAssumption
<1>3. IsAnswer(Zero) /\ ~Zero.marked /\ Zero.data = {}
  BY DEF Zero, Unmarked, IsAnswer
<1>4. FallbackTypeOK
  BY <1>2, <1>3 DEF FallbackTypeOK, IsAnswer
<1>5. FallbackInv
  BY <1>2, <1>3 DEF FallbackInv, RecoveryIsHonest, RecoversWhatItCan
<1>6. CacheTypeOK /\ CacheInv
  BY FS_EmptySet
     DEF Init, CacheInit, CacheTypeOK, CacheInv, IsMap, ReadOncePerCaller, NamesAreServed
<1>7. QED
  BY <1>1, <1>4, <1>5, <1>6 DEF TypeOK, HelpersInv

LEMMA StepHelpers ==
    ASSUME TypeOK, HelpersInv, [Next]_vars
    PROVE  TypeOK' /\ HelpersInv'
<1>1. ASSUME HandleMoves
      PROVE  HandleTypeOK'
  BY <1>1, HandleGrows DEF TypeOK
<1>2. CASE FallbackMoves
  BY <1>1, <1>2, FallbackSteps, CacheKept, QueriesMoveHandle DEF FallbackMoves, TypeOK, HelpersInv
<1>3. ASSUME NEW p \in Callers, CacheStep(p) \/ \E i \in Ids : GetCountryByID(p, i),
             UNCHANGED fallback
      PROVE  TypeOK' /\ HelpersInv'
  BY <1>1, <1>3, CallerSteps, CallKept, QueriesMoveHandle DEF TypeOK, HelpersInv
<1>4. CASE Reload /\ UNCHANGED <<fallback, cache>>
  BY <1>1, <1>4, CallKept, CacheKept DEF HandleMoves, TypeOK, HelpersInv, fallback, cache
<1>5. CASE UNCHANGED vars
  BY <1>1, <1>5, CallKept, CacheKept DEF HandleMoves, TypeOK, HelpersInv, vars, fallback, cache
<1>6. QED
  BY <1>2, <1>3, <1>4, <1>5 DEF Next, CacheMoves

(* The inductive invariant of both helpers, with their types.                *)
THEOREM InvariantHolds == Spec => [](TypeOK /\ HelpersInv)
BY InitHelpers, StepHelpers, PTL DEF Spec

(* Every variable keeps its type; in particular countryMap is never a mixture *)
(* of two tables, whichever first callers race (countries.go:72-84), and an   *)
(* error is never marked as recovered.                                       *)
THEOREM TypeCorrect == Spec => []TypeOK
BY InvariantHolds, PTL

(* Whatever is recovered is marked, is the data of the source the purl links  *)
(* to, and is returned only when the purl had none; the requirement is dropped *)
(* only across ecosystems (fallback.go:53-125), for any calls and exports.     *)
THEOREM WhatIsRecoveredIsHonest == Spec => []RecoveryIsHonest
BY InvariantHolds, PTL DEF HelpersInv, FallbackInv

(* With one file served and every query answered, the best attempt that has   *)
(* data is the one returned, and there is an answer if any attempt has data.  *)
THEOREM WhatCanBeRecoveredIs == Spec => []RecoversWhatItCan
BY InvariantHolds, PTL DEF HelpersInv, FallbackInv

(* A country is answered by the name a served file gives it, or not at all    *)
(* when the table could not be read (countries.go:52-70).                    *)
THEOREM CountriesAreServed == Spec => []NamesAreServed
BY InvariantHolds, PTL DEF HelpersInv, CacheInv

(* However many goroutines race to be first, none loads the table twice       *)
(* (countries.go:48-50).                                                     *)
THEOREM CountriesAreReadOnce == Spec => []ReadOncePerCaller
BY InvariantHolds, PTL DEF HelpersInv, CacheInv
=============================================================================
