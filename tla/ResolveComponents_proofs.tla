----------------------- MODULE ResolveComponents_proofs -----------------------
(* Safety of ResolveComponents for any requests, exports, workers, reloads    *)
(* and failing queries: who writes which component, and what is in it.        *)
EXTENDS ResolveComponents, Resolver_proofs, FiniteSetTheorems

Sane(k) == SanitiseComponent(request[k])
RowIn(f, k) == PickKey(CandidateKeys(Sane(k).purl), Export[f].rows)

(* The channel, the workers and the wait group.                              *)
ControlInv ==
    /\ main # "feeding" => sent = n
    /\ main = "returned" => \A w \in Workers : at[w] = "ended"
    /\ \A w \in Workers : at[w] = "ended" /\ w <= n => main # "feeding" /\ taken = sent

(* A component is as sanitising left it until it has its answer, and the      *)
(* answer is one of three.                                                   *)
Outcome(k, c) ==
    IF Sane(k).status # "SUCCESS" THEN c = Sane(k)
    ELSE \/ c = NotFound(Sane(k))
         \/ \E f, g \in served :
               /\ RowIn(f, k) # NoRow
               /\ c = Found(Sane(k), RowIn(f, k).purl_id,
                            Export[g].published[RowIn(f, k).purl_id])

SliceInv ==
    /\ components = [k \in 1..n |-> components[k]]
    /\ \A k \in 1..n : IF k \in Answered THEN Outcome(k, components[k])
                          ELSE components[k] = Sane(k)

(* What a worker has read so far for the component it works on.              *)
ReadInv ==
    \A w \in Workers :
        /\ at[w] \in {"identified", "read"} =>
              /\ Sane(idx[w]).status = "SUCCESS"
              /\ row[w] # NoRow /\ \E f \in served : row[w] = RowIn(f, idx[w])
        /\ at[w] = "read" => \E g \in served : read[w] = Export[g].published[row[w].purl_id]

DeniedOnes == {i \in 1..n : Denied(request[i], components[i])}
DenialInv == Cardinality(DeniedOnes) <= failures

ResolveInv == OneWriter /\ ControlInv /\ SliceInv /\ ReadInv /\ DenialInv

(* What a worker has in hand is from no one file, or will not be.             *)
AtRisk(w) ==
    \/ at[w] = "identified" /\ row[w] # RowIn(file, idx[w])
    \/ /\ at[w] = "read"
       /\ ~ \E f \in served : /\ row[w] = RowIn(f, idx[w])
                              /\ read[w] = Export[f].published[row[w].purl_id]

(* Each change of file adds at most what the workers have in hand to those   *)
(* mixed already, or in danger of it.                                        *)
MixedOnes == {i \in 1..n : Mixed(request[i], components[i])}
RiskyOnes == {w \in Workers : AtRisk(w)}
MixedInv ==
    Cardinality(MixedOnes) + Cardinality(RiskyOnes) <= reloads * Cardinality(Workers)

-----------------------------------------------------------------------------
(* What sanitising makes of a component of the request.                      *)
LEMMA SanitisedFields ==
    ASSUME request \in Requests, NEW k \in 1..n
    PROVE  /\ DOMAIN request = 1..n /\ n \in Nat
           /\ request[k].purl \in PurlType /\ IsRequirement(request[k].requirement)
           /\ Sane(k).purl \in PurlType
           /\ Sane(k).status \in {"SUCCESS", "INVALID_PURL"}
           /\ Sane(k).status = "SUCCESS" =>
                 /\ Sane(k) = Sanitised(request[k])
                 /\ CandidateKeys(LookedUp(request[k])) = CandidateKeys(Sane(k).purl)
<1>1. /\ DOMAIN request = 1..n /\ n \in Nat
      /\ request[k].purl \in PurlType /\ IsRequirement(request[k].requirement)
  BY ResolveAssumption DEF ResolveAssumption, n
<1>2. CandidateKeys(LookedUp(request[k])) = CandidateKeys(Stripped(request[k].purl))
  BY <1>1, KeysIgnoreVersion DEF LookedUp
<1>3. Sanitised(request[k]).purl = Stripped(request[k].purl)
  BY DEF Sanitised
<1>4. QED
  BY <1>1, <1>2, <1>3, SanitisedType DEF Sane

LEMMA InitResolve ==
    ASSUME Init
    PROVE  TypeOK /\ ResolveInv /\ Batch!Init
<1> USE DEF Init
<1>1. n \in Nat /\ DOMAIN request = 1..n
  BY ResolveAssumption DEF ResolveAssumption, n
<1>2. components = [k \in 1..n |-> Sane(k)]
  BY <1>1 DEF SanitiseComponents, Sane
<1>3. Answered = {}
  BY DEF Answered
<1>4. TypeOK
  <2>1. HandleTypeOK
    BY ServedFileAssumption DEF HandleTypeOK, Opened, ServedFileAssumption
  <2>2. QED
    BY <1>1, <1>2, <2>1 DEF TypeOK
<1>5. OneWriter /\ ReadInv
  BY DEF OneWriter, ReadInv, Busy
<1>6. ControlInv
  BY <1>1, ResolveAssumption DEF ControlInv, ResolveAssumption
<1>7. SliceInv
  BY <1>2, <1>3 DEF SliceInv
<1>8. DenialInv
  <2>1. DeniedOnes = {}
    <3> SUFFICES ASSUME NEW k \in 1..n PROVE components[k].status # "COMPONENT_NOT_FOUND"
      BY DEF DeniedOnes, Denied
    <3>1. QED
      BY <1>2, SanitisedFields
  <2>2. QED
    BY <2>1, FS_EmptySet DEF DenialInv, Opened
<1>9. Batch!Init
  <2>1. DOMAIN components = {} <=> n = 0
    BY <1>1, <1>2
  <2>2. QED
    BY <1>3, <2>1 DEF Batch!Init
<1>10. QED
  BY <1>4, <1>5, <1>6, <1>7, <1>8, <1>9 DEF ResolveInv

-----------------------------------------------------------------------------
BatchStep == [Batch!Next]_<<components, Answered, main = "returned">>

(* The slice, what was read for it and what was denied, when no component is  *)
(* written and no other file swapped in.                                     *)
LEMMA SliceKept ==
    ASSUME ResolveInv, Answered' = Answered, UNCHANGED <<request, components, handle>>
    PROVE  SliceInv' /\ DenialInv'
<1>1. DeniedOnes' = DeniedOnes
  BY DEF DeniedOnes, Denied, Unknown, n, handle
<1>2. QED
  BY <1>1 DEF ResolveInv, SliceInv, DenialInv, Outcome, Sane, RowIn, n, handle

LEMMA MainStep ==
    ASSUME TypeOK, ResolveInv, Main
    PROVE  TypeOK' /\ ResolveInv' /\ BatchStep
<1> USE DEF ResolveInv, environment
<1>1. n \in Nat /\ n' = n
  BY ResolveAssumption DEF ResolveAssumption, n, Main, Send, CloseJobs, Return, TypeOK
<1>2. /\ UNCHANGED <<request, components, taken, at, idx, row, read, handle>>
      /\ Answered' = Answered
  BY DEF Main, Send, CloseJobs, Return, Answered, Busy
<1>3. TypeOK'
  BY <1>1, <1>2 DEF Main, Send, CloseJobs, Return, TypeOK, HandleTypeOK, handle, Rows, Readable
<1>4. SliceInv' /\ DenialInv'
  BY <1>2, SliceKept
<1>5. ReadInv'
  BY <1>2 DEF ReadInv, RowIn, Sane, handle
<1>6. ControlInv'
  BY <1>1, <1>2 DEF Main, Send, CloseJobs, Return, ControlInv, TypeOK
<1>7. OneWriter'
  BY <1>2 DEF Main, Send, CloseJobs, Return, OneWriter, Busy
<1>8. BatchStep
  <2>1. CASE Send \/ CloseJobs
    BY <1>2, <2>1 DEF BatchStep, Send, CloseJobs
  <2>2. CASE Return
    <3>1. main = "waiting" /\ main' = "returned" /\ \A w \in Workers : at[w] = "ended"
      BY <2>2 DEF Return
    <3>2. taken = n
      <4>1. CASE n = 0
        BY <4>1 DEF TypeOK
      <4>2. CASE n # 0
        <5>1. 1 \in Workers /\ 1 <= n
          BY <1>1, <4>2, ResolveAssumption DEF ResolveAssumption
        <5>2. QED
          BY <3>1, <5>1 DEF ControlInv
      <4>3. QED
        BY <4>1, <4>2
    <3>3. Answered = 1..n
      BY <3>1, <3>2 DEF Answered, Busy
    <3>4. Batch!Return
      BY <1>2, <3>1, <3>3 DEF Batch!Return, TypeOK
    <3>5. QED
      BY <3>4 DEF BatchStep, Batch!Next
  <2>3. QED
    BY <2>1, <2>2 DEF Main
<1>9. QED
  BY <1>3, <1>4, <1>5, <1>6, <1>7, <1>8

LEMMA TakeStep ==
    ASSUME TypeOK, ResolveInv, NEW w \in Workers, Take(w)
    PROVE  TypeOK' /\ ResolveInv' /\ BatchStep
<1> USE DEF ResolveInv, environment
<1>1. /\ at[w] = "ready" /\ taken < sent /\ taken' = taken + 1
      /\ at' = [at EXCEPT ![w] = "resolving"] /\ idx' = [idx EXCEPT ![w] = taken + 1]
      /\ UNCHANGED <<request, handle, components, sent, main, row, read>>
  BY DEF Take, Goes
<1>2. n \in Nat /\ n' = n /\ taken \in Nat /\ sent \in 0..n /\ taken + 1 \in 1..n
  BY <1>1, ResolveAssumption DEF ResolveAssumption, n, TypeOK
<1>3. \A u \in Workers : /\ at'[u] = IF u = w THEN "resolving" ELSE at[u]
                         /\ idx'[u] = IF u = w THEN taken + 1 ELSE idx[u]
  BY <1>1 DEF TypeOK
<1>4. \A u \in Workers : /\ Busy(u)' <=> u = w \/ Busy(u)
                         /\ Busy(u) => u # w /\ idx[u] \in 1..taken
  BY <1>1, <1>3 DEF Busy, OneWriter
<1>5. Answered' = Answered
  <2>1. \A k \in 1..taken : (\E u \in Workers : Busy(u)' /\ idx'[u] = k) <=>
                            (\E u \in Workers : Busy(u) /\ idx[u] = k)
    BY <1>2, <1>3, <1>4
  <2>2. Busy(w)' /\ idx'[w] = taken + 1
    BY <1>3, <1>4
  <2>3. 1..taken' = (1..taken) \union {taken + 1} /\ taken + 1 \notin 1..taken
    BY <1>1, <1>2
  <2>4. QED
    BY <2>1, <2>2, <2>3 DEF Answered
<1>6. TypeOK'
  <2>1. /\ sent' \in 0..n /\ taken' \in 0..sent' /\ idx' \in [Workers -> 0..n]
        /\ at' \in [Workers -> {"ready", "resolving", "identified", "read", "ended"}]
    BY <1>1, <1>2 DEF TypeOK
  <2>2. QED
    BY <1>1, <1>2, <2>1 DEF TypeOK, HandleTypeOK, handle, Rows, Readable
<1>7. OneWriter'
  <2>1. main' # "returned"
    BY <1>1 DEF ControlInv
  <2>2. \A u \in Workers : Busy(u)' => idx'[u] \in 1..taken'
    BY <1>1, <1>2, <1>3, <1>4
  <2>3. \A u, v \in Workers : Busy(u)' /\ Busy(v)' /\ idx'[u] = idx'[v] => u = v
    <3>1. \A u \in Workers : Busy(u) => idx[u] # taken + 1
      BY <1>2, <1>4
    <3>2. QED
      BY <1>3, <1>4, <3>1 DEF OneWriter
  <2>4. QED
    BY <2>1, <2>2, <2>3 DEF OneWriter
<1>8. ControlInv'
  <2>1. \A u \in Workers : ~(at[u] = "ended" /\ u <= n)
    BY <1>1, <1>2 DEF ControlInv
  <2>2. main # "returned"
    BY <1>1 DEF ControlInv
  <2>3. QED
    BY <1>1, <1>2, <1>3, <2>1, <2>2 DEF ControlInv
<1>9. SliceInv' /\ DenialInv'
  BY <1>1, <1>5, SliceKept
<1>10. ReadInv'
  <2>1. \A u \in Workers : at'[u] \in {"identified", "read"} => at'[u] = at[u] /\ idx'[u] = idx[u]
    BY <1>3
  <2>2. UNCHANGED <<request, served, row, read>>
    BY <1>1 DEF handle
  <2>3. QED
    BY <2>1, <2>2 DEF ReadInv, RowIn, Sane
<1>11. BatchStep
  BY <1>1, <1>5 DEF BatchStep
<1>12. QED
  BY <1>6, <1>7, <1>8, <1>9, <1>10, <1>11

LEMMA EndsStep ==
    ASSUME TypeOK, ResolveInv, NEW w \in Workers, Ends(w)
    PROVE  TypeOK' /\ ResolveInv' /\ BatchStep
<1> USE DEF ResolveInv, environment
<1>1. /\ at[w] = "ready" /\ main # "feeding" /\ taken = sent
      /\ at' = [at EXCEPT ![w] = "ended"]
      /\ UNCHANGED <<request, handle, components, sent, taken, main, idx, row, read>>
  BY DEF Ends, Goes
<1>2. n' = n
  BY <1>1 DEF n
<1>3. \A u \in Workers : at'[u] = IF u = w THEN "ended" ELSE at[u]
  BY <1>1 DEF TypeOK
<1>4. \A u \in Workers : Busy(u)' <=> Busy(u)
  BY <1>1, <1>3 DEF Busy
<1>5. Answered' = Answered
  BY <1>1, <1>4 DEF Answered
<1>6. TypeOK'
  BY <1>1, <1>2 DEF TypeOK, HandleTypeOK, handle, Rows, Readable
<1>7. OneWriter' /\ ControlInv'
  BY <1>1, <1>2, <1>3, <1>4 DEF OneWriter, ControlInv
<1>8. SliceInv' /\ DenialInv'
  BY <1>1, <1>5, SliceKept
<1>9. ReadInv'
  BY <1>1, <1>3 DEF ReadInv, RowIn, Sane, handle
<1>10. BatchStep
  BY <1>1, <1>5 DEF BatchStep
<1>11. QED
  BY <1>6, <1>7, <1>8, <1>9, <1>10

(* A worker goes on with its component: it has read more, and written nothing. *)
LEMMA ReadOnStep ==
    ASSUME TypeOK, ResolveInv, NEW w \in Workers, Busy(w),
           NEW where \in {"identified", "read"}, at' = [at EXCEPT ![w] = where],
           UNCHANGED <<request, handle, components, sent, taken, main, idx>>,
           row' \in [Workers -> Rows \union {NoRow}],
           read' \in [Workers -> Readable \union {<<>>}],
           \A u \in Workers \ {w} : row'[u] = row[u] /\ read'[u] = read[u],
           Sane(idx[w]).status = "SUCCESS", row'[w] # NoRow,
           \E f \in served : row'[w] = RowIn(f, idx[w]),
           where = "read" => \E g \in served : read'[w] = Export[g].published[row'[w].purl_id]
    PROVE  TypeOK' /\ ResolveInv' /\ BatchStep
<1> USE DEF ResolveInv
<1>1. n' = n
  BY DEF n
<1>2. \A u \in Workers : at'[u] = IF u = w THEN where ELSE at[u]
  BY DEF TypeOK
<1>3. \A u \in Workers : Busy(u)' <=> Busy(u)
  BY <1>2 DEF Busy
<1>4. Answered' = Answered
  BY <1>3 DEF Answered
<1>5. TypeOK'
  BY <1>1 DEF TypeOK, HandleTypeOK, handle, Rows, Readable
<1>6. OneWriter' /\ ControlInv'
  BY <1>1, <1>2, <1>3 DEF OneWriter, ControlInv, Busy
<1>7. SliceInv' /\ DenialInv'
  BY <1>4, SliceKept
<1>8. ReadInv'
  <2>1. file' = file /\ served' = served /\ request' = request /\ idx' = idx
    BY DEF handle
  <2>2. /\ \A f, j : RowIn(f, j)' = RowIn(f, j)
        /\ \A j : Sane(j)' = Sane(j)
    BY <2>1 DEF RowIn, Sane
  <2>3. at'[w] = where /\ \A u \in Workers \ {w} : at'[u] = at[u]
    BY <1>2
  <2>4. QED
    BY <2>1, <2>2, <2>3 DEF ReadInv
<1>9. BatchStep
  BY <1>4 DEF BatchStep
<1>10. QED
  BY <1>5, <1>6, <1>7, <1>8, <1>9

(* A worker is done with its component: it leaves c in it.                   *)
LEMMA AnswerStep ==
    ASSUME TypeOK, ResolveInv, NEW w \in Workers, Busy(w), NEW c,
           at' = [at EXCEPT ![w] = "ready"],
           components' = [components EXCEPT ![idx[w]] = c], Outcome(idx[w], c),
           UNCHANGED <<request, file, served, reloads, sent, taken, main, idx, read>>,
           failures' \in 0..MaxFailures, failures' >= failures,
           Denied(request[idx[w]], c) => failures' >= failures + 1,
           row' \in [Workers -> Rows \union {NoRow}],
           \A u \in Workers \ {w} : row'[u] = row[u]
    PROVE  TypeOK' /\ ResolveInv' /\ BatchStep
<1> USE DEF ResolveInv
<1> DEFINE k == idx[w]
<1>1. /\ n \in Nat /\ n' = n /\ taken \in Nat /\ taken <= n /\ k \in 1..taken /\ k \in 1..n
      /\ DOMAIN components = 1..n
  BY ResolveAssumption DEF ResolveAssumption, n, TypeOK, OneWriter
<1>2. \A u \in Workers : at'[u] = IF u = w THEN "ready" ELSE at[u]
  BY DEF TypeOK
<1>3. \A u \in Workers : Busy(u)' <=> Busy(u) /\ u # w
  BY <1>2 DEF Busy
<1>4. /\ DOMAIN components' = 1..n
      /\ \A j \in 1..n : components'[j] = IF j = k THEN c ELSE components[j]
      /\ components' = [j \in 1..n |-> components'[j]]
  BY <1>1
<1>5. Answered' = Answered \union {k} /\ k \notin Answered
  <2>1. \A j \in 1..taken : (\E u \in Workers : Busy(u)' /\ idx[u] = j) <=>
                            j # k /\ \E u \in Workers : Busy(u) /\ idx[u] = j
    BY <1>3 DEF OneWriter
  <2>2. QED
    BY <1>1, <2>1 DEF Answered
<1>6. TypeOK'
  <2>1. HandleTypeOK'
    BY DEF TypeOK, HandleTypeOK
  <2>2. QED
    BY <1>1, <1>4, <2>1 DEF TypeOK, Rows, Readable
<1>7. OneWriter' /\ ControlInv'
  BY <1>1, <1>2, <1>3 DEF OneWriter, ControlInv
<1>8. SliceInv'
  <2>1. \A j \in 1..n : IF j \in Answered' THEN Outcome(j, components'[j])
                        ELSE components'[j] = Sane(j)
    BY <1>1, <1>4, <1>5 DEF SliceInv
  <2>2. UNCHANGED <<request, served>>
    OBVIOUS
  <2>3. \A j \in 1..n : (IF j \in Answered THEN Outcome(j, components[j])
                         ELSE components[j] = Sane(j))'
    <3>1. /\ \A j, d : Outcome(j, d)' <=> Outcome(j, d)
          /\ \A j : Sane(j)' = Sane(j)
      BY <2>2 DEF Outcome, Sane, RowIn
    <3>2. QED
      BY <2>1, <3>1
  <2>4. components' = [j \in 1..n' |-> components'[j]]
    BY <1>1, <1>4
  <2>5. QED
    BY <1>1, <2>3, <2>4 DEF SliceInv
<1>9. ReadInv'
  BY <1>2 DEF ReadInv, RowIn, Sane
<1>10. DenialInv'
  <2>1. \A d : \A j \in 1..n : Denied(request[j], d)' <=> Denied(request[j], d)
    BY DEF Denied, Unknown
  <2>2. DeniedOnes' \subseteq IF Denied(request[k], c) THEN DeniedOnes \union {k} ELSE DeniedOnes
    BY <1>1, <1>4, <2>1 DEF DeniedOnes
  <2>3. IsFiniteSet(DeniedOnes) /\ Cardinality(DeniedOnes) \in Nat
    <3>1. IsFiniteSet(1..n)
      BY <1>1, FS_Interval
    <3>2. QED
      BY <3>1, FS_Subset, FS_CardinalityType DEF DeniedOnes
  <2>4. /\ IsFiniteSet(DeniedOnes \union {k})
        /\ Cardinality(DeniedOnes \union {k}) \in {Cardinality(DeniedOnes), Cardinality(DeniedOnes) + 1}
    BY <2>3, FS_AddElement
  <2>5. failures \in Nat /\ failures' \in Nat
    BY ServedFileAssumption DEF TypeOK, HandleTypeOK, ServedFileAssumption
  <2>6. CASE Denied(request[k], c)
    <3>1. Cardinality(DeniedOnes') <= Cardinality(DeniedOnes \union {k})
          /\ Cardinality(DeniedOnes') \in Nat
      BY <2>2, <2>4, <2>6, FS_Subset, FS_CardinalityType
    <3>2. QED
      BY <2>3, <2>4, <2>5, <2>6, <3>1 DEF DenialInv
  <2>7. CASE ~Denied(request[k], c)
    <3>1. Cardinality(DeniedOnes') <= Cardinality(DeniedOnes) /\ Cardinality(DeniedOnes') \in Nat
      BY <2>2, <2>3, <2>7, FS_Subset, FS_CardinalityType
    <3>2. QED
      BY <2>3, <2>5, <3>1 DEF DenialInv
  <2>8. QED
    BY <2>6, <2>7
<1>11. BatchStep
  <2>1. main # "returned"
    BY DEF OneWriter
  <2>2. Batch!Answer(k)
    BY <1>1, <1>4, <1>5, <2>1 DEF Batch!Answer
  <2>3. QED
    BY <1>1, <2>2 DEF BatchStep, Batch!Next
<1>12. QED
  BY <1>6, <1>7, <1>8, <1>9, <1>10, <1>11

-----------------------------------------------------------------------------
(* The component a worker works on is still as sanitising left it.           *)
LEMMA MineIsSane ==
    ASSUME TypeOK, ResolveInv, NEW w \in Workers, Busy(w)
    PROVE  /\ idx[w] \in 1..n /\ Mine(w) = Sane(idx[w])
           /\ Mine(w).purl \in PurlType
           /\ Mine(w).status \in {"SUCCESS", "INVALID_PURL"}
           /\ Mine(w).status = "SUCCESS" =>
                 /\ Mine(w) = Sanitised(request[idx[w]])
                 /\ CandidateKeys(LookedUp(request[idx[w]])) = CandidateKeys(Mine(w).purl)
<1>1. idx[w] \in 1..n /\ idx[w] \notin Answered
  BY DEF ResolveInv, OneWriter, TypeOK, Answered
<1>2. Mine(w) = Sane(idx[w])
  BY <1>1 DEF ResolveInv, SliceInv, Mine
<1>3. request \in Requests
  BY DEF TypeOK
<1>4. QED
  BY <1>1, <1>2, <1>3, SanitisedFields

(* A component is picked from the rows of a file, and one is found unless no  *)
(* row matches.                                                              *)
LEMMA RowPicked ==
    ASSUME NEW f \in Files, NEW purl \in PurlType
    PROVE  LET keys == CandidateKeys(purl)
               hit == PickKey(keys, Export[f].rows)
           IN  /\ PickKey(keys, Matching(keys, Export[f].rows)) = hit
               /\ hit # NoRow => /\ hit \in Export[f].rows /\ hit \in Rows
                                 /\ Identifies(f, purl, hit.purl_id)
               /\ hit = NoRow <=> Matching(keys, Export[f].rows) = {}
<1> DEFINE keys == CandidateKeys(purl)
           rows == Export[f].rows
           hit == PickKey(keys, rows)
<1>1. keys \in Seq(Keys(purl))
  BY CandidateKeysType
<1>2. PickKey(keys, Matching(keys, rows)) = hit
  BY <1>1, PicksAmongMatching
<1>3. DOMAIN keys = 1..Len(keys)
  BY <1>1
<1>4. \/ hit = NoRow /\ \A i \in DOMAIN keys : \A r \in rows : r.purl # keys[i]
      \/ /\ hit \in rows
         /\ \E i \in DOMAIN keys : /\ hit.purl = keys[i]
                                   /\ \A r \in rows, j \in 1..(i - 1) : r.purl # keys[j]
  BY <1>1, PicksMostSpecific
<1>5. NoRow \notin rows
  BY ResolveAssumption DEF ResolveAssumption
<1> HIDE DEF hit, keys
<1>6. hit = NoRow <=> Matching(keys, rows) = {}
  BY <1>3, <1>4, <1>5 DEF Matching, Contains
<1>7. hit # NoRow => hit \in rows /\ hit \in Rows
  BY <1>4 DEF Rows
<1>8. hit # NoRow => Identifies(f, purl, hit.purl_id)
  BY <1>4 DEF Identifies, keys
<1>9. QED
  BY <1>2, <1>6, <1>7, <1>8 DEF hit, keys

LEMMA SkipStep ==
    ASSUME TypeOK, ResolveInv, NEW w \in Workers, Skip(w)
    PROVE  TypeOK' /\ ResolveInv' /\ BatchStep
<1> DEFINE k == idx[w]
<1>1. /\ at[w] = "resolving" /\ Mine(w).status # "SUCCESS" /\ at' = [at EXCEPT ![w] = "ready"]
      /\ UNCHANGED <<environment, components, sent, taken, main, idx, row, read>>
  BY DEF Skip, Goes
<1>2. Busy(w)
  BY <1>1 DEF Busy
<1>3. Sane(k).status # "SUCCESS" /\ Mine(w) = Sane(k) /\ Mine(w).status = "INVALID_PURL"
  BY <1>1, <1>2, MineIsSane
<1>4. components' = [components EXCEPT ![k] = Mine(w)]
  BY <1>1 DEF Mine, ResolveInv, SliceInv
<1>5. Outcome(k, Mine(w)) /\ ~Denied(request[k], Mine(w))
  BY <1>3 DEF Outcome, Denied
<1>6. failures' \in 0..MaxFailures /\ failures' >= failures
  BY <1>1, ServedFileAssumption
  DEF environment, handle, TypeOK, HandleTypeOK, ServedFileAssumption
<1>7. row' \in [Workers -> Rows \union {NoRow}] /\ \A u \in Workers \ {w} : row'[u] = row[u]
  BY <1>1 DEF TypeOK
<1>8. UNCHANGED <<request, file, served, reloads, sent, taken, main, idx, read>>
  BY <1>1 DEF environment, handle
<1>9. QED
  BY <1>1, <1>2, <1>4, <1>5, <1>6, <1>7, <1>8, AnswerStep

LEMMA IdentifyStep ==
    ASSUME TypeOK, ResolveInv, NEW w \in Workers, Identify(w)
    PROVE  TypeOK' /\ ResolveInv' /\ BatchStep
<1> DEFINE k == idx[w]
           hit == RowIn(file, k)
<1>1. at[w] = "resolving" /\ Mine(w).status = "SUCCESS" /\ Busy(w)
  BY DEF Identify, Busy
<1>2. /\ Sane(k).status = "SUCCESS" /\ Sane(k).purl \in PurlType
      /\ Mine(w) = Sane(k)
      /\ CandidateKeys(LookedUp(request[k])) = CandidateKeys(Sane(k).purl)
  BY <1>1, MineIsSane
<1>3. file \in Files /\ file \in served
  BY DEF TypeOK, HandleTypeOK
<1>4. PickKey(CandidateKeys(Mine(w).purl),
              Matching(CandidateKeys(Mine(w).purl), Export[file].rows)) = hit
  BY <1>2, <1>3, RowPicked DEF RowIn
<1>5. /\ row' = [row EXCEPT ![w] = hit]
      /\ IF hit = NoRow THEN Goes(w, "ready") /\ Writes(w, NotFound(Mine(w)))
                        ELSE Goes(w, "identified") /\ UNCHANGED components
      /\ UNCHANGED <<request, file, served, reloads, failures, sent, taken, main, idx, read>>
  BY <1>4 DEF Identify, environment, handle
<1>6. /\ row' \in [Workers -> Rows \union {NoRow}] /\ row'[w] = hit
      /\ \A u \in Workers \ {w} : row'[u] = row[u]
  <2>1. hit \in Rows \union {NoRow}
    BY <1>2, <1>3, RowPicked DEF RowIn
  <2>2. QED
    BY <1>5, <2>1 DEF TypeOK
<1>7. CASE hit = NoRow
  <2>1. Outcome(k, NotFound(Mine(w)))
    BY <1>2 DEF Outcome
  <2>2. Unknown(request[k])
    BY <1>2, <1>3, <1>7, RowPicked DEF Unknown, RowIn
  <2>3. failures' \in 0..MaxFailures /\ failures' >= failures
    BY <1>5, ServedFileAssumption DEF TypeOK, HandleTypeOK, ServedFileAssumption
  <2>4. /\ at' = [at EXCEPT ![w] = "ready"]
        /\ components' = [components EXCEPT ![k] = NotFound(Mine(w))]
    BY <1>5, <1>7 DEF Goes, Writes
  <2>5. ~Denied(request[k], NotFound(Mine(w)))
    BY <2>2 DEF Denied
  <2> HIDE DEF hit
  <2>6. QED
    BY <1>1, <1>5, <1>6, <2>1, <2>3, <2>4, <2>5, AnswerStep
<1>8. CASE hit # NoRow
  <2>1. at' = [at EXCEPT ![w] = "identified"] /\ UNCHANGED <<components, handle>>
    BY <1>5, <1>8 DEF Goes, handle
  <2>2. read' \in [Workers -> Readable \union {<<>>}] /\ \A u \in Workers : read'[u] = read[u]
    BY <1>5 DEF TypeOK
  <2>3. \E f \in served : row'[w] = RowIn(f, k)
    BY <1>3, <1>6
  <2>4. QED
    BY <1>1, <1>2, <1>5, <1>6, <1>8, <2>1, <2>2, <2>3, ReadOnStep
<1>9. QED
  BY <1>7, <1>8

(* A worker has found a row for its component, in some file, and the versions *)
(* of that row may be read in another.                                       *)
LEMMA RowFound ==
    ASSUME TypeOK, ResolveInv, NEW w \in Workers, at[w] \in {"identified", "read"}
    PROVE  /\ Sane(idx[w]).status = "SUCCESS" /\ row[w] # NoRow
           /\ \E f \in served : row[w] = RowIn(f, idx[w])
           /\ \A g \in Files : Export[g].published[row[w].purl_id] \in Readable
<1>1. /\ Sane(idx[w]).status = "SUCCESS" /\ row[w] # NoRow
      /\ \E f \in served : row[w] = RowIn(f, idx[w])
  BY DEF ResolveInv, ReadInv
<1>2. PICK f \in served : row[w] = RowIn(f, idx[w])
  BY <1>1
<1>3. Busy(w) /\ f \in Files
  BY DEF Busy, TypeOK, HandleTypeOK
<1>4. row[w] \in Export[f].rows
  BY <1>1, <1>2, <1>3, MineIsSane, RowPicked DEF RowIn
<1>5. \A g \in Files : Export[g].published[row[w].purl_id] \in Readable
  <2> SUFFICES ASSUME NEW g \in Files
               PROVE  Export[g].published[row[w].purl_id] \in Readable
    OBVIOUS
  <2>1. row[w].purl_id \in DOMAIN Export[g].published
    BY <1>3, <1>4, ResolveAssumption DEF ResolveAssumption
  <2>2. QED
    BY <2>1 DEF Readable, Range
<1>6. QED
  BY <1>1, <1>5

LEMMA ReadVersionsStep ==
    ASSUME TypeOK, ResolveInv, NEW w \in Workers, ReadVersions(w)
    PROVE  TypeOK' /\ ResolveInv' /\ BatchStep
<1> DEFINE k == idx[w]
           versions == Export[file].published[row[w].purl_id]
<1>1. /\ at[w] = "identified" /\ read' = [read EXCEPT ![w] = versions]
      /\ at' = [at EXCEPT ![w] = "read"] /\ Busy(w)
      /\ UNCHANGED <<request, handle, components, sent, taken, main, idx, row>>
  BY DEF ReadVersions, Goes, Busy, environment
<1>2. file \in Files /\ file \in served
  BY DEF TypeOK, HandleTypeOK
<1>3. /\ Sane(k).status = "SUCCESS" /\ row[w] # NoRow /\ \E f \in served : row[w] = RowIn(f, k)
      /\ versions \in Readable
  BY <1>1, <1>2, RowFound
<1>4. row' \in [Workers -> Rows \union {NoRow}] /\ read' \in [Workers -> Readable \union {<<>>}]
  BY <1>1, <1>3 DEF TypeOK
<1>5. \A u \in Workers \ {w} : row'[u] = row[u] /\ read'[u] = read[u]
  BY <1>1 DEF TypeOK
<1>6. row'[w] # NoRow /\ \E f \in served : row'[w] = RowIn(f, k)
  BY <1>1, <1>3
<1>7. \E g \in served : read'[w] = Export[g].published[row'[w].purl_id]
  BY <1>1, <1>2 DEF TypeOK
<1>8. QED
  BY <1>1, <1>3, <1>4, <1>5, <1>6, <1>7, ReadOnStep

LEMMA QueryFailsStep ==
    ASSUME TypeOK, ResolveInv, NEW w \in Workers, QueryFails(w)
    PROVE  TypeOK' /\ ResolveInv' /\ BatchStep
<1> DEFINE k == idx[w]
<1>1. /\ Busy(w) /\ Mine(w).status = "SUCCESS"
      /\ failures + 1 <= MaxFailures /\ failures' = failures + 1
      /\ at' = [at EXCEPT ![w] = "ready"]
      /\ components' = [components EXCEPT ![k] = NotFound(Mine(w))]
      /\ UNCHANGED <<request, file, served, reloads, sent, taken, main, idx, row, read>>
  BY DEF QueryFails, Fail, Writes, Goes, Busy
<1>2. Sane(k).status = "SUCCESS" /\ Mine(w) = Sane(k)
  BY <1>1, MineIsSane
<1>3. Outcome(k, NotFound(Mine(w)))
  BY <1>2 DEF Outcome
<1>4. failures' \in 0..MaxFailures /\ failures' >= failures /\ failures' >= failures + 1
  BY <1>1, ServedFileAssumption DEF TypeOK, HandleTypeOK, ServedFileAssumption
<1>5. row' \in [Workers -> Rows \union {NoRow}] /\ \A u \in Workers \ {w} : row'[u] = row[u]
  BY <1>1 DEF TypeOK
<1>6. QED
  BY <1>1, <1>3, <1>4, <1>5, AnswerStep

LEMMA FinishStep ==
    ASSUME TypeOK, ResolveInv, NEW w \in Workers, Finish(w)
    PROVE  TypeOK' /\ ResolveInv' /\ BatchStep
<1> DEFINE k == idx[w]
           c == Found(Mine(w), row[w].purl_id, read[w])
<1>1. /\ at[w] = "read" /\ Busy(w) /\ at' = [at EXCEPT ![w] = "ready"]
      /\ components' = [components EXCEPT ![k] = c]
      /\ UNCHANGED <<request, file, served, reloads, failures, sent, taken, main, idx, row, read>>
  BY DEF Finish, Writes, Goes, Busy, environment, handle
<1>2. /\ Sane(k).status = "SUCCESS" /\ row[w] # NoRow
      /\ Mine(w) = Sane(k) /\ Mine(w) = Sanitised(request[k])
  BY <1>1, RowFound, MineIsSane
<1>3. Outcome(k, c)
  <2>1. PICK f \in served : row[w] = RowIn(f, k)
    BY <1>1, RowFound
  <2>2. PICK g \in served : read[w] = Export[g].published[row[w].purl_id]
    BY <1>1 DEF ResolveInv, ReadInv
  <2>3. QED
    BY <1>2, <2>1, <2>2 DEF Outcome
<1>4. ~Denied(request[k], c)
  BY <1>2 DEF Denied, Found, Sanitised
<1>5. failures' \in 0..MaxFailures /\ failures' >= failures
  BY <1>1, ServedFileAssumption DEF TypeOK, HandleTypeOK, ServedFileAssumption
<1>6. row' \in [Workers -> Rows \union {NoRow}] /\ \A u \in Workers \ {w} : row'[u] = row[u]
  BY <1>1 DEF TypeOK
<1> HIDE DEF c
<1>7. QED
  BY <1>1, <1>3, <1>4, <1>5, <1>6, AnswerStep

(* A file more can only make a component's answer easier to account for.     *)
LEMMA ReloadStep ==
    ASSUME TypeOK, ResolveInv, ReloadMeanwhile
    PROVE  TypeOK' /\ ResolveInv' /\ BatchStep
<1> USE DEF ResolveInv
<1>1. /\ file' \in Files /\ served' = served \union {file'} /\ failures' = failures
      /\ reloads < MaxReloads /\ reloads' = reloads + 1
      /\ UNCHANGED <<request, components, sent, taken, main, at, idx, row, read>>
  BY DEF ReloadMeanwhile, Reload
<1>2. n' = n /\ n \in Nat /\ Answered' = Answered
  BY <1>1, ResolveAssumption DEF ResolveAssumption, n, Answered, Busy, TypeOK
<1>3. TypeOK'
  <2>1. HandleTypeOK'
    BY <1>1, ServedFileAssumption DEF TypeOK, HandleTypeOK, ServedFileAssumption
  <2>2. QED
    BY <1>1, <1>2, <2>1 DEF TypeOK, Rows, Readable
<1>4. OneWriter' /\ ControlInv'
  BY <1>1, <1>2 DEF OneWriter, ControlInv, Busy
<1>5. SliceInv'
  <2>1. \A j \in 1..n : Outcome(j, components[j]) => Outcome(j, components[j])'
    BY <1>1 DEF Outcome, Sane, RowIn
  <2>2. QED
    BY <1>1, <1>2, <2>1 DEF SliceInv, Sane
<1>6. ReadInv'
  BY <1>1 DEF ReadInv, RowIn, Sane
<1>7. DenialInv'
  <2>1. DeniedOnes' \subseteq DeniedOnes
    BY <1>1, <1>2 DEF DeniedOnes, Denied, Unknown
  <2>2. IsFiniteSet(DeniedOnes)
    <3>1. IsFiniteSet(1..n)
      BY <1>2, FS_Interval
    <3>2. QED
      BY <3>1, FS_Subset DEF DeniedOnes
  <2>3. /\ Cardinality(DeniedOnes) \in Nat /\ Cardinality(DeniedOnes') \in Nat
        /\ Cardinality(DeniedOnes') <= Cardinality(DeniedOnes)
    BY <2>1, <2>2, FS_Subset, FS_CardinalityType
  <2>4. failures \in Nat
    BY ServedFileAssumption DEF TypeOK, HandleTypeOK, ServedFileAssumption
  <2>5. QED
    BY <1>1, <2>3, <2>4 DEF DenialInv
<1>8. BatchStep
  BY <1>1, <1>2 DEF BatchStep
<1>9. QED
  BY <1>3, <1>4, <1>5, <1>6, <1>7, <1>8

LEMMA ResolveStep ==
    ASSUME TypeOK, ResolveInv, [Next]_vars
    PROVE  TypeOK' /\ ResolveInv' /\ BatchStep
<1>1. ASSUME NEW w \in Workers, Work(w) PROVE TypeOK' /\ ResolveInv' /\ BatchStep
  BY <1>1, TakeStep, EndsStep, SkipStep, IdentifyStep, ReadVersionsStep, QueryFailsStep,
     FinishStep DEF Work
<1>2. CASE UNCHANGED vars
  <2> USE <1>2 DEF vars, ResolveInv, handle
  <2>1. Answered' = Answered
    BY DEF Answered, Busy
  <2>2. SliceInv' /\ DenialInv'
    BY <2>1, SliceKept
  <2>3. TypeOK' /\ OneWriter' /\ ControlInv' /\ ReadInv'
    BY DEF TypeOK, HandleTypeOK, Rows, Readable, OneWriter, ControlInv, ReadInv, RowIn, Sane, Busy, n
  <2>4. QED
    BY <2>1, <2>2, <2>3 DEF BatchStep
<1>3. QED
  BY <1>1, <1>2, MainStep, ReloadStep DEF Next

-----------------------------------------------------------------------------
(* The components mixed from two files.                                      *)
LEMMA MixedSets ==
    ASSUME TypeOK
    PROVE  /\ n \in Nat /\ reloads \in Nat
           /\ IsFiniteSet(MixedOnes) /\ Cardinality(MixedOnes) \in Nat
           /\ \A S : S \subseteq Workers =>
                 /\ IsFiniteSet(S) /\ Cardinality(S) \in Nat
                 /\ Cardinality(S) <= Cardinality(Workers)
           /\ Cardinality(Workers) \in Nat
<1>1. n \in Nat /\ IsFiniteSet(Workers)
  BY ResolveAssumption DEF ResolveAssumption, TypeOK, n
<1>2. reloads \in Nat
  BY ServedFileAssumption DEF TypeOK, HandleTypeOK, ServedFileAssumption
<1>3. IsFiniteSet(1..n)
  BY <1>1, FS_Interval
<1>4. QED
  BY <1>1, <1>2, <1>3, FS_Subset, FS_CardinalityType DEF MixedOnes

LEMMA NotFoundHasNoId ==
    ASSUME NEW dto
    PROVE  NotFound(Sanitised(dto)).purl_id = "none"
BY DEF NotFound, Sanitised

LEMMA InitMixed ==
    ASSUME Init
    PROVE  MixedInv
<1>1. TypeOK /\ SliceInv /\ Answered = {}
  BY InitResolve DEF ResolveInv, Init, Answered
<1>2. MixedOnes = {}
  <2> SUFFICES ASSUME NEW k \in 1..n PROVE components[k].purl_id = "none"
    BY DEF MixedOnes, Mixed
  <2>1. components[k] = SanitiseComponent(request[k])
    BY <1>1 DEF SliceInv, Sane
  <2>2. Sanitised(request[k]).purl_id = "none" /\ Invalid(request[k]).purl_id = "none"
    BY DEF Sanitised, Invalid
  <2>3. QED
    BY <2>1, <2>2 DEF SanitiseComponent
<1>3. RiskyOnes = {}
  BY DEF RiskyOnes, AtRisk, Init
<1>4. Cardinality(Workers) \in Nat /\ reloads = 0
  BY <1>1, MixedSets DEF Init, Opened
<1>5. QED
  BY <1>2, <1>3, <1>4, FS_EmptySet DEF MixedInv

(* Nothing more is mixed, nor at risk.                                       *)
LEMMA MixedKept ==
    ASSUME TypeOK, TypeOK', MixedInv, reloads' = reloads,
           MixedOnes' \subseteq MixedOnes, RiskyOnes' \subseteq RiskyOnes
    PROVE  MixedInv'
<1>1. /\ Cardinality(MixedOnes') <= Cardinality(MixedOnes)
      /\ Cardinality(MixedOnes') \in Nat /\ Cardinality(MixedOnes) \in Nat
  BY MixedSets, FS_Subset, FS_CardinalityType
<1>2. IsFiniteSet(RiskyOnes) /\ Cardinality(RiskyOnes) \in Nat
  BY MixedSets DEF RiskyOnes
<1>3. Cardinality(RiskyOnes') <= Cardinality(RiskyOnes) /\ Cardinality(RiskyOnes') \in Nat
  BY <1>2, FS_Subset, FS_CardinalityType
<1> DEFINE bound == reloads * Cardinality(Workers)
<1>4. bound \in Nat /\ bound' = bound
  BY MixedSets
<1> HIDE DEF bound
<1>5. Cardinality(MixedOnes) + Cardinality(RiskyOnes) <= bound
  BY DEF MixedInv, bound
<1>6. Cardinality(MixedOnes') + Cardinality(RiskyOnes') <= bound'
  BY <1>1, <1>2, <1>3, <1>4, <1>5
<1>7. QED
  BY <1>6 DEF MixedInv, bound

(* While the workers do not write, only what they have in hand matters.      *)
LEMMA MixedUnwritten ==
    ASSUME TypeOK, TypeOK', MixedInv, UNCHANGED <<request, components, handle>>,
           \A w \in Workers : AtRisk(w)' => AtRisk(w)
    PROVE  MixedInv'
<1>1. MixedOnes' = MixedOnes
  BY DEF MixedOnes, Mixed, n, handle
<1>2. RiskyOnes' \subseteq RiskyOnes
  BY DEF RiskyOnes
<1>3. QED
  BY <1>1, <1>2, MixedKept DEF handle

(* A worker leaves c in its component: c is mixed only if that was at risk.   *)
LEMMA MixedWritten ==
    ASSUME TypeOK, TypeOK', MixedInv, NEW w \in Workers, NEW c,
           UNCHANGED <<request, file, served, reloads, idx, read>>,
           at' = [at EXCEPT ![w] = "ready"],
           components' = [components EXCEPT ![idx[w]] = c],
           \A u \in Workers \ {w} : row'[u] = row[u],
           Mixed(request[idx[w]], c) => AtRisk(w)
    PROVE  MixedInv'
<1> DEFINE k == idx[w]
<1>1. \A u \in Workers : at'[u] = IF u = w THEN "ready" ELSE at[u]
  BY DEF TypeOK
<1>2. \A u \in Workers : AtRisk(u)' => u # w /\ AtRisk(u)
  BY <1>1 DEF AtRisk, RowIn, Sane
<1>3. \A j \in 1..n : j # k => components'[j] = components[j]
  OBVIOUS
<1>4. \A j, d : Mixed(request[j], d)' <=> Mixed(request[j], d)
  BY DEF Mixed
<1>5. components'[k] = c \/ k \notin 1..n
  BY DEF TypeOK
<1>6. MixedOnes' \subseteq MixedOnes \union {k}
  BY <1>3, <1>4 DEF MixedOnes, n
<1>7. CASE AtRisk(w)
  <2>1. RiskyOnes' \subseteq RiskyOnes \ {w} /\ w \in RiskyOnes
    BY <1>2, <1>7 DEF RiskyOnes
  <2>2. IsFiniteSet(RiskyOnes) /\ Cardinality(RiskyOnes) \in Nat
    BY MixedSets DEF RiskyOnes
  <2>3. /\ IsFiniteSet(RiskyOnes \ {w})
        /\ Cardinality(RiskyOnes \ {w}) = Cardinality(RiskyOnes) - 1
    BY <2>1, <2>2, FS_RemoveElement
  <2>4. Cardinality(RiskyOnes') <= Cardinality(RiskyOnes) - 1 /\ Cardinality(RiskyOnes') \in Nat
    BY <2>1, <2>3, FS_Subset, FS_CardinalityType
  <2>5. IsFiniteSet(MixedOnes) /\ Cardinality(MixedOnes) \in Nat
    BY MixedSets
  <2>6. /\ IsFiniteSet(MixedOnes \union {k})
        /\ Cardinality(MixedOnes \union {k}) \in
              {Cardinality(MixedOnes), Cardinality(MixedOnes) + 1}
    <3> HIDE DEF k
    <3>1. QED
      BY <2>5, FS_AddElement
  <2>7. Cardinality(MixedOnes') <= Cardinality(MixedOnes) + 1 /\ Cardinality(MixedOnes') \in Nat
    <3>1. IsFiniteSet(MixedOnes') /\ Cardinality(MixedOnes') <= Cardinality(MixedOnes \union {k})
      BY <1>6, <2>6, FS_Subset
    <3>2. Cardinality(MixedOnes') \in Nat
      BY <3>1, FS_CardinalityType
    <3> HIDE DEF k
    <3>3. QED
      BY <2>5, <2>6, <3>1, <3>2
  <2> DEFINE bound == reloads * Cardinality(Workers)
  <2>8. bound \in Nat /\ bound' = bound
    BY MixedSets
  <2> HIDE DEF bound
  <2>9. Cardinality(MixedOnes) + Cardinality(RiskyOnes) <= bound
    BY DEF MixedInv, bound
  <2>10. Cardinality(MixedOnes') + Cardinality(RiskyOnes') <= bound'
    BY <2>2, <2>4, <2>5, <2>7, <2>8, <2>9
  <2>11. QED
    BY <2>10 DEF MixedInv, bound
<1>8. CASE ~AtRisk(w)
  <2>1. k \in 1..n => ~Mixed(request[k], components[k])'
    BY <1>4, <1>5, <1>8
  <2>2. MixedOnes' \subseteq MixedOnes
    BY <1>3, <1>4, <2>1 DEF MixedOnes, n
  <2>3. RiskyOnes' \subseteq RiskyOnes
    BY <1>2 DEF RiskyOnes
  <2>4. QED
    BY <2>2, <2>3, MixedKept
<1>9. QED
  BY <1>7, <1>8

LEMMA MixedReload ==
    ASSUME TypeOK, TypeOK', MixedInv, ReloadMeanwhile
    PROVE  MixedInv'
<1>1. /\ served' = served \union {file'} /\ reloads' = reloads + 1
      /\ UNCHANGED <<request, components>>
  BY DEF ReloadMeanwhile, Reload
<1>2. MixedOnes' \subseteq MixedOnes
  BY <1>1 DEF MixedOnes, Mixed, n
<1>3. /\ Cardinality(MixedOnes') <= Cardinality(MixedOnes)
      /\ Cardinality(MixedOnes') \in Nat /\ Cardinality(MixedOnes) \in Nat
  BY <1>2, MixedSets, FS_Subset, FS_CardinalityType
<1>4. RiskyOnes \subseteq Workers /\ RiskyOnes' \subseteq Workers
  BY DEF RiskyOnes
<1>5. /\ Cardinality(RiskyOnes) \in Nat /\ Cardinality(RiskyOnes') \in Nat
      /\ Cardinality(RiskyOnes') <= Cardinality(Workers)
  BY <1>4, MixedSets
<1> DEFINE many == Cardinality(Workers)
           bound == reloads * many
<1>6. many \in Nat /\ bound \in Nat /\ (reloads + 1) * many = bound + many
  BY MixedSets
<1>7. reloads' * many = bound + many
  BY <1>1, <1>6
<1>8. Cardinality(MixedOnes) + Cardinality(RiskyOnes) <= bound
  BY DEF MixedInv
<1> HIDE DEF bound, many
<1>9. Cardinality(MixedOnes') + Cardinality(RiskyOnes') <= bound + many
  BY <1>3, <1>5, <1>6, <1>8 DEF many
<1>10. QED
  BY <1>7, <1>9 DEF MixedInv, many

(* A worker whose row and versions are of one file leaves them unmixed.      *)
LEMMA MixedFinish ==
    ASSUME TypeOK, ResolveInv, NEW w \in Workers, Finish(w), ~AtRisk(w)
    PROVE  ~Mixed(request[idx[w]], Found(Mine(w), row[w].purl_id, read[w]))
<1> DEFINE k == idx[w]
           c == Found(Mine(w), row[w].purl_id, read[w])
<1>1. at[w] = "read" /\ Busy(w)
  BY DEF Finish, Busy
<1>2. /\ Sane(k).status = "SUCCESS" /\ row[w] # NoRow
      /\ Mine(w) = Sane(k) /\ Mine(w) = Sanitised(request[k])
  BY <1>1, RowFound, MineIsSane
<1>3. /\ Sane(k).purl \in PurlType
      /\ CandidateKeys(LookedUp(request[k])) = CandidateKeys(Sane(k).purl)
  BY <1>1, <1>2, MineIsSane
<1>4. PICK f \in served : row[w] = RowIn(f, k) /\ read[w] = Export[f].published[row[w].purl_id]
  BY <1>1 DEF AtRisk
<1>5. f \in Files
  BY DEF TypeOK, HandleTypeOK
<1>6. Identifies(f, Sane(k).purl, row[w].purl_id)
  BY <1>2, <1>3, <1>4, <1>5, RowPicked DEF RowIn
<1>7. Identifies(f, LookedUp(request[k]), row[w].purl_id)
  BY <1>3, <1>6 DEF Identifies
<1>8. c.purl_id = row[w].purl_id /\ c.versions = read[w]
  BY <1>2 DEF Found, Sanitised
<1>9. QED
  BY <1>4, <1>7, <1>8 DEF Mixed

LEMMA MixedStep ==
    ASSUME TypeOK, TypeOK', ResolveInv, MixedInv, [Next]_vars
    PROVE  MixedInv'
<1> USE DEF environment, handle
<1>1. CASE Main \/ UNCHANGED vars
  <2>1. UNCHANGED <<request, components, handle, at, idx, row, read>>
    BY <1>1 DEF Main, Send, CloseJobs, Return, vars
  <2>2. \A w \in Workers : AtRisk(w)' => AtRisk(w)
    BY <2>1 DEF AtRisk, RowIn, Sane
  <2>3. QED
    BY <2>1, <2>2, MixedUnwritten
<1>2. ASSUME NEW w \in Workers, Take(w) \/ Ends(w) \/ Skip(w) PROVE MixedInv'
  <2>1. /\ UNCHANGED <<request, components, handle, row, read>>
        /\ at'[w] \in {"resolving", "ended", "ready"}
        /\ \A u \in Workers \ {w} : at'[u] = at[u] /\ idx'[u] = idx[u]
    BY <1>2 DEF Take, Ends, Skip, Goes, TypeOK
  <2>2. \A u \in Workers : AtRisk(u)' => AtRisk(u)
    BY <2>1 DEF AtRisk, RowIn, Sane
  <2>3. QED
    BY <2>1, <2>2, MixedUnwritten
<1>3. ASSUME NEW w \in Workers, Identify(w) PROVE MixedInv'
  <2> DEFINE k == idx[w]
             hit == RowIn(file, k)
  <2>1. at[w] = "resolving" /\ Mine(w).status = "SUCCESS" /\ Busy(w)
    BY <1>3 DEF Identify, Busy
  <2>2. Sane(k).purl \in PurlType /\ Mine(w) = Sane(k) /\ Mine(w) = Sanitised(request[k])
    BY <2>1, MineIsSane
  <2>3. file \in Files
    BY DEF TypeOK, HandleTypeOK
  <2>4. PickKey(CandidateKeys(Mine(w).purl),
                Matching(CandidateKeys(Mine(w).purl), Export[file].rows)) = hit
    BY <2>2, <2>3, RowPicked DEF RowIn
  <2>5. /\ row' = [row EXCEPT ![w] = hit]
        /\ IF hit = NoRow THEN Goes(w, "ready") /\ Writes(w, NotFound(Mine(w)))
                          ELSE Goes(w, "identified") /\ UNCHANGED components
        /\ UNCHANGED <<request, handle, sent, taken, main, idx, read>>
    BY <1>3, <2>4 DEF Identify
  <2>6. row'[w] = hit /\ \A u \in Workers \ {w} : row'[u] = row[u]
    BY <2>5 DEF TypeOK
  <2> HIDE DEF hit
  <2>7. CASE hit = NoRow
    <3>1. ~Mixed(request[k], NotFound(Mine(w)))
      <4>1. NotFound(Mine(w)).purl_id = "none"
        BY <2>2, NotFoundHasNoId
      <4>2. QED
        BY <4>1 DEF Mixed
    <3>2. /\ at' = [at EXCEPT ![w] = "ready"]
          /\ components' = [components EXCEPT ![k] = NotFound(Mine(w))]
      BY <2>5, <2>7 DEF Goes, Writes
    <3>3. QED
      BY <2>5, <2>6, <3>1, <3>2, MixedWritten
  <2>8. CASE hit # NoRow
    <3>1. UNCHANGED components /\ \A u \in Workers : at'[u] = IF u = w THEN "identified" ELSE at[u]
      BY <2>5, <2>8 DEF Goes, TypeOK
    <3>2. row'[w] = RowIn(file, idx[w])'
      BY <2>5, <2>6 DEF hit, RowIn, Sane
    <3>3. ~AtRisk(w)'
      BY <3>1, <3>2 DEF AtRisk
    <3>4. \A u \in Workers \ {w} : AtRisk(u)' => AtRisk(u)
      BY <2>5, <2>6, <3>1 DEF AtRisk, RowIn, Sane
    <3>5. QED
      BY <2>5, <3>1, <3>3, <3>4, MixedUnwritten
  <2>9. QED
    BY <2>7, <2>8
<1>4. ASSUME NEW w \in Workers, ReadVersions(w) PROVE MixedInv'
  <2>1. /\ at[w] = "identified" /\ UNCHANGED <<request, components, handle, idx, row>>
        /\ read'[w] = Export[file].published[row[w].purl_id]
        /\ \A u \in Workers \ {w} : at'[u] = at[u] /\ read'[u] = read[u]
        /\ at'[w] = "read"
    BY <1>4 DEF ReadVersions, Goes, TypeOK
  <2>2. file \in served
    BY DEF TypeOK, HandleTypeOK
  <2>3. AtRisk(w)' => AtRisk(w)
    BY <2>1, <2>2 DEF AtRisk, RowIn, Sane
  <2>4. \A u \in Workers \ {w} : AtRisk(u)' => AtRisk(u)
    BY <2>1 DEF AtRisk, RowIn, Sane
  <2>5. QED
    BY <2>1, <2>3, <2>4, MixedUnwritten
<1>5. ASSUME NEW w \in Workers, QueryFails(w) PROVE MixedInv'
  <2>1. /\ Busy(w) /\ Mine(w).status = "SUCCESS"
        /\ at' = [at EXCEPT ![w] = "ready"]
        /\ components' = [components EXCEPT ![idx[w]] = NotFound(Mine(w))]
        /\ UNCHANGED <<request, file, served, reloads, idx, row, read>>
    BY <1>5 DEF QueryFails, Fail, Writes, Goes, Busy
  <2>2. ~Mixed(request[idx[w]], NotFound(Mine(w)))
    <3>1. Mine(w) = Sanitised(request[idx[w]])
      BY <2>1, MineIsSane
    <3>2. NotFound(Mine(w)).purl_id = "none"
      BY <3>1, NotFoundHasNoId
    <3>3. QED
      BY <3>2 DEF Mixed
  <2>3. QED
    BY <2>1, <2>2, MixedWritten
<1>6. ASSUME NEW w \in Workers, Finish(w) PROVE MixedInv'
  <2> DEFINE c == Found(Mine(w), row[w].purl_id, read[w])
  <2>1. /\ at' = [at EXCEPT ![w] = "ready"]
        /\ components' = [components EXCEPT ![idx[w]] = c]
        /\ UNCHANGED <<request, file, served, reloads, idx, row, read>>
    BY <1>6 DEF Finish, Writes, Goes
  <2>2. Mixed(request[idx[w]], c) => AtRisk(w)
    BY <1>6, MixedFinish
  <2> HIDE DEF c
  <2>3. QED
    BY <2>1, <2>2, MixedWritten
<1>7. QED
  BY <1>1, <1>2, <1>3, <1>4, <1>5, <1>6, MixedReload DEF Next, Work

-----------------------------------------------------------------------------
(* How a component that was found is pinned, from what was asked for it.      *)
LEMMA Pins ==
    ASSUME request \in Requests, NEW k \in 1..n, Sane(k).status = "SUCCESS", NEW versions
    PROVE  LET dto == request[k]
               pinned == PinVersion(versions, Sane(k).purl.version, Sane(k).requirement)
           IN  IF Asked(dto) # NoVersion
               THEN Asked(dto) \in VersionType /\ pinned = MatchVersion(versions, Asked(dto))
               ELSE pinned = SelectVersion(versions, Allowed(dto.requirement))
<1> DEFINE dto == request[k]
           inPurl == Sane(k).purl.version
           requirement == Sane(k).requirement
<1>1. Sane(k) = Sanitised(dto) /\ dto.purl \in PurlType /\ IsRequirement(dto.requirement)
  BY SanitisedFields
<1>2. dto.purl.version \in VersionType
  BY <1>1 DEF PurlType
<1>3. /\ inPurl \in {NoVersion, dto.purl.version}
      /\ requirement = IF dto.purl.version # NoVersion
                       THEN Literal(dto.purl.version) ELSE dto.requirement
  <2>1. Stripped(dto.purl).version \in {NoVersion, dto.purl.version}
    BY <1>1, StrippedPurl
  <2>2. /\ Sanitised(dto).purl = Stripped(dto.purl)
        /\ Sanitised(dto).requirement = IF dto.purl.version # NoVersion
                                        THEN Literal(dto.purl.version) ELSE dto.requirement
    BY DEF Sanitised
  <2>3. QED
    BY <1>1, <2>1, <2>2
<1> HIDE DEF inPurl, requirement
<1>4. CASE dto.purl.version # NoVersion
  <2>1. Asked(dto) = dto.purl.version /\ requirement = Literal(dto.purl.version)
    BY <1>3, <1>4 DEF Asked
  <2>2. requirement.kind = "literal" /\ requirement.version = dto.purl.version
    BY <2>1 DEF Literal
  <2>3. PinVersion(versions, inPurl, requirement) = MatchVersion(versions, dto.purl.version)
    BY <1>3, <2>2 DEF PinVersion
  <2>4. QED
    BY <1>2, <1>4, <2>1, <2>3 DEF inPurl, requirement
<1>5. CASE dto.purl.version = NoVersion
  <2>1. inPurl = NoVersion /\ requirement = dto.requirement
    BY <1>3, <1>5
  <2>2. CASE requirement.kind = "literal"
    <3>1. requirement.version \in VersionType \ {NoVersion}
      BY <1>1, <2>1, <2>2 DEF IsRequirement, NoRequirement, Unparseable
    <3>2. Asked(dto) = requirement.version
      BY <1>5, <2>1, <2>2 DEF Asked
    <3>3. PinVersion(versions, inPurl, requirement) = MatchVersion(versions, requirement.version)
      BY <2>1, <2>2 DEF PinVersion
    <3>4. QED
      BY <3>1, <3>2, <3>3 DEF inPurl, requirement
  <2>3. CASE requirement.kind # "literal"
    <3>1. Asked(dto) = NoVersion
      BY <1>5, <2>1, <2>3 DEF Asked
    <3>2. PinVersion(versions, inPurl, requirement) = SelectVersion(versions, Allowed(requirement))
      BY <2>1, <2>3 DEF PinVersion
    <3>3. QED
      BY <2>1, <3>1, <3>2 DEF inPurl, requirement
  <2>4. QED
    BY <2>2, <2>3
<1>6. QED
  BY <1>4, <1>5

(* What resolveOne makes of the versions of its row is the best answer.      *)
LEMMA FoundIsBest ==
    ASSUME request \in Requests, NEW k \in 1..n, Sane(k).status = "SUCCESS",
           NEW purl_id, NEW versions \in Seq(VersionType)
    PROVE  LET c == Found(Sane(k), purl_id, versions)
           IN  /\ c.purl_id = purl_id /\ c.versions = versions
               /\ c.status # "COMPONENT_NOT_FOUND" /\ BestVersion(request[k], c)
<1> DEFINE dto == request[k]
           pinned == PinVersion(versions, Sane(k).purl.version, Sane(k).requirement)
           c == Found(Sane(k), purl_id, versions)
           suitable == Suitable(dto, versions)
<1>1. Sane(k) = Sanitised(dto) /\ IsRequirement(dto.requirement)
  BY SanitisedFields
<1>2. /\ c.purl_id = purl_id /\ c.versions = versions /\ c.version = pinned
      /\ c.status = IF pinned = NoVersion THEN "VERSION_NOT_FOUND" ELSE "SUCCESS"
  BY <1>1 DEF Found, Sanitised
<1>3. Len(versions) \in Nat /\ DOMAIN versions = 1..Len(versions)
      /\ \A i \in 1..Len(versions) : versions[i] \in VersionType
  OBVIOUS
<1>4. IF suitable = {} THEN pinned = NoVersion
      ELSE /\ pinned # NoVersion /\ pinned \in suitable
           /\ \A x \in suitable : Precedence(x) <= Precedence(pinned)
           /\ Asked(dto) \in ToSet(versions) => Asked(dto) \in {pinned, NoVersion}
  <2>1. CASE Asked(dto) # NoVersion
    <3> DEFINE wanted == Asked(dto)
    <3>1. wanted \in VersionType \ {NoVersion} /\ pinned = MatchVersion(versions, wanted)
      BY <2>1, Pins
    <3> HIDE DEF wanted, pinned
    <3>2. suitable = ToSet(versions) \intersect {wanted, TogglePrefix(wanted)}
      BY <2>1, <3>1, TogglesPrefix DEF Suitable, wanted
    <3>3. /\ pinned # NoVersion => pinned \in suitable
          /\ pinned = NoVersion => suitable = {}
          /\ wanted \in ToSet(versions) => pinned = wanted
      BY <3>1, <3>2, MatchesEither
    <3>4. NoVersion \notin suitable
      BY DEF Suitable
    <3>5. \A x \in suitable : Precedence(x) = Precedence(wanted) /\ Precedence(wanted) \in Nat
      BY <3>1, <3>2, TogglesPrefix
    <3>6. \A x, y \in suitable : Precedence(x) <= Precedence(y)
      BY <3>5
    <3>7. QED
      BY <3>3, <3>4, <3>6 DEF wanted
  <2>2. CASE Asked(dto) = NoVersion
    <3> DEFINE allowed == Allowed(dto.requirement)
               fits == Fits(versions, allowed)
    <3>1. Selected(versions, fits, pinned)
      BY <2>2, Pins, SelectsHighest
    <3>2. suitable = {versions[i] : i \in fits} /\ fits \subseteq 1..Len(versions)
      BY <1>3, <2>2 DEF Suitable, Fits, ToSet
    <3> HIDE DEF pinned, fits, suitable
    <3>3. CASE fits = {}
      BY <3>1, <3>2, <3>3 DEF Selected
    <3>4. CASE fits # {}
      <4>1. PICK i \in fits : FirstHighest(versions, fits, i) /\ pinned = versions[i]
        BY <3>1, <3>4 DEF Selected
      <4>2. pinned \in suitable /\ \A x \in suitable : Precedence(x) <= Precedence(pinned)
        BY <3>2, <4>1 DEF FirstHighest
      <4>3. pinned # NoVersion
        BY <4>1 DEF fits, Fits
      <4>4. QED
        BY <2>2, <4>2, <4>3
    <3>5. QED
      BY <3>3, <3>4
  <2>3. QED
    BY <2>1, <2>2
<1> HIDE DEF c, pinned
<1>5. BestVersion(dto, c)
  BY <1>2, <1>4 DEF BestVersion
<1>6. QED
  BY <1>2, <1>5 DEF c

(* An answer that a component may get is right.                              *)
LEMMA OutcomeAnswers ==
    ASSUME TypeOK, NEW k \in 1..n, NEW c, Outcome(k, c)
    PROVE  Answers(request[k], c)
<1>1. request \in Requests /\ served \subseteq Files
  BY DEF TypeOK, HandleTypeOK
<1>2. CASE Sane(k).status # "SUCCESS"
  BY <1>1, <1>2, SanitisedFields DEF Outcome, Answers, Sane
<1>3. CASE Sane(k).status = "SUCCESS" /\ c = NotFound(Sane(k))
  <2>1. Sane(k) = Sanitised(request[k])
    BY <1>1, <1>3, SanitisedFields
  <2>2. c.status = "COMPONENT_NOT_FOUND"
    BY <1>3, <2>1 DEF NotFound, Sanitised
  <2>3. QED
    BY <1>3, <2>2 DEF Answers, Sane
<1>4. CASE Sane(k).status = "SUCCESS" /\ c # NotFound(Sane(k))
  <2>1. PICK f, g \in served :
           /\ RowIn(f, k) # NoRow
           /\ c = Found(Sane(k), RowIn(f, k).purl_id, Export[g].published[RowIn(f, k).purl_id])
    BY <1>4 DEF Outcome
  <2> DEFINE id == RowIn(f, k).purl_id
             versions == Export[g].published[id]
  <2>2. /\ Sane(k).purl \in PurlType
        /\ CandidateKeys(LookedUp(request[k])) = CandidateKeys(Sane(k).purl)
        /\ f \in Files /\ g \in Files
    BY <1>1, <1>4, SanitisedFields
  <2>3. RowIn(f, k) \in Export[f].rows /\ Identifies(f, LookedUp(request[k]), id)
    <3>1. RowIn(f, k) \in Export[f].rows /\ Identifies(f, Sane(k).purl, id)
      BY <2>1, <2>2, RowPicked DEF RowIn
    <3>2. QED
      BY <2>2, <3>1 DEF Identifies
  <2>4. versions \in Seq(VersionType)
    BY <2>2, <2>3, ResolveAssumption DEF ResolveAssumption
  <2> HIDE DEF id, versions
  <2>5. c = Found(Sane(k), id, versions)
    BY <2>1 DEF id, versions
  <2>6. c.purl_id = id /\ c.versions = versions /\ BestVersion(request[k], c)
    BY <1>1, <1>4, <2>4, <2>5, FoundIsBest
  <2>7. c.versions = Export[g].published[c.purl_id]
    BY <2>6 DEF id, versions
  <2>8. \E h \in served : Identifies(h, LookedUp(request[k]), c.purl_id)
    BY <2>3, <2>6 DEF id
  <2>9. QED
    BY <1>4, <2>6, <2>7, <2>8 DEF Answers, Sane
<1>5. QED
  BY <1>2, <1>3, <1>4

(* Every component has its answer when the call returns.                     *)
LEMMA ReturnedMeansAnswered ==
    ASSUME TypeOK, ResolveInv, main = "returned"
    PROVE  Answered = 1..n
<1>1. n \in Nat
  BY ResolveAssumption DEF ResolveAssumption, TypeOK, n
<1>2. \A w \in Workers : at[w] = "ended"
  BY DEF ResolveInv, ControlInv
<1>3. taken = n
  <2>1. CASE n = 0
    BY <2>1 DEF TypeOK
  <2>2. CASE n # 0
    <3>1. 1 \in Workers /\ 1 <= n
      BY <1>1, <2>2, ResolveAssumption DEF ResolveAssumption
    <3>2. QED
      BY <1>2, <3>1 DEF ResolveInv, ControlInv
  <2>3. QED
    BY <2>1, <2>2
<1>4. QED
  BY <1>2, <1>3 DEF Answered, Busy

-----------------------------------------------------------------------------
(* The inductive invariant, with the types it is inductive under.            *)
THEOREM InvariantHolds == Spec => [](TypeOK /\ ResolveInv /\ MixedInv)
<1>1. Init => TypeOK /\ ResolveInv /\ MixedInv
  BY InitResolve, InitMixed
<1>2. TypeOK /\ ResolveInv /\ MixedInv /\ [Next]_vars => (TypeOK /\ ResolveInv /\ MixedInv)'
  BY ResolveStep, MixedStep
<1>3. QED
  BY <1>1, <1>2, PTL DEF Spec

(* Every variable keeps its type: no more indices are sent than there are     *)
(* components, and none is taken that was not sent (components.go:65-82).     *)
THEOREM TypeCorrect == Spec => []TypeOK
BY InvariantHolds, PTL

(* The workers write the slice without a lock, and no two ever the same       *)
(* component, nor any once it is returned (components.go:65-82).             *)
THEOREM WritersAreAlone == Spec => []OneWriter
<1>1. ResolveInv => OneWriter
  BY DEF ResolveInv
<1>2. QED
  BY <1>1, InvariantHolds, PTL

(* Whatever the request, the exports, the reloads and the failures, each      *)
(* component is returned with the identity of the purl sanitising left it     *)
(* (components.go:147 may cut it short), by the most specific key, and the    *)
(* version asked for or the highest allowed; no more of them are denied than  *)
(* queries failed.                                                           *)
THEOREM AnswersAreRight == Spec => []EveryComponentAnswered
<1>1. TypeOK /\ ResolveInv => EveryComponentAnswered
  <2> SUFFICES ASSUME TypeOK, ResolveInv, main = "returned"
               PROVE  /\ \A i \in 1..n : Answers(request[i], components[i])
                      /\ Cardinality({i \in 1..n : Denied(request[i], components[i])}) <= failures
    BY DEF EveryComponentAnswered
  <2>1. \A i \in 1..n : Outcome(i, components[i])
    BY ReturnedMeansAnswered DEF ResolveInv, SliceInv
  <2>2. QED
    BY <2>1, OutcomeAnswers DEF ResolveInv, DenialInv, DeniedOnes
<1>2. QED
  BY <1>1, InvariantHolds, PTL

(* Only what the workers have in hand when the file changes can be mixed from *)
(* two files (resolver.go:169, :188), whatever their number.                 *)
THEOREM OnlyInHandIsMixed == Spec => []OnlyInHandAreMixed
<1>1. TypeOK /\ MixedInv => OnlyInHandAreMixed
  <2> SUFFICES ASSUME TypeOK, MixedInv
               PROVE  Cardinality(MixedOnes) <= reloads * Cardinality(Workers)
    BY DEF OnlyInHandAreMixed, MixedOnes
  <2>1. Cardinality(MixedOnes) \in Nat /\ Cardinality(RiskyOnes) \in Nat
    BY MixedSets DEF RiskyOnes
  <2>2. reloads * Cardinality(Workers) \in Nat
    BY MixedSets
  <2>3. QED
    BY <2>1, <2>2 DEF MixedInv
<1>2. QED
  BY <1>1, InvariantHolds, PTL

(* With one file served and every query answered, the workers leave what      *)
(* resolving the components one after another would.                         *)
THEOREM WorkersChangeNothing == Spec => []SameAsSequential
<1>1. TypeOK /\ ResolveInv => SameAsSequential
  <2> SUFFICES ASSUME TypeOK, ResolveInv, main = "returned", failures = 0, served = {file}
               PROVE  components = [i \in 1..n |-> Resolution(request[i], Export[file])]
    BY DEF SameAsSequential
  <2>1. request \in Requests /\ file \in Files
    BY DEF TypeOK, HandleTypeOK
  <2>2. n \in Nat
    BY <2>1, ResolveAssumption DEF ResolveAssumption, n
  <2>3. DeniedOnes = {}
    <3>1. IsFiniteSet(1..n)
      BY <2>2, FS_Interval
    <3>2. IsFiniteSet(DeniedOnes) /\ Cardinality(DeniedOnes) \in Nat
      BY <3>1, FS_Subset, FS_CardinalityType DEF DeniedOnes
    <3>3. Cardinality(DeniedOnes) = 0
      BY <3>2 DEF ResolveInv, DenialInv
    <3>4. QED
      BY <3>2, <3>3, FS_EmptySet
  <2>4. ASSUME NEW i \in 1..n PROVE components[i] = Resolution(request[i], Export[file])
    <3> DEFINE c == components[i]
               hit == RowIn(file, i)
    <3>1. Outcome(i, c) /\ ~Denied(request[i], c)
      BY <2>3, ReturnedMeansAnswered DEF ResolveInv, SliceInv, DeniedOnes
    <3>2. /\ Sane(i).purl \in PurlType
          /\ Sane(i).status = "SUCCESS" =>
                /\ Sane(i) = Sanitised(request[i])
                /\ CandidateKeys(LookedUp(request[i])) = CandidateKeys(Sane(i).purl)
      BY <2>1, SanitisedFields
    <3>3. Resolution(request[i], Export[file]) =
             IF Sane(i).status # "SUCCESS" THEN Sane(i)
             ELSE IF hit = NoRow THEN NotFound(Sane(i))
             ELSE Found(Sane(i), hit.purl_id, Export[file].published[hit.purl_id])
      BY <3>2 DEF Resolution, ResolutionAcross, Sane, RowIn
    <3>4. CASE Sane(i).status # "SUCCESS"
      BY <3>1, <3>2, <3>3, <3>4 DEF Outcome
    <3>5. CASE Sane(i).status = "SUCCESS" /\ c = NotFound(Sane(i))
      <4>1. c.status = "COMPONENT_NOT_FOUND"
        BY <3>2, <3>5 DEF NotFound, Sanitised
      <4>2. Unknown(request[i])
        BY <3>1, <4>1 DEF Denied
      <4>3. hit = NoRow
        BY <2>1, <3>2, <3>5, <4>2, RowPicked DEF Unknown, RowIn
      <4>4. QED
        BY <3>2, <3>3, <3>5, <4>3
    <3>6. CASE Sane(i).status = "SUCCESS" /\ c # NotFound(Sane(i))
      <4>1. hit # NoRow /\ c = Found(Sane(i), hit.purl_id, Export[file].published[hit.purl_id])
        BY <3>1, <3>6 DEF Outcome
      <4>2. QED
        BY <3>2, <3>3, <3>6, <4>1
    <3>7. QED
      BY <3>4, <3>5, <3>6
  <2>5. components = [i \in 1..n |-> components[i]]
    BY DEF ResolveInv, SliceInv
  <2>6. QED
    BY <2>4, <2>5
<1>2. QED
  BY <1>1, InvariantHolds, PTL

(* The call does what BatchAnswer promises its callers, step by step: each    *)
(* component is written once, in one step, and the slice is handed back when  *)
(* all have been.                                                            *)
THEOREM BatchIsAnswered == Spec => ImplementsBatchAnswer
<1>1. TypeOK /\ ResolveInv /\ [Next]_vars => [Batch!Next]_<<components, Answered, main = "returned">>
  BY ResolveStep DEF BatchStep
<1>2. Init => Batch!Init
  BY InitResolve
<1>3. QED
  BY <1>1, <1>2, InvariantHolds, PTL DEF Spec, ImplementsBatchAnswer, Batch!Spec
=============================================================================
