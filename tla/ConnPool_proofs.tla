--------------------------- MODULE ConnPool_proofs ---------------------------
(* Safety of ConnPool for any number of requests, connections and reloads,    *)
(* and any limits: where each open connection is, how many there are, which   *)
(* queries a superseded file can serve, and how many a reload can fail.      *)
EXTENDS ConnPool, FiniteSetTheorems, SequenceTheorems, TLAPS

Holds(q) == pc[q] \in {"reset", "bad", "running", "drop", "put"}
Idle(c) == \E i \in DOMAIN idle : idle[i] = c
Held(c) == \E q \in Requests : conn[q] = c
Taken == drop \union cleaned

(* A query has a connection exactly where the code has one in hand, and that *)
(* one is open.                                                              *)
HolderInv ==
    \A q \in Requests : IF Holds(q) THEN conn[q] \in Open ELSE conn[q] = NoConn

(* An open connection is in one place only.                                  *)
OwnerInv ==
    /\ \A i, j \in DOMAIN idle : idle[i] = idle[j] => i = j
    /\ \A q, r \in Requests : conn[q] = conn[r] /\ conn[q] # NoConn => q = r
    /\ \A q \in Requests : conn[q] # NoConn => conn[q] # dialled /\ conn[q] \notin Taken
    /\ \A i \in DOMAIN idle : /\ idle[i] # dialled /\ idle[i] \notin Taken
                              /\ \A q \in Requests : conn[q] # idle[i]
    /\ dialled \notin Taken /\ drop \intersect cleaned = {}

(* It is in one of them.                                                     *)
LeakInv == \A c \in Open : c = dialled \/ c \in Taken \/ Held(c) \/ Idle(c)

(* The list is empty, and stays so, from one SetMaxIdleConns to the other.   *)
LimitInv ==
    /\ limit = IF reload = "dropping" THEN 0 ELSE MaxIdle
    /\ IF reload = "dropping" THEN idle = <<>> ELSE drop = {}

(* numOpen counts the connections that are open and those on their way.      *)
Dialling == {q \in Requests : pc[q] = "dial"}
CountInv == numOpen = Cardinality(Open) + asked + Cardinality(Dialling)

(* A last attempt is refused only a connection to a superseded file.         *)
RequestInv ==
    /\ waiting = {q \in Requests : pc[q] = "wait"}
    /\ \A q \in Requests : /\ pc[q] = "new" => left[q] > 0
                           /\ pc[q] # "failed" => tries[q] <= MaxRetries
                           /\ since[q] <= cur
                           /\ pc[q] = "bad" /\ tries[q] >= MaxRetries => of[conn[q]] < cur
    /\ \A c \in Conns : of[c] <= cur

(* Every failed query has used up a connection that a swap made stale.       *)
Stale == {c \in Open : of[c] < cur}
Failed == {q \in Requests : pc[q] = "failed"}
CostInv == Cardinality(Failed) + Cardinality(Stale) <= (cur - 1) * MaxOpen

PoolInv ==
    /\ HolderInv /\ OwnerInv /\ LeakInv /\ LimitInv
    /\ CountInv /\ RequestInv /\ CostInv /\ LateOnlyOnFirstUse

-----------------------------------------------------------------------------
LEMMA Finite ==
    /\ \A S : S \subseteq Conns => IsFiniteSet(S) /\ Cardinality(S) \in Nat
    /\ \A S : S \subseteq Requests => IsFiniteSet(S) /\ Cardinality(S) \in Nat
BY PoolAssumption, FS_Subset, FS_CardinalityType DEF PoolAssumption

(* What the list of idle connections is made of.                             *)
LEMMA IdleSeq ==
    ASSUME TypeOK
    PROVE  /\ Len(idle) \in Nat /\ DOMAIN idle = 1..Len(idle)
           /\ \A i \in 1..Len(idle) : idle[i] \in Open
BY DEF TypeOK

(* The same list, without a connection that is not in it.                    *)
LEMMA IdleAvoids ==
    ASSUME TypeOK, NEW c, \A i \in DOMAIN idle : idle[i] # c
    PROVE  idle \in Seq(Open \ {c})
<1>1. idle \in [1..Len(idle) -> Open]
  BY LenProperties DEF TypeOK
<1>2. idle \in [1..Len(idle) -> Open \ {c}]
  BY <1>1, IdleSeq
<1>3. QED
  BY <1>2, IdleSeq, SeqDef

LEMMA InitPool == Init => TypeOK /\ PoolInv
<1> SUFFICES ASSUME Init PROVE TypeOK /\ PoolInv
  OBVIOUS
<1> USE PoolAssumption DEF PoolAssumption, Init
<1>1. Open = {} /\ Dialling = {} /\ Stale = {} /\ Failed = {} /\ Taken = {}
  BY DEF Open, Dialling, Stale, Failed, Taken
<1>2. TypeOK
  BY <1>1 DEF TypeOK
<1>4. HolderInv /\ OwnerInv /\ LeakInv /\ LimitInv
  BY <1>1 DEF HolderInv, OwnerInv, LeakInv, LimitInv, Holds
<1>5. CountInv /\ CostInv
  BY <1>1, FS_EmptySet DEF CountInv, CostInv
<1>6. RequestInv /\ LateOnlyOnFirstUse
  BY DEF RequestInv, LateOnlyOnFirstUse
<1>7. QED
  BY <1>2, <1>4, <1>5, <1>6 DEF PoolInv

-----------------------------------------------------------------------------
(* Closing a connection makes room for at least one more, and asks for no     *)
(* more than there is room for.                                              *)
LEMMA CloseCounts ==
    ASSUME TypeOK, PoolInv, NEW c \in Open, CloseConn(c),
           waiting' = waiting, Dialling' = Dialling
    PROVE  /\ Open' = Open \ {c} /\ of' \in [Conns -> 0..MaxGen] /\ used' \subseteq Open'
           /\ numOpen' \in 0..MaxOpen /\ asked' \in 0..MaxOpen /\ CountInv'
<1> DEFINE wanted == Cardinality(waiting)
           free == MaxOpen - (numOpen - 1)
           more == IF wanted < free THEN wanted ELSE free
<1>1. Open' = Open \ {c} /\ of' \in [Conns -> 0..MaxGen]
  <2>1. of' = [of EXCEPT ![c] = 0] /\ c \in Conns /\ MaxGen \in Nat
    BY PoolAssumption DEF CloseConn, Open, PoolAssumption
  <2>2. QED
    BY <2>1 DEF Open, TypeOK
<1>2. Cardinality(Open') = Cardinality(Open) - 1 /\ Cardinality(Open) \in Nat
      /\ Cardinality(Open') \in Nat
  <2>1. Open \subseteq Conns /\ Open' \subseteq Conns
    BY DEF Open
  <2>2. QED
    BY <1>1, <2>1, Finite, FS_RemoveElement
<1>3. wanted \in Nat /\ Cardinality(Dialling) \in Nat
  BY Finite DEF TypeOK, Dialling
<1>4. numOpen = Cardinality(Open) + asked + Cardinality(Dialling) /\ numOpen \in 0..MaxOpen
      /\ asked \in 0..MaxOpen /\ MaxOpen \in Nat
  BY PoolAssumption DEF PoolInv, CountInv, TypeOK, PoolAssumption
<1>5. numOpen' = numOpen - 1 + more /\ asked' = asked + more
  BY DEF CloseConn
<1>6. more \in 0..free
  BY <1>3, <1>4, <1>2
<1>7. /\ numOpen' \in 0..MaxOpen /\ asked' \in 0..MaxOpen
      /\ numOpen' = Cardinality(Open') + asked' + Cardinality(Dialling)
  BY <1>2, <1>3, <1>4, <1>5, <1>6
<1>8. used' \subseteq Open'
  BY <1>1 DEF CloseConn, TypeOK
<1>9. QED
  BY <1>1, <1>7, <1>8 DEF CountInv

(* A step that fails no query and makes no connection stale costs nothing.    *)
LEMMA CostKept ==
    ASSUME TypeOK, CostInv, cur' = cur, Failed' \subseteq Failed, Stale' \subseteq Stale
    PROVE  CostInv'
<1> DEFINE bound == (cur - 1) * MaxOpen
<1>1. /\ Cardinality(Failed) \in Nat /\ Cardinality(Failed') \in Nat
      /\ Cardinality(Failed') <= Cardinality(Failed)
  <2>1. Failed \subseteq Requests
    BY DEF Failed
  <2>2. QED
    BY <2>1, Finite, FS_Subset
<1>2. /\ Cardinality(Stale) \in Nat /\ Cardinality(Stale') \in Nat
      /\ Cardinality(Stale') <= Cardinality(Stale)
  <2>1. Stale \subseteq Conns
    BY DEF Stale, Open
  <2>2. QED
    BY <2>1, Finite, FS_Subset
<1>3. bound \in Int
  BY PoolAssumption DEF TypeOK, PoolAssumption
<1>4. Cardinality(Failed) + Cardinality(Stale) <= bound
  BY DEF CostInv
<1>5. Cardinality(Failed') + Cardinality(Stale') <= bound
  BY <1>1, <1>2, <1>3, <1>4
<1>6. QED
  BY <1>5 DEF CostInv

LEMMA BeginStep ==
    ASSUME TypeOK, PoolInv, NEW q \in Requests, Begin(q)
    PROVE  TypeOK' /\ PoolInv'
<1> USE DEF PoolInv, Begin, Goto, opened, pool, closing, Taken
<1>1. Open' = Open /\ Dialling' = Dialling /\ Stale' = Stale /\ Failed' = Failed
  BY DEF Open, Dialling, Stale, Failed, TypeOK
<1>2. TypeOK'
  BY <1>1, PoolAssumption DEF TypeOK, RequestInv, PoolAssumption
<1>3. HolderInv' /\ OwnerInv' /\ LeakInv'
  <2>1. pc[q] = "new" /\ \A r \in Requests : pc'[r] = IF r = q THEN "conn" ELSE pc[r]
    BY DEF TypeOK
  <2>2. HolderInv'
    BY <1>1, <2>1 DEF HolderInv, Holds
  <2>3. OwnerInv' /\ LeakInv'
    BY <1>1 DEF OwnerInv, LeakInv, Idle, Held
  <2>4. QED
    BY <2>2, <2>3
<1>4. LimitInv' /\ CountInv'
  BY <1>1 DEF LimitInv, CountInv
<1>5. RequestInv'
  BY PoolAssumption DEF TypeOK, RequestInv, PoolAssumption
<1>6. LateOnlyOnFirstUse'
  <2>1. \A r \in Requests : pc'[r] = "running" => r # q /\ pc[r] = "running"
    BY DEF TypeOK
  <2>2. \A r \in Requests \ {q} : since'[r] = since[r]
    BY DEF TypeOK
  <2>3. QED
    BY <2>1, <2>2 DEF LateOnlyOnFirstUse
<1>7. CostInv'
  BY <1>1, CostKept
<1>8. QED
  BY <1>2, <1>3, <1>4, <1>5, <1>6, <1>7

LEMMA FrontOfIdle ==
    ASSUME TypeOK, OwnerInv, idle # <<>>
    PROVE  /\ Last(idle) \in Open /\ Last(idle) = idle[Len(idle)] /\ Len(idle) \in DOMAIN idle
           /\ Front(idle) \in Seq(Open) /\ Len(Front(idle)) = Len(idle) - 1
           /\ \A i \in DOMAIN Front(idle) : /\ i \in DOMAIN idle
                                            /\ Front(idle)[i] = idle[i]
                                            /\ idle[i] # Last(idle)
           /\ \A i \in DOMAIN idle : idle[i] # Last(idle) => i \in DOMAIN Front(idle)
<1>1. Len(idle) \in Nat \ {0} /\ DOMAIN idle = 1..Len(idle)
      /\ \A i \in 1..Len(idle) : idle[i] \in Open
  BY IdleSeq, EmptySeq DEF TypeOK
<1>2. /\ Front(idle) \in Seq(Open) /\ Len(Front(idle)) = Len(idle) - 1
      /\ \A i \in 1..(Len(idle) - 1) : Front(idle)[i] = idle[i]
  BY <1>1, SubSeqProperties DEF Front
<1>3. DOMAIN Front(idle) = 1..(Len(idle) - 1)
  BY <1>2, LenProperties
<1>4. QED
  BY <1>1, <1>2, <1>3 DEF Last, OwnerInv

LEMMA AcquireIdle ==
    ASSUME TypeOK, PoolInv, NEW q \in Requests, Acquire(q),
           idle # <<>>, conn' = [conn EXCEPT ![q] = Last(idle)], idle' = Front(idle),
           pc' = [pc EXCEPT ![q] = "reset"], numOpen' = numOpen, waiting' = waiting
    PROVE  TypeOK' /\ PoolInv'
<1> USE DEF PoolInv, Acquire, request, opened, closing, Taken
<1>1. Open' = Open /\ Dialling' = Dialling /\ Stale' = Stale /\ Failed' = Failed
  BY DEF Open, Dialling, Stale, Failed, TypeOK
<1>2. pc[q] = "conn" /\ conn[q] = NoConn
  BY DEF HolderInv, Holds
<1>3. TypeOK'
  <2>1. Last(idle) \in Conns
    BY FrontOfIdle DEF Open
  <2>2. idle' \in Seq(Open') /\ Len(idle') <= MaxIdle
    <3>1. idle' \in Seq(Open) /\ Len(idle') = Len(idle) - 1
      BY FrontOfIdle
    <3>2. Len(idle) \in Nat /\ Len(idle) <= MaxIdle /\ MaxIdle \in Nat
      BY IdleSeq, PoolAssumption DEF TypeOK, PoolAssumption
    <3>3. QED
      BY <1>1, <3>1, <3>2
  <2>3. QED
    BY <1>1, <2>1, <2>2 DEF TypeOK
<1>4. HolderInv'
  BY <1>1, FrontOfIdle DEF HolderInv, Holds, TypeOK
<1>5. OwnerInv'
  <2>1. /\ Last(idle) # NoConn /\ Last(idle) # dialled /\ Last(idle) \notin Taken
        /\ \A r \in Requests : conn[r] # Last(idle)
    BY FrontOfIdle, PoolAssumption DEF OwnerInv, Open, PoolAssumption
  <2>2. \A r \in Requests : conn'[r] = IF r = q THEN Last(idle) ELSE conn[r]
    BY DEF TypeOK
  <2>3. \A i \in DOMAIN idle' : i \in DOMAIN idle /\ idle'[i] = idle[i] /\ idle[i] # Last(idle)
    BY FrontOfIdle
  <2>4. UNCHANGED <<dialled, drop, cleaned>>
    OBVIOUS
  <2>5. QED
    BY <2>1, <2>2, <2>3, <2>4 DEF OwnerInv
<1>6. LeakInv'
  <2> SUFFICES ASSUME NEW c \in Open, c # dialled, c \notin Taken
               PROVE  Held(c)' \/ Idle(c)'
    BY <1>1 DEF LeakInv
  <2>1. CASE Held(c)
    BY <1>2, <2>1, PoolAssumption DEF Held, TypeOK, Open, PoolAssumption
  <2>2. CASE c = Last(idle)
    BY <2>2 DEF Held, TypeOK
  <2>3. CASE Idle(c) /\ c # Last(idle)
    BY <2>3, FrontOfIdle DEF Idle
  <2>4. QED
    BY <2>1, <2>2, <2>3 DEF LeakInv
<1>7. LimitInv' /\ CountInv'
  BY <1>1 DEF LimitInv, CountInv
<1>8. RequestInv' /\ LateOnlyOnFirstUse'
  BY <1>2 DEF TypeOK, RequestInv, LateOnlyOnFirstUse
<1>9. CostInv'
  BY <1>1, CostKept
<1>10. QED
  BY <1>3, <1>4, <1>5, <1>6, <1>7, <1>8, <1>9

LEMMA AcquireStep ==
    ASSUME TypeOK, PoolInv, NEW q \in Requests, Acquire(q)
    PROVE  TypeOK' /\ PoolInv'
<1> USE DEF PoolInv, Acquire, request, opened, closing, Taken
<1>1. Open' = Open /\ Stale' = Stale /\ Failed' = Failed
  BY DEF Open, Stale, Failed, TypeOK
<1>2. pc[q] = "conn" /\ conn[q] = NoConn
  BY DEF HolderInv, Holds
<1>3. CASE /\ waiting' = waiting \union {q} /\ pc' = [pc EXCEPT ![q] = "wait"]
           /\ UNCHANGED <<idle, numOpen, conn>>
  <2>1. Dialling' = Dialling
    BY <1>2, <1>3 DEF Dialling, TypeOK
  <2>2. TypeOK'
    BY <1>1, <1>3 DEF TypeOK
  <2>3. HolderInv' /\ OwnerInv' /\ LeakInv'
    <3>1. UNCHANGED <<idle, conn, dialled, drop, cleaned>>
      BY <1>3
    <3>2. \A r \in Requests : pc'[r] = IF r = q THEN "wait" ELSE pc[r]
      BY <1>3 DEF TypeOK
    <3>3. HolderInv'
      BY <1>1, <1>2, <3>1, <3>2 DEF HolderInv, Holds
    <3>4. OwnerInv'
      BY <3>1 DEF OwnerInv
    <3>5. LeakInv'
      BY <1>1, <3>1 DEF LeakInv, Idle, Held
    <3>6. QED
      BY <3>3, <3>4, <3>5
  <2>4. LimitInv' /\ CountInv'
    BY <1>1, <1>3, <2>1 DEF LimitInv, CountInv
  <2>5. RequestInv' /\ LateOnlyOnFirstUse'
    BY <1>2, <1>3 DEF TypeOK, RequestInv, LateOnlyOnFirstUse
  <2>6. CostInv'
    BY <1>1, CostKept
  <2>7. QED
    BY <2>2, <2>3, <2>4, <2>5, <2>6
<1>4. CASE /\ numOpen < MaxOpen /\ numOpen' = numOpen + 1
           /\ pc' = [pc EXCEPT ![q] = "dial"]
           /\ UNCHANGED <<idle, waiting, conn>>
  <2>1. Dialling' = Dialling \union {q} /\ q \notin Dialling
    BY <1>2, <1>4 DEF Dialling, TypeOK
  <2>2. TypeOK'
    BY <1>1, <1>4, PoolAssumption DEF TypeOK, PoolAssumption
  <2>3. HolderInv' /\ OwnerInv' /\ LeakInv'
    <3>1. UNCHANGED <<idle, conn, dialled, drop, cleaned>>
      BY <1>4
    <3>2. \A r \in Requests : pc'[r] = IF r = q THEN "dial" ELSE pc[r]
      BY <1>4 DEF TypeOK
    <3>3. HolderInv'
      BY <1>1, <1>2, <3>1, <3>2 DEF HolderInv, Holds
    <3>4. OwnerInv'
      BY <3>1 DEF OwnerInv
    <3>5. LeakInv'
      BY <1>1, <3>1 DEF LeakInv, Idle, Held
    <3>6. QED
      BY <3>3, <3>4, <3>5
  <2>4. LimitInv'
    BY <1>4 DEF LimitInv
  <2>5. CountInv'
    <3>1. Cardinality(Dialling') = Cardinality(Dialling) + 1 /\ Cardinality(Dialling) \in Nat
      BY <2>1, Finite, FS_AddElement DEF Dialling
    <3>2. Cardinality(Open) \in Nat
      BY Finite DEF Open
    <3>3. QED
      BY <1>1, <1>4, <3>1, <3>2 DEF CountInv, TypeOK
  <2>6. RequestInv' /\ LateOnlyOnFirstUse'
    BY <1>2, <1>4 DEF TypeOK, RequestInv, LateOnlyOnFirstUse
  <2>7. CostInv'
    BY <1>1, CostKept
  <2>8. QED
    BY <2>2, <2>3, <2>4, <2>5, <2>6, <2>7
<1>5. QED
  BY <1>3, <1>4, AcquireIdle

LEMMA DialStep ==
    ASSUME TypeOK, PoolInv, NEW q \in Requests, Dial(q)
    PROVE  TypeOK' /\ PoolInv'
<1> USE DEF PoolInv, Goto, Ran, opened, pool, closing, Taken
<1>1. PICK c \in Conns \ Open : of' = [of EXCEPT ![c] = cur] /\ conn' = [conn EXCEPT ![q] = c]
  BY DEF Dial
<1>2. /\ pc[q] = "dial" /\ pc' = [pc EXCEPT ![q] = "running"] /\ conn[q] = NoConn
      /\ first' = [first EXCEPT ![q] = IF @ = 0 THEN cur ELSE @]
      /\ UNCHANGED <<cur, used, idle, limit, numOpen, waiting, asked, dialled, tries, left,
                     since, reload, drop, cleaned>>
  BY DEF Dial, HolderInv, Holds
<1>3. Open' = Open \union {c} /\ Stale' = Stale /\ Failed' = Failed
  BY <1>1, <1>2, PoolAssumption DEF Open, Stale, Failed, TypeOK, PoolAssumption
<1>4. Dialling' = Dialling \ {q} /\ q \in Dialling
  BY <1>2 DEF Dialling, TypeOK
<1>5. TypeOK'
  <2>1. idle' \in Seq(Open')
    BY <1>2, <1>3, SeqMonotonic DEF TypeOK
  <2>2. of' \in [Conns -> 0..MaxGen] /\ conn' \in [Requests -> Conns \union {NoConn}]
    BY <1>1, PoolAssumption DEF TypeOK, PoolAssumption
  <2>3. first' \in [Requests -> 0..MaxGen]
    BY <1>2, PoolAssumption DEF TypeOK, PoolAssumption
  <2>4. QED
    BY <1>2, <1>3, <2>1, <2>2, <2>3 DEF TypeOK
<1>6. HolderInv'
  BY <1>1, <1>2, <1>3 DEF HolderInv, Holds, TypeOK
<1>7. OwnerInv'
  <2>1. \A r \in Requests : conn'[r] = IF r = q THEN c ELSE conn[r]
    BY <1>1 DEF TypeOK
  <2>2. /\ \A r \in Requests : conn[r] # c
        /\ \A i \in DOMAIN idle : idle[i] # c
        /\ c # NoConn /\ c # dialled /\ c \notin Taken
    BY IdleSeq, PoolAssumption DEF HolderInv, TypeOK, PoolAssumption
  <2>3. QED
    BY <1>2, <2>1, <2>2 DEF OwnerInv
<1>8. LeakInv'
  <2>1. Held(c)'
    BY <1>1 DEF Held, TypeOK
  <2>2. \A d \in Open : Held(d) => Held(d)'
    BY <1>1, <1>2, PoolAssumption DEF Held, TypeOK, Open, PoolAssumption
  <2>3. \A d : Idle(d)' <=> Idle(d)
    BY <1>2 DEF Idle
  <2>4. QED
    BY <1>2, <1>3, <2>1, <2>2, <2>3 DEF LeakInv
<1>9. LimitInv'
  BY <1>2 DEF LimitInv
<1>10. CountInv'
  <2>1. Open \subseteq Conns /\ Dialling \subseteq Requests
    BY DEF Open, Dialling
  <2>2. /\ Cardinality(Open') = Cardinality(Open) + 1 /\ Cardinality(Open) \in Nat
        /\ Cardinality(Dialling') = Cardinality(Dialling) - 1 /\ Cardinality(Dialling) \in Nat
    BY <1>1, <1>3, <1>4, <2>1, Finite, FS_AddElement, FS_RemoveElement
  <2>3. numOpen = Cardinality(Open) + asked + Cardinality(Dialling) /\ asked \in Nat
    BY PoolAssumption DEF CountInv, TypeOK, PoolAssumption
  <2>4. QED
    BY <1>2, <2>2, <2>3 DEF CountInv
<1>11. RequestInv' /\ LateOnlyOnFirstUse'
  <2>1. cur \in Nat /\ \A d \in Conns : of'[d] = IF d = c THEN cur ELSE of[d]
    BY <1>1, PoolAssumption DEF TypeOK, PoolAssumption
  <2>2. \A d \in Conns : of'[d] <= cur
    BY <2>1 DEF RequestInv
  <2>3. \A r \in Requests : /\ pc'[r] = IF r = q THEN "running" ELSE pc[r]
                            /\ conn'[r] = IF r = q THEN c ELSE conn[r]
                            /\ first'[r] = IF r = q /\ first[q] = 0 THEN cur ELSE first[r]
    BY <1>1, <1>2 DEF TypeOK
  <2>4. \A r \in Requests : pc[r] = "bad" => conn[r] \in Open
    BY DEF HolderInv, Holds
  <2>5. \A r \in Requests : pc'[r] = "bad" /\ tries[r] >= MaxRetries => of'[conn'[r]] < cur
    BY <1>1, <2>1, <2>3, <2>4 DEF RequestInv
  <2>6. LateOnlyOnFirstUse'
    <3> SUFFICES ASSUME NEW r \in Requests, pc'[r] = "running", of'[conn'[r]] < since[r]
                 PROVE  conn'[r] \notin used
      BY <1>2 DEF LateOnlyOnFirstUse
    <3>1. CASE r = q
      <4>1. conn'[r] = c /\ of'[c] = cur /\ since[r] <= cur /\ since[r] \in Nat
        BY <1>1, <2>1, <2>3, <3>1, PoolAssumption DEF RequestInv, TypeOK, PoolAssumption
      <4>2. QED
        BY <2>1, <4>1
    <3>2. CASE r # q
      <4>1. pc[r] = "running" /\ conn'[r] = conn[r]
        BY <2>3, <3>2
      <4>2. conn[r] \in Open /\ Open \subseteq Conns
        BY <4>1 DEF HolderInv, Holds, Open
      <4>3. of'[conn[r]] = of[conn[r]]
        BY <1>1, <2>1, <4>2
      <4>4. QED
        BY <4>1, <4>3 DEF LateOnlyOnFirstUse
    <3>3. QED
      BY <3>1, <3>2
  <2>7. QED
    BY <1>2, <2>2, <2>3, <2>5, <2>6 DEF RequestInv
<1>12. CostInv'
  BY <1>2, <1>3, CostKept
<1>13. QED
  BY <1>5, <1>6, <1>7, <1>8, <1>9, <1>10, <1>11, <1>12

LEMMA ResetStep ==
    ASSUME TypeOK, PoolInv, NEW q \in Requests, ResetSession(q)
    PROVE  TypeOK' /\ PoolInv'
<1> USE DEF PoolInv, Goto, Ran, pool, opened, closing, Taken
<1> DEFINE valid == conn[q] \in used => of[conn[q]] = cur
<1>1. /\ pc[q] = "reset" /\ pc' = [pc EXCEPT ![q] = IF valid THEN "running" ELSE "bad"]
      /\ first' \in {first, [first EXCEPT ![q] = IF @ = 0 THEN of[conn[q]] ELSE @]}
      /\ UNCHANGED <<cur, of, used, idle, waiting, numOpen, asked, limit, dialled, conn, tries,
                     left, since, reload, drop, cleaned>>
  BY DEF ResetSession
<1>2. Open' = Open /\ Dialling' = Dialling /\ Stale' = Stale /\ Failed' = Failed
  BY <1>1 DEF Open, Dialling, Stale, Failed, TypeOK
<1>3. TypeOK'
  <2>1. first' \in [Requests -> 0..MaxGen]
    BY <1>1 DEF TypeOK, HolderInv, Holds, Open
  <2>2. QED
    BY <1>1, <1>2, <2>1 DEF TypeOK
<1>4. HolderInv' /\ OwnerInv' /\ LeakInv'
  <2>1. \A r \in Requests : Holds(r)' <=> Holds(r)
    BY <1>1 DEF Holds, TypeOK
  <2>2. HolderInv'
    BY <1>1, <1>2, <2>1 DEF HolderInv
  <2>3. OwnerInv' /\ LeakInv'
    BY <1>1, <1>2 DEF OwnerInv, LeakInv, Idle, Held
  <2>4. QED
    BY <2>2, <2>3
<1>5. LimitInv' /\ CountInv'
  BY <1>1, <1>2 DEF LimitInv, CountInv
<1>6. RequestInv' /\ LateOnlyOnFirstUse'
  <2>1. conn[q] \in Conns /\ of[conn[q]] <= cur /\ of[conn[q]] \in Nat /\ cur \in Nat
    BY <1>1, PoolAssumption DEF HolderInv, Holds, Open, RequestInv, TypeOK, PoolAssumption
  <2>2. \A r \in Requests : pc'[r] = IF r # q THEN pc[r] ELSE IF valid THEN "running" ELSE "bad"
    BY <1>1 DEF TypeOK
  <2>3. since[q] <= cur /\ since[q] \in Nat
    BY PoolAssumption DEF RequestInv, TypeOK, PoolAssumption
  <2>4. RequestInv'
    BY <1>1, <2>1, <2>2 DEF RequestInv
  <2>5. LateOnlyOnFirstUse'
    BY <1>1, <2>1, <2>2, <2>3 DEF LateOnlyOnFirstUse
  <2>6. QED
    BY <2>4, <2>5
<1>7. CostInv'
  BY <1>1, <1>2, CostKept
<1>8. QED
  BY <1>3, <1>4, <1>5, <1>6, <1>7

(* A connection changes its state in the hands of the query that holds it.   *)
LEMMA HolderMoves ==
    ASSUME TypeOK, PoolInv, NEW q \in Requests, NEW from, NEW to, Goto(q, from, to),
           from \in {"reset", "running", "put"}, to \in {"bad", "drop", "put"},
           to = "bad" => tries[q] < MaxRetries, used' \in {used, used \union {conn[q]}},
           UNCHANGED <<cur, of, pool, limit, dialled, conn, tries, request, reload, closing>>
    PROVE  TypeOK' /\ PoolInv'
<1> USE DEF PoolInv, Goto, pool, request, closing, Taken
<1>1. Open' = Open /\ Dialling' = Dialling /\ Stale' = Stale /\ Failed' = Failed
  BY DEF Open, Dialling, Stale, Failed, TypeOK
<1>2. \A r \in Requests : pc'[r] = IF r = q THEN to ELSE pc[r]
  BY DEF TypeOK
<1>3. conn[q] \in Open /\ conn[q] # NoConn
  BY PoolAssumption DEF HolderInv, Holds, Open, PoolAssumption
<1>4. TypeOK'
  BY <1>1, <1>3 DEF TypeOK
<1>5. HolderInv' /\ OwnerInv' /\ LeakInv'
  BY <1>1, <1>2 DEF HolderInv, OwnerInv, LeakInv, Holds, Idle, Held
<1>6. LimitInv' /\ CountInv'
  BY <1>1 DEF LimitInv, CountInv
<1>7. RequestInv'
  <2>1. tries[q] \in Nat /\ MaxRetries \in Nat
    BY PoolAssumption DEF TypeOK, PoolAssumption
  <2>2. pc[q] # "failed"
    OBVIOUS
  <2>3. QED
    BY <1>2, <2>1, <2>2 DEF RequestInv
<1>8. LateOnlyOnFirstUse'
  <2>1. \A r \in Requests : pc'[r] = "running" => r # q /\ pc[r] = "running" /\ conn[r] # conn[q]
    BY <1>2, <1>3 DEF OwnerInv
  <2>2. QED
    BY <2>1 DEF LateOnlyOnFirstUse
<1>9. CostInv'
  BY <1>1, CostKept
<1>10. QED
  BY <1>4, <1>5, <1>6, <1>7, <1>8, <1>9

LEMMA HolderStep ==
    ASSUME TypeOK, PoolInv, NEW q \in Requests, TooOld(q) \/ IsValid(q) \/ PutExpired(q)
    PROVE  TypeOK' /\ PoolInv'
<1>1. CASE TooOld(q)
  BY <1>1, HolderMoves DEF TooOld, opened
<1>2. CASE IsValid(q)
  <2>1. CASE of[conn[q]] = cur
    BY <1>2, <2>1, HolderMoves DEF IsValid
  <2>2. CASE of[conn[q]] # cur
    BY <1>2, <2>2, HolderMoves DEF IsValid
  <2>3. QED
    BY <2>1, <2>2
<1>3. CASE PutExpired(q)
  BY <1>3, HolderMoves DEF PutExpired, opened
<1>4. QED
  BY <1>1, <1>2, <1>3

(* A query gives its connection up, and it is closed.                        *)
LEMMA CloseHeld ==
    ASSUME TypeOK, PoolInv, NEW q \in Requests, Holds(q), CloseConn(conn[q]),
           conn' = [conn EXCEPT ![q] = NoConn],
           NEW to \in {"conn", "failed", "new", "done"}, pc' = [pc EXCEPT ![q] = to],
           UNCHANGED <<cur, idle, limit, waiting, dialled, request, reload, closing>>,
           tries' \in [Requests -> 0..MaxRetries + 1]
    PROVE  /\ TypeOK' /\ HolderInv' /\ OwnerInv' /\ LeakInv' /\ LimitInv' /\ CountInv'
           /\ LateOnlyOnFirstUse'
           /\ conn[q] \in Open /\ Open' = Open \ {conn[q]}
           /\ Stale' = Stale \ {conn[q]}
<1> USE DEF PoolInv, request, closing, Taken
<1>1. conn[q] \in Open /\ Dialling' = Dialling
  BY DEF HolderInv, Dialling, Holds, TypeOK
<1>2. /\ Open' = Open \ {conn[q]} /\ of' \in [Conns -> 0..MaxGen] /\ used' \subseteq Open'
      /\ numOpen' \in 0..MaxOpen /\ asked' \in 0..MaxOpen /\ CountInv'
  BY <1>1, CloseCounts
<1>3. of' = [of EXCEPT ![conn[q]] = 0] /\ conn[q] \in Conns /\ used' \subseteq used
  BY <1>1 DEF CloseConn, Open
<1>4. \A r \in Requests : /\ conn'[r] = IF r = q THEN NoConn ELSE conn[r]
                          /\ pc'[r] = IF r = q THEN to ELSE pc[r]
  BY DEF TypeOK
<1>5. /\ conn[q] # NoConn /\ conn[q] # dialled /\ conn[q] \notin Taken
      /\ \A i \in DOMAIN idle : idle[i] # conn[q]
      /\ \A r \in Requests : r # q => conn[r] # conn[q]
  BY <1>3, PoolAssumption DEF OwnerInv, PoolAssumption
<1>6. idle' \in Seq(Open')
  BY <1>2, <1>5, IdleAvoids
<1>7. TypeOK'
  BY <1>2, <1>5, <1>6 DEF TypeOK
<1>8. HolderInv'
  BY <1>2, <1>4, <1>5 DEF HolderInv, Holds
<1>9. OwnerInv'
  <2>1. \A i \in DOMAIN idle : idle[i] # NoConn
    BY IdleSeq, PoolAssumption DEF Open, PoolAssumption
  <2>2. UNCHANGED <<idle, dialled, drop, cleaned>>
    OBVIOUS
  <2>3. QED
    BY <1>4, <2>1, <2>2 DEF OwnerInv
<1>10. LeakInv'
  BY <1>2, <1>4, <1>5 DEF LeakInv, Held, Idle
<1>11. LimitInv'
  BY DEF LimitInv
<1>12. LateOnlyOnFirstUse'
  BY <1>3, <1>4, <1>5 DEF LateOnlyOnFirstUse, HolderInv, Holds, TypeOK, Open
<1>13. Stale' = Stale \ {conn[q]}
  BY <1>2, <1>3 DEF Stale, Open, TypeOK
<1>14. QED
  BY <1>1, <1>2, <1>7, <1>8, <1>9, <1>10, <1>11, <1>12, <1>13

(* What is known of the requests, when one has closed its connection.        *)
LEMMA RequestsAfterClose ==
    ASSUME TypeOK, PoolInv, NEW q \in Requests, NEW to, pc[q] # "wait", to \notin {"wait", "bad"},
           \A r \in Requests : pc'[r] = IF r = q THEN to ELSE pc[r],
           to = "new" => left[q] > 0, conn[q] \in Conns,
           of' = [of EXCEPT ![conn[q]] = 0], conn' = [conn EXCEPT ![q] = NoConn],
           \A r \in Requests : r # q /\ pc[r] = "bad" => conn[r] # conn[q],
           \A r \in Requests : pc'[r] # "failed" => tries'[r] <= MaxRetries,
           \A r \in Requests : r # q => tries'[r] = tries[r],
           UNCHANGED <<waiting, cur, since, left>>
    PROVE  RequestInv'
<1> USE DEF PoolInv
<1>1. waiting' = {r \in Requests : pc'[r] = "wait"}
  BY DEF RequestInv
<1>2. \A r \in Requests : (pc'[r] = "new" => left'[r] > 0) /\ since'[r] <= cur'
  BY DEF RequestInv
<1>3. cur \in Nat /\ \A c \in Conns : of'[c] = (IF c = conn[q] THEN 0 ELSE of[c]) /\ of[c] <= cur
  BY PoolAssumption DEF RequestInv, TypeOK, PoolAssumption
<1>4. \A c \in Conns : of'[c] <= cur'
  BY <1>3
<1>5. ASSUME NEW r \in Requests, pc'[r] = "bad", tries'[r] >= MaxRetries
      PROVE  of'[conn'[r]] < cur'
  <2>1. r # q /\ pc[r] = "bad" /\ conn'[r] = conn[r] /\ conn[r] # conn[q]
        /\ tries[r] >= MaxRetries
    BY <1>5 DEF TypeOK
  <2>2. conn[r] \in Conns /\ of[conn[r]] < cur
    BY <2>1 DEF RequestInv, HolderInv, Holds, Open
  <2>3. QED
    BY <1>3, <2>1, <2>2
<1>6. QED
  BY <1>1, <1>2, <1>4, <1>5 DEF RequestInv

LEMMA DropConnStep ==
    ASSUME TypeOK, PoolInv, NEW q \in Requests, DropConn(q)
    PROVE  TypeOK' /\ PoolInv'
<1> DEFINE to == IF left[q] = 0 THEN "done" ELSE "new"
<1>1. Holds(q) /\ pc' = [pc EXCEPT ![q] = to] /\ to \in {"done", "new"}
  BY DEF DropConn, Holds, After
<1>2. CloseConn(conn[q]) /\ conn' = [conn EXCEPT ![q] = NoConn]
      /\ UNCHANGED <<cur, idle, limit, waiting, dialled, tries, request, reload, closing>>
  BY DEF DropConn
<1>3. /\ TypeOK' /\ HolderInv' /\ OwnerInv' /\ LeakInv' /\ LimitInv' /\ CountInv'
      /\ LateOnlyOnFirstUse' /\ conn[q] \in Open /\ Stale' = Stale \ {conn[q]}
  <2>1. tries' \in [Requests -> 0..MaxRetries + 1]
    BY <1>2 DEF TypeOK
  <2>2. QED
    BY <1>1, <1>2, <2>1, CloseHeld
<1>4. RequestInv'
  <2>1. of' = [of EXCEPT ![conn[q]] = 0] /\ conn[q] \in Conns
    BY <1>2, <1>3 DEF CloseConn, Open
  <2>2. \A r \in Requests : r # q /\ pc[r] = "bad" => conn[r] # conn[q]
    BY <1>1, <1>3, PoolAssumption DEF PoolInv, OwnerInv, Open, PoolAssumption
  <2>3. \A r \in Requests : pc'[r] = IF r = q THEN to ELSE pc[r]
    BY <1>1 DEF TypeOK
  <2>4. tries' = tries /\ waiting' = waiting /\ cur' = cur /\ since' = since
        /\ left' = left /\ left \in [Requests -> 0..Queries] /\ Queries \in Nat /\ cur \in Nat
    BY <1>2, PoolAssumption DEF TypeOK, request, DropConn, PoolAssumption
  <2>5. to = "new" => left[q] > 0
    BY <2>4
  <2>6. \A r \in Requests : pc'[r] # "failed" => tries'[r] <= MaxRetries
    <3>1. pc[q] # "failed"
      BY <1>1 DEF Holds
    <3>2. \A r \in Requests : pc[r] # "failed" => tries[r] <= MaxRetries
      BY DEF PoolInv, RequestInv
    <3>3. QED
      BY <2>3, <2>4, <3>1, <3>2
  <2>7. conn' = [conn EXCEPT ![q] = NoConn]
    BY <1>2
  <2>8. pc[q] # "wait" /\ to \notin {"wait", "bad"}
    BY <1>1 DEF Holds
  <2> HIDE DEF to
  <2>9. QED
    BY <2>1, <2>2, <2>3, <2>4, <2>5, <2>6, <2>7, <2>8, RequestsAfterClose
<1>5. CostInv'
  <2>1. Failed' = Failed
    BY <1>1 DEF Failed, Holds, TypeOK
  <2>2. cur' = cur /\ Stale' \subseteq Stale
    BY <1>2, <1>3
  <2>3. QED
    BY <2>1, <2>2, CostKept DEF PoolInv
<1>6. QED
  BY <1>3, <1>4, <1>5 DEF PoolInv

LEMMA RetryStep ==
    ASSUME TypeOK, PoolInv, NEW q \in Requests, Retry(q)
    PROVE  TypeOK' /\ PoolInv'
<1> DEFINE to == IF tries[q] < MaxRetries THEN "conn" ELSE "failed"
<1>1. Holds(q) /\ pc[q] = "bad" /\ pc' = [pc EXCEPT ![q] = to] /\ to \in {"conn", "failed"}
  BY DEF Retry, Goto, Holds
<1>2. CloseConn(conn[q]) /\ conn' = [conn EXCEPT ![q] = NoConn]
      /\ tries' = [tries EXCEPT ![q] = @ + 1]
      /\ UNCHANGED <<cur, idle, limit, waiting, dialled, request, reload, closing>>
  BY DEF Retry
<1>3. tries[q] \in 0..MaxRetries /\ tries' \in [Requests -> 0..MaxRetries + 1]
      /\ MaxRetries \in Nat
  BY <1>1, <1>2, PoolAssumption DEF PoolInv, RequestInv, TypeOK, PoolAssumption
<1>4. /\ TypeOK' /\ HolderInv' /\ OwnerInv' /\ LeakInv' /\ LimitInv' /\ CountInv'
      /\ LateOnlyOnFirstUse' /\ conn[q] \in Open /\ Stale' = Stale \ {conn[q]}
  BY <1>1, <1>2, <1>3, CloseHeld
<1>5. RequestInv'
  <2>1. of' = [of EXCEPT ![conn[q]] = 0] /\ conn[q] \in Conns
    BY <1>2, <1>4 DEF CloseConn, Open
  <2>2. \A r \in Requests : r # q /\ pc[r] = "bad" => conn[r] # conn[q]
    BY <1>4, PoolAssumption DEF PoolInv, OwnerInv, Open, PoolAssumption
  <2>3. \A r \in Requests : /\ tries'[r] = IF r = q THEN tries[q] + 1 ELSE tries[r]
                            /\ pc'[r] = IF r = q THEN to ELSE pc[r]
    BY <1>1, <1>2 DEF TypeOK
  <2>4. /\ waiting' = waiting /\ cur' = cur /\ since' = since
        /\ left' = left /\ cur \in Nat
    BY <1>2, PoolAssumption DEF TypeOK, request, PoolAssumption
  <2>5. \A r \in Requests : pc'[r] # "failed" => tries'[r] <= MaxRetries
    BY <1>1, <1>3, <2>3 DEF PoolInv, RequestInv
  <2>6. pc[q] # "wait" /\ to \notin {"new", "wait", "bad"}
    BY <1>1
  <2>7. conn' = [conn EXCEPT ![q] = NoConn]
    BY <1>2
  <2> HIDE DEF to
  <2>8. QED
    BY <2>1, <2>2, <2>3, <2>4, <2>5, <2>6, <2>7, RequestsAfterClose
<1>6. CASE to = "conn"
  <2>1. Failed' = Failed
    BY <1>1, <1>6 DEF Failed, TypeOK
  <2>2. cur' = cur /\ Stale' \subseteq Stale
    BY <1>2, <1>4
  <2>3. CostInv'
    BY <2>1, <2>2, CostKept DEF PoolInv
  <2>4. QED
    BY <1>4, <1>5, <2>3 DEF PoolInv
<1>7. CASE to = "failed"
  <2> DEFINE bound == (cur - 1) * MaxOpen
  <2>1. Failed' = Failed \union {q} /\ q \notin Failed
    BY <1>1, <1>7 DEF Failed, TypeOK
  <2>2. conn[q] \in Stale
    <3>1. tries[q] >= MaxRetries
      BY <1>3, <1>7
    <3>2. QED
      BY <1>1, <1>4, <3>1 DEF PoolInv, RequestInv, Stale
  <2>3. Cardinality(Failed) \in Nat /\ Cardinality(Failed') = Cardinality(Failed) + 1
    <3>1. Failed \subseteq Requests
      BY DEF Failed
    <3>2. QED
      BY <2>1, <3>1, Finite, FS_AddElement
  <2>4. Cardinality(Stale) \in Nat /\ Cardinality(Stale') = Cardinality(Stale) - 1
    <3>1. Stale \subseteq Conns
      BY DEF Stale, Open
    <3>2. QED
      BY <1>4, <2>2, <3>1, Finite, FS_RemoveElement
  <2>5. bound \in Int
    BY PoolAssumption DEF TypeOK, PoolAssumption
  <2>6. Cardinality(Failed) + Cardinality(Stale) <= bound
    BY DEF PoolInv, CostInv
  <2>7. Cardinality(Failed') + Cardinality(Stale') <= bound
    BY <2>3, <2>4, <2>5, <2>6
  <2>8. cur' = cur
    BY <1>2
  <2>9. CostInv'
    BY <2>7, <2>8 DEF CostInv
  <2>10. QED
    BY <1>4, <1>5, <2>9 DEF PoolInv
<1>8. QED
  BY <1>1, <1>6, <1>7

(* A connection of the pool is closed that no query holds.                   *)
LEMMA ClosePooled ==
    ASSUME TypeOK, PoolInv, NEW c \in Open, CloseConn(c),
           \A q \in Requests : conn[q] # c,
           UNCHANGED <<cur, limit, waiting, dialled, pc, conn, tries, request, reload>>
    PROVE  /\ Open' = Open \ {c} /\ of' \in [Conns -> 0..MaxGen] /\ used' \subseteq Open'
           /\ numOpen' \in 0..MaxOpen /\ asked' \in 0..MaxOpen
           /\ HolderInv' /\ CountInv' /\ RequestInv' /\ CostInv' /\ LateOnlyOnFirstUse'
<1> USE DEF PoolInv, request
<1>1. Dialling' = Dialling /\ Failed' = Failed
  BY DEF Dialling, Failed
<1>2. /\ Open' = Open \ {c} /\ of' \in [Conns -> 0..MaxGen] /\ used' \subseteq Open'
      /\ numOpen' \in 0..MaxOpen /\ asked' \in 0..MaxOpen /\ CountInv'
  BY <1>1, CloseCounts
<1>3. of' = [of EXCEPT ![c] = 0] /\ c \in Conns /\ used' \subseteq used
  BY DEF CloseConn, Open
<1>4. HolderInv'
  BY <1>2 DEF HolderInv, Holds
<1>5. RequestInv' /\ LateOnlyOnFirstUse'
  BY <1>3, PoolAssumption
  DEF RequestInv, LateOnlyOnFirstUse, TypeOK, HolderInv, Holds, PoolAssumption
<1>6. CostInv'
  <2>1. Stale' \subseteq Stale
    BY <1>2, <1>3 DEF Stale, Open, TypeOK
  <2>2. QED
    BY <1>1, <2>1, CostKept
<1>7. QED
  BY <1>2, <1>4, <1>5, <1>6

LEMMA RemoveIdle ==
    ASSUME TypeOK, OwnerInv, NEW i \in DOMAIN idle
    PROVE  /\ idle[i] \in Open
           /\ RemoveAt(idle, i) \in Seq(Open) /\ Len(RemoveAt(idle, i)) = Len(idle) - 1
           /\ \A j \in DOMAIN RemoveAt(idle, i) :
                 \E k \in DOMAIN idle : k = (IF j < i THEN j ELSE j + 1)
                                        /\ RemoveAt(idle, i)[j] = idle[k] /\ idle[k] # idle[i]
           /\ \A k \in DOMAIN idle : idle[k] # idle[i] =>
                 \E j \in DOMAIN RemoveAt(idle, i) : RemoveAt(idle, i)[j] = idle[k]
<1> DEFINE before == SubSeq(idle, 1, i - 1)
           after == SubSeq(idle, i + 1, Len(idle))
<1>1. /\ Len(idle) \in Nat /\ DOMAIN idle = 1..Len(idle) /\ i \in 1..Len(idle)
      /\ \A k \in 1..Len(idle) : idle[k] \in Open
  BY IdleSeq
<1>2. /\ before \in Seq(Open) /\ Len(before) = i - 1
      /\ \A j \in 1..(i - 1) : before[j] = idle[j]
  BY <1>1, SubSeqProperties
<1>3. /\ after \in Seq(Open) /\ Len(after) = Len(idle) - i
      /\ \A j \in 1..(Len(idle) - i) : after[j] = idle[i + j]
  BY <1>1, SubSeqProperties
<1>4. RemoveAt(idle, i) = before \o after
  BY DEF RemoveAt
<1> HIDE DEF before, after
<1>5. /\ before \o after \in Seq(Open) /\ Len(before \o after) = Len(idle) - 1
      /\ \A j \in 1..(Len(idle) - 1) :
            (before \o after)[j] = IF j <= i - 1 THEN before[j] ELSE after[j - (i - 1)]
  <2>1. /\ before \o after \in Seq(Open)
        /\ Len(before \o after) = Len(before) + Len(after)
        /\ \A j \in 1..(Len(before) + Len(after)) :
              (before \o after)[j] = IF j <= Len(before) THEN before[j] ELSE after[j - Len(before)]
    BY <1>2, <1>3, ConcatProperties
  <2>2. Len(before) = i - 1 /\ Len(before) + Len(after) = Len(idle) - 1
    BY <1>1, <1>2, <1>3
  <2>3. QED
    BY <2>1, <2>2
<1>6. DOMAIN (before \o after) = 1..(Len(idle) - 1)
  BY <1>5, LenProperties
<1>7. \A j \in 1..(Len(idle) - 1) :
         (before \o after)[j] = IF j < i THEN idle[j] ELSE idle[j + 1]
  <2> TAKE j \in 1..(Len(idle) - 1)
  <2>1. CASE j < i
    <3>1. j \in 1..(i - 1) /\ j <= i - 1
      BY <1>1, <2>1
    <3>2. QED
      BY <1>2, <1>5, <2>1, <3>1
  <2>2. CASE ~(j < i)
    <3>1. /\ ~(j <= i - 1) /\ j - (i - 1) \in 1..(Len(idle) - i)
          /\ i + (j - (i - 1)) = j + 1
      BY <1>1, <2>2
    <3>2. after[j - (i - 1)] = idle[j + 1]
      BY <1>3, <3>1
    <3>3. QED
      BY <1>5, <2>2, <3>1, <3>2
  <2>3. QED
    BY <2>1, <2>2
<1>8. \A k \in 1..Len(idle) : k # i =>
         \E j \in 1..(Len(idle) - 1) : (before \o after)[j] = idle[k]
  <2> SUFFICES ASSUME NEW k \in 1..Len(idle), k # i
               PROVE  \E j \in 1..(Len(idle) - 1) : (before \o after)[j] = idle[k]
    OBVIOUS
  <2>1. CASE k < i
    <3>1. k \in 1..(Len(idle) - 1)
      BY <1>1, <2>1
    <3>2. QED
      BY <1>7, <2>1, <3>1
  <2>2. CASE k > i
    <3>1. k - 1 \in 1..(Len(idle) - 1) /\ ~(k - 1 < i) /\ (k - 1) + 1 = k
      BY <1>1, <2>2
    <3>2. QED
      BY <1>7, <3>1
  <2>3. k < i \/ k > i
    BY <1>1
  <2>4. QED
    BY <2>1, <2>2, <2>3
<1>9. ASSUME NEW j \in 1..(Len(idle) - 1)
      PROVE  \E k \in DOMAIN idle : k = (IF j < i THEN j ELSE j + 1)
                                     /\ (before \o after)[j] = idle[k] /\ idle[k] # idle[i]
  <2> DEFINE k == IF j < i THEN j ELSE j + 1
  <2>1. k \in DOMAIN idle /\ k # i
    BY <1>1
  <2>2. (before \o after)[j] = idle[k]
    BY <1>7
  <2>3. QED
    BY <2>1, <2>2 DEF OwnerInv
<1>10. DOMAIN RemoveAt(idle, i) = 1..(Len(idle) - 1)
  BY <1>4, <1>6
<1>11. idle[i] \in Open /\ RemoveAt(idle, i) \in Seq(Open) /\ Len(RemoveAt(idle, i)) = Len(idle) - 1
  BY <1>1, <1>4, <1>5
<1>12. \A j \in DOMAIN RemoveAt(idle, i) :
         \E k \in DOMAIN idle : k = (IF j < i THEN j ELSE j + 1)
                                /\ RemoveAt(idle, i)[j] = idle[k] /\ idle[k] # idle[i]
  BY <1>4, <1>9, <1>10
<1>13. \A k \in DOMAIN idle : idle[k] # idle[i] =>
         \E j \in DOMAIN RemoveAt(idle, i) : RemoveAt(idle, i)[j] = idle[k]
  <2> SUFFICES ASSUME NEW k \in DOMAIN idle, idle[k] # idle[i]
               PROVE  \E j \in DOMAIN RemoveAt(idle, i) : RemoveAt(idle, i)[j] = idle[k]
    OBVIOUS
  <2>1. k \in 1..Len(idle) /\ k # i
    BY <1>1
  <2>2. QED
    BY <1>4, <1>8, <1>10, <2>1
<1>14. QED
  BY <1>11, <1>12, <1>13

LEMMA CleanerTakesStep ==
    ASSUME TypeOK, PoolInv, NEW c \in Conns, CleanerTakes(c)
    PROVE  TypeOK' /\ PoolInv'
<1> USE DEF PoolInv, request, opened, Taken
<1>1. PICK i \in DOMAIN idle : idle[i] = c /\ idle' = RemoveAt(idle, i)
  BY DEF CleanerTakes
<1>2. /\ cleaned' = cleaned \union {c}
      /\ UNCHANGED <<cur, of, used, limit, numOpen, waiting, asked, dialled, pc, conn, tries,
                     left, since, first, reload, drop>>
  BY DEF CleanerTakes
<1>3. /\ c \in Open /\ c # dialled /\ c \notin Taken /\ \A q \in Requests : conn[q] # c
  BY <1>1, RemoveIdle DEF OwnerInv
<1>4. /\ Open' = Open /\ HolderInv' /\ CountInv' /\ RequestInv' /\ CostInv'
      /\ LateOnlyOnFirstUse'
  <2>1. /\ Open' = Open /\ Stale' = Stale /\ Dialling' = Dialling /\ Failed' = Failed
    BY <1>2 DEF Open, Stale, Dialling, Failed
  <2>2. HolderInv' /\ CountInv' /\ RequestInv' /\ LateOnlyOnFirstUse'
    BY <1>2, <2>1 DEF HolderInv, CountInv, RequestInv, LateOnlyOnFirstUse, Holds
  <2>3. CostInv'
    BY <1>2, <2>1, CostKept
  <2>4. QED
    BY <2>1, <2>2, <2>3
<1>5. \A j \in DOMAIN idle' :
         \E k \in DOMAIN idle : k = (IF j < i THEN j ELSE j + 1) /\ idle'[j] = idle[k] /\ idle[k] # c
  BY <1>1, RemoveIdle
<1>6. idle' \in Seq(Open') /\ Len(idle') <= MaxIdle
  <2>1. idle' \in Seq(Open) /\ Len(idle') = Len(idle) - 1
    BY <1>1, RemoveIdle
  <2>2. idle' \in Seq(Open')
    BY <1>4, <2>1
  <2>3. Len(idle) \in Nat /\ Len(idle) <= MaxIdle /\ MaxIdle \in Nat
    BY IdleSeq, PoolAssumption DEF TypeOK, PoolAssumption
  <2>4. QED
    BY <2>1, <2>2, <2>3
<1>7. TypeOK'
  BY <1>2, <1>3, <1>4, <1>6 DEF TypeOK
<1>8. OwnerInv'
  <2>1. \A j, k \in DOMAIN idle' : idle'[j] = idle'[k] => j = k
    <3> SUFFICES ASSUME NEW j \in DOMAIN idle', NEW k \in DOMAIN idle', idle'[j] = idle'[k]
                 PROVE  j = k
      OBVIOUS
    <3> DEFINE at(n) == IF n < i THEN n ELSE n + 1
    <3>1. at(j) \in DOMAIN idle /\ at(k) \in DOMAIN idle /\ idle[at(j)] = idle[at(k)]
      BY <1>5
    <3>2. at(j) = at(k)
      BY <3>1 DEF OwnerInv
    <3>3. j \in Nat /\ k \in Nat /\ i \in Nat
      BY <1>1, <1>6, IdleSeq, LenProperties
    <3>4. QED
      BY <3>2, <3>3
  <2>2. UNCHANGED <<dialled, drop, conn>> /\ cleaned' = cleaned \union {c}
    BY <1>2
  <2>3. \A j \in DOMAIN idle' : \E k \in DOMAIN idle : idle'[j] = idle[k] /\ idle[k] # c
    BY <1>5
  <2>4. QED
    BY <1>3, <2>1, <2>2, <2>3 DEF OwnerInv
<1>9. LeakInv'
  <2> SUFFICES ASSUME NEW d \in Open, d # c, Idle(d)
               PROVE  Idle(d)'
    BY <1>2, <1>4 DEF LeakInv, Held
  <2>1. QED
    BY <1>1, RemoveIdle DEF Idle
<1>10. LimitInv'
  <2>1. idle # <<>> /\ reload # "dropping"
    BY <1>1, IdleSeq, EmptySeq DEF LimitInv
  <2>2. QED
    BY <1>2, <2>1 DEF LimitInv
<1>11. QED
  BY <1>4, <1>7, <1>8, <1>9, <1>10

LEMMA CleanerClosesStep ==
    ASSUME TypeOK, PoolInv, NEW c \in Conns, CleanerCloses(c)
    PROVE  TypeOK' /\ PoolInv'
<1> USE DEF PoolInv, request, Taken
<1>1. /\ c \in cleaned /\ cleaned' = cleaned \ {c} /\ CloseConn(c)
      /\ UNCHANGED <<cur, idle, limit, waiting, dialled, pc, conn, tries, request, reload, drop>>
  BY DEF CleanerCloses
<1>2. /\ c \in Open /\ c # dialled /\ c \notin drop /\ \A i \in DOMAIN idle : idle[i] # c
  BY <1>1 DEF OwnerInv, TypeOK
<1>3. \A q \in Requests : conn[q] # c
  BY <1>1, <1>2, PoolAssumption DEF OwnerInv, PoolAssumption
<1>4. /\ Open' = Open \ {c} /\ of' \in [Conns -> 0..MaxGen] /\ used' \subseteq Open'
      /\ numOpen' \in 0..MaxOpen /\ asked' \in 0..MaxOpen
      /\ HolderInv' /\ CountInv' /\ RequestInv' /\ CostInv' /\ LateOnlyOnFirstUse'
  BY <1>1, <1>2, <1>3, ClosePooled
<1>5. idle' \in Seq(Open')
  BY <1>1, <1>2, <1>4, IdleAvoids
<1>6. TypeOK'
  BY <1>1, <1>2, <1>4, <1>5 DEF TypeOK
<1>7. OwnerInv' /\ LeakInv' /\ LimitInv'
  BY <1>1, <1>4 DEF OwnerInv, LeakInv, LimitInv, Held, Idle
<1>8. QED
  BY <1>4, <1>6, <1>7

LEMMA CloseDroppedStep ==
    ASSUME TypeOK, PoolInv, NEW c \in Conns, CloseDropped(c)
    PROVE  TypeOK' /\ PoolInv'
<1> USE DEF PoolInv, request, Taken
<1>1. /\ c \in drop /\ drop' = drop \ {c} /\ CloseConn(c)
      /\ UNCHANGED <<cur, idle, limit, waiting, dialled, pc, conn, tries, request, reload, cleaned>>
  BY DEF CloseDropped
<1>2. /\ c \in Open /\ c # dialled /\ c \notin cleaned /\ \A i \in DOMAIN idle : idle[i] # c
  BY <1>1 DEF OwnerInv, TypeOK
<1>3. \A q \in Requests : conn[q] # c
  BY <1>1, <1>2, PoolAssumption DEF OwnerInv, PoolAssumption
<1>4. /\ Open' = Open \ {c} /\ of' \in [Conns -> 0..MaxGen] /\ used' \subseteq Open'
      /\ numOpen' \in 0..MaxOpen /\ asked' \in 0..MaxOpen
      /\ HolderInv' /\ CountInv' /\ RequestInv' /\ CostInv' /\ LateOnlyOnFirstUse'
  BY <1>1, <1>2, <1>3, ClosePooled
<1>5. idle' \in Seq(Open')
  BY <1>1, <1>2, <1>4, IdleAvoids
<1>6. TypeOK'
  BY <1>1, <1>2, <1>4, <1>5 DEF TypeOK
<1>7. OwnerInv' /\ LeakInv' /\ LimitInv'
  BY <1>1, <1>4 DEF OwnerInv, LeakInv, LimitInv, Held, Idle
<1>8. QED
  BY <1>4, <1>6, <1>7

LEMMA OpenerDialsStep ==
    ASSUME TypeOK, PoolInv, OpenerDials
    PROVE  TypeOK' /\ PoolInv'
<1> USE DEF PoolInv, request, closing, Taken
<1>1. PICK c \in Conns \ Open : dialled' = c /\ of' = [of EXCEPT ![c] = cur]
  BY DEF OpenerDials
<1>2. /\ asked > 0 /\ dialled = NoConn /\ asked' = asked - 1
      /\ UNCHANGED <<cur, used, idle, limit, numOpen, waiting, pc, conn, tries, request,
                     reload, drop, cleaned>>
  BY DEF OpenerDials
<1>3. Open' = Open \union {c} /\ Stale' = Stale /\ Dialling' = Dialling
      /\ Failed' = Failed
  BY <1>1, <1>2, PoolAssumption DEF Open, Stale, Dialling, Failed, TypeOK, PoolAssumption
<1>4. TypeOK'
  <2>1. idle' \in Seq(Open')
    BY <1>2, <1>3, SeqMonotonic DEF TypeOK
  <2>2. of' \in [Conns -> 0..MaxGen] /\ asked' \in 0..MaxOpen
    BY <1>1, <1>2, PoolAssumption DEF TypeOK, PoolAssumption
  <2>3. QED
    BY <1>1, <1>2, <1>3, <2>1, <2>2 DEF TypeOK
<1>5. HolderInv'
  BY <1>2, <1>3 DEF HolderInv, Holds
<1>6. OwnerInv'
  <2>1. /\ \A r \in Requests : conn[r] # c
        /\ \A i \in DOMAIN idle : idle[i] # c
        /\ c \notin Taken
    BY IdleSeq, PoolAssumption DEF HolderInv, TypeOK, PoolAssumption
  <2>2. QED
    BY <1>1, <1>2, <2>1 DEF OwnerInv
<1>7. LeakInv'
  <2>1. NoConn \notin Open
    BY PoolAssumption DEF Open, PoolAssumption
  <2>2. QED
    BY <1>1, <1>2, <1>3, <2>1 DEF LeakInv, Held, Idle
<1>8. LimitInv'
  BY <1>2 DEF LimitInv
<1>9. CountInv'
  <2>1. Open \subseteq Conns /\ Dialling \subseteq Requests
    BY DEF Open, Dialling
  <2>2. /\ Cardinality(Open') = Cardinality(Open) + 1 /\ Cardinality(Open) \in Nat
        /\ Cardinality(Dialling) \in Nat
    BY <1>1, <1>3, <2>1, Finite, FS_AddElement
  <2>3. QED
    BY <1>2, <1>3, <2>2 DEF CountInv, TypeOK
<1>10. RequestInv' /\ LateOnlyOnFirstUse'
  BY <1>1, <1>2, PoolAssumption
  DEF TypeOK, RequestInv, LateOnlyOnFirstUse, HolderInv, Holds, PoolAssumption
<1>11. CostInv'
  BY <1>2, <1>3, CostKept
<1>12. QED
  BY <1>4, <1>5, <1>6, <1>7, <1>8, <1>9, <1>10, <1>11

-----------------------------------------------------------------------------
(* putConnDBLocked: connection c is in the hands of whoever gives it back,    *)
(* and of nobody else; d is what connectionOpener keeps.                     *)
States == {"new", "conn", "wait", "dial", "reset", "bad", "running", "drop", "put",
           "failed", "done"}
HoldsIn(pcs, q) == pcs[q] \in {"reset", "bad", "running", "drop", "put"}

InHand(c, pcs, conns, d) ==
    /\ c \in Open /\ c # d /\ c \notin Taken
    /\ \A i \in DOMAIN idle : idle[i] # c /\ idle[i] # d /\ \A q \in Requests : conns[q] # idle[i]
    /\ pcs \in [Requests -> States] /\ conns \in [Requests -> Conns \union {NoConn}]
    /\ d \in Open \union {NoConn} /\ d \notin Taken
    /\ \A q \in Requests : IF HoldsIn(pcs, q) THEN conns[q] \in Open ELSE conns[q] = NoConn
    /\ \A q, r \in Requests : conns[q] = conns[r] /\ conns[q] # NoConn => q = r
    /\ \A q \in Requests : conns[q] # c /\ (conns[q] # NoConn => conns[q] # d /\ conns[q] \notin Taken)
    /\ \A e \in Open : e = c \/ e = d \/ e \in Taken \/ Idle(e) \/ \E q \in Requests : conns[q] = e
    /\ waiting = {q \in Requests : pcs[q] = "wait"}
    /\ Dialling = {q \in Requests : pcs[q] = "dial"}
    /\ Failed = {q \in Requests : pcs[q] = "failed"}
    /\ \A q \in Requests : /\ pcs[q] = "new" => left[q] > 0
                           /\ pcs[q] # "failed" => tries[q] <= MaxRetries
                           /\ pcs[q] = "bad" /\ tries[q] >= MaxRetries => of[conns[q]] < cur
                           /\ pcs[q] = "running" /\ of[conns[q]] < since[q] => conns[q] \notin used

LEMMA PutInHand ==
    ASSUME TypeOK, PoolInv, NEW q \in Requests, pc[q] = "put"
    PROVE  InHand(conn[q], After(q), [conn EXCEPT ![q] = NoConn], dialled)
<1> DEFINE pcs == After(q)
           conns == [conn EXCEPT ![q] = NoConn]
<1> USE DEF PoolInv, Taken
<1>1. conn[q] \in Open /\ conn[q] # NoConn /\ NoConn \notin Open /\ NoConn \notin Taken
  BY PoolAssumption DEF HolderInv, Holds, Open, TypeOK, PoolAssumption
<1>2. /\ \A r \in Requests : conns[r] = IF r = q THEN NoConn ELSE conn[r]
      /\ \A r \in Requests : pcs[r] = IF r = q THEN (IF left[q] = 0 THEN "done" ELSE "new") ELSE pc[r]
  BY DEF TypeOK, After
<1>3. pcs \in [Requests -> States] /\ conns \in [Requests -> Conns \union {NoConn}]
  BY DEF TypeOK, After, States
<1> HIDE DEF pcs, conns
<1>4. /\ conn[q] # dialled /\ conn[q] \notin Taken /\ dialled \in Open \union {NoConn}
      /\ dialled \notin Taken
  BY <1>1 DEF OwnerInv, TypeOK
<1>5. \A i \in DOMAIN idle : /\ idle[i] # conn[q] /\ idle[i] # dialled
                             /\ \A r \in Requests : conns[r] # idle[i]
  BY <1>1, <1>2, IdleSeq DEF OwnerInv
<1>6. \A r \in Requests : IF HoldsIn(pcs, r) THEN conns[r] \in Open ELSE conns[r] = NoConn
  BY <1>2 DEF HolderInv, Holds, HoldsIn
<1>7. /\ \A r, s \in Requests : conns[r] = conns[s] /\ conns[r] # NoConn => r = s
      /\ \A r \in Requests :
            conns[r] # conn[q] /\ (conns[r] # NoConn => conns[r] # dialled /\ conns[r] \notin Taken)
  BY <1>1, <1>2 DEF OwnerInv
<1>8. \A e \in Open : \/ e = conn[q] \/ e = dialled \/ e \in Taken \/ Idle(e)
                      \/ \E r \in Requests : conns[r] = e
  BY <1>2 DEF LeakInv, Held
<1>9. waiting = {r \in Requests : pcs[r] = "wait"} /\ Dialling = {r \in Requests : pcs[r] = "dial"}
      /\ Failed = {r \in Requests : pcs[r] = "failed"}
  BY <1>2 DEF RequestInv, Dialling, Failed
<1>10. left[q] \in Nat /\ (left[q] = 0 \/ left[q] > 0)
  BY DEF TypeOK
<1>11. \A r \in Requests : /\ pcs[r] = "new" => left[r] > 0
                           /\ pcs[r] # "failed" => tries[r] <= MaxRetries
                           /\ pcs[r] = "bad" /\ tries[r] >= MaxRetries => of[conns[r]] < cur
                           /\ pcs[r] = "running" /\ of[conns[r]] < since[r] => conns[r] \notin used
  BY <1>2, <1>10 DEF RequestInv, LateOnlyOnFirstUse
<1>12. InHand(conn[q], pcs, conns, dialled)
  BY <1>1, <1>3, <1>4, <1>5, <1>6, <1>7, <1>8, <1>9, <1>11 DEF InHand
<1>13. QED
  BY <1>12 DEF pcs, conns

LEMMA DialledInHand ==
    ASSUME TypeOK, PoolInv, dialled # NoConn
    PROVE  InHand(dialled, pc, conn, NoConn)
<1> USE DEF PoolInv, Taken
<1>1. dialled \in Open /\ NoConn \notin Open /\ NoConn \notin Taken /\ dialled \notin Taken
  BY PoolAssumption DEF Open, TypeOK, OwnerInv, PoolAssumption
<1>2. \A i \in DOMAIN idle : /\ idle[i] # dialled /\ idle[i] # NoConn
                             /\ \A r \in Requests : conn[r] # idle[i]
  BY <1>1, IdleSeq DEF OwnerInv
<1>3. pc \in [Requests -> States] /\ conn \in [Requests -> Conns \union {NoConn}]
  BY DEF TypeOK, States
<1>4. /\ \A r \in Requests : IF HoldsIn(pc, r) THEN conn[r] \in Open ELSE conn[r] = NoConn
      /\ \A r, s \in Requests : conn[r] = conn[s] /\ conn[r] # NoConn => r = s
      /\ \A r \in Requests : conn[r] # dialled /\ (conn[r] # NoConn => conn[r] \notin Taken)
  BY <1>1 DEF HolderInv, OwnerInv, Holds, HoldsIn
<1>5. \A e \in Open : \/ e = dialled \/ e \in Taken \/ Idle(e) \/ \E r \in Requests : conn[r] = e
  BY DEF LeakInv, Held
<1>6. /\ waiting = {r \in Requests : pc[r] = "wait"} /\ Dialling = {r \in Requests : pc[r] = "dial"}
      /\ Failed = {r \in Requests : pc[r] = "failed"}
      /\ \A r \in Requests : /\ pc[r] = "new" => left[r] > 0
                             /\ pc[r] # "failed" => tries[r] <= MaxRetries
                             /\ pc[r] = "bad" /\ tries[r] >= MaxRetries => of[conn[r]] < cur
                             /\ pc[r] = "running" /\ of[conn[r]] < since[r] => conn[r] \notin used
  BY DEF RequestInv, LateOnlyOnFirstUse, Dialling, Failed
<1>7. QED
  BY <1>1, <1>2, <1>3, <1>4, <1>5, <1>6 DEF InHand

LEMMA HandToWaiting ==
    ASSUME TypeOK, PoolInv, NEW c, NEW pcs, NEW conns, NEW d, InHand(c, pcs, conns, d),
           dialled' = d, UNCHANGED <<cur, limit, tries, request, reload, closing>>,
           NEW w \in waiting, waiting' = waiting \ {w}, pc' = [pcs EXCEPT ![w] = "reset"],
           conn' = [conns EXCEPT ![w] = c], UNCHANGED <<opened, idle, numOpen, asked>>
    PROVE  TypeOK' /\ PoolInv'
<1> USE DEF PoolInv, request, opened, closing, Taken
<1>1. /\ w \in Requests /\ pcs[w] = "wait" /\ conns[w] = NoConn /\ c \in Open /\ c # NoConn
      /\ pcs \in [Requests -> States] /\ conns \in [Requests -> Conns \union {NoConn}]
  BY PoolAssumption DEF InHand, HoldsIn, Open, PoolAssumption
<1>2. \A r \in Requests : /\ pc'[r] = IF r = w THEN "reset" ELSE pcs[r]
                          /\ conn'[r] = IF r = w THEN c ELSE conns[r]
  BY <1>1
<1>3. Open' = Open /\ Stale' = Stale /\ NoConn \notin Open
  BY PoolAssumption DEF Open, Stale, PoolAssumption
<1>4. Dialling' = Dialling /\ Failed' = Failed
  BY <1>1, <1>2 DEF Dialling, Failed, InHand
<1>5. TypeOK'
  <2>1. dialled' \in Open \union {NoConn}
    BY DEF InHand
  <2>2. pc' \in [Requests -> States] /\ conn' \in [Requests -> Conns \union {NoConn}]
    BY <1>1 DEF Open, States
  <2>3. QED
    BY <1>3, <2>1, <2>2 DEF TypeOK, States
<1>6. HolderInv'
  BY <1>1, <1>2, <1>3 DEF HolderInv, Holds, HoldsIn, InHand
<1>7. OwnerInv'
  <2>1. \A i, j \in DOMAIN idle : idle[i] = idle[j] => i = j
    BY DEF OwnerInv
  <2>2. \A q, r \in Requests : conn'[q] = conn'[r] /\ conn'[q] # NoConn => q = r
    BY <1>1, <1>2 DEF InHand
  <2>3. \A q \in Requests : conn'[q] # NoConn => conn'[q] # d /\ conn'[q] \notin Taken
    BY <1>1, <1>2 DEF InHand
  <2>4. \A i \in DOMAIN idle : /\ idle[i] # d /\ \A q \in Requests : conn'[q] # idle[i]
    BY <1>1, <1>2 DEF InHand
  <2>5. d \notin Taken /\ \A i \in DOMAIN idle : idle[i] \notin Taken
    BY DEF InHand, OwnerInv
  <2>6. QED
    BY <2>1, <2>2, <2>3, <2>4, <2>5 DEF OwnerInv
<1>8. LeakInv'
  <2> SUFFICES ASSUME NEW e \in Open, e # c, e # d, e \notin Taken, ~Idle(e)
               PROVE  Held(e)'
    BY <1>1, <1>2, <1>3 DEF LeakInv, Held, Idle
  <2>1. PICK r \in Requests : conns[r] = e
    BY DEF InHand
  <2>2. QED
    BY <1>1, <1>2, <1>3, <2>1 DEF Held
<1>9. LimitInv' /\ CountInv'
  BY <1>3, <1>4 DEF LimitInv, CountInv
<1>10. RequestInv' /\ LateOnlyOnFirstUse'
  BY <1>1, <1>2 DEF RequestInv, LateOnlyOnFirstUse, InHand
<1>11. CostInv'
  BY <1>3, <1>4, CostKept
<1>12. QED
  BY <1>5, <1>6, <1>7, <1>8, <1>9, <1>10, <1>11

LEMMA HandToIdle ==
    ASSUME TypeOK, PoolInv, NEW c, NEW pcs, NEW conns, NEW d, InHand(c, pcs, conns, d),
           dialled' = d, UNCHANGED <<cur, limit, tries, request, reload, closing>>,
           Len(idle) < limit, idle' = Append(idle, c), pc' = pcs, conn' = conns,
           UNCHANGED <<opened, waiting, numOpen, asked>>
    PROVE  TypeOK' /\ PoolInv'
<1> USE DEF PoolInv, request, opened, closing, Taken
<1>1. Open' = Open /\ Stale' = Stale /\ Dialling' = Dialling /\ Failed' = Failed
  BY DEF Open, Stale, Dialling, Failed, InHand
<1>2. /\ c \in Open /\ idle \in Seq(Open) /\ idle' \in Seq(Open) /\ Len(idle') = Len(idle) + 1
      /\ DOMAIN idle' = 1..(Len(idle) + 1) /\ DOMAIN idle = 1..Len(idle)
      /\ \A i \in 1..Len(idle) : idle'[i] = idle[i]
      /\ idle'[Len(idle) + 1] = c /\ Len(idle) \in Nat
  <2>1. c \in Open /\ idle \in Seq(Open)
    BY DEF TypeOK, InHand
  <2>2. QED
    BY <2>1, IdleSeq, AppendProperties, LenProperties
<1>3. TypeOK'
  <2>1. Len(idle') <= MaxIdle
    BY <1>2, PoolAssumption DEF TypeOK, PoolAssumption
  <2>2. dialled' \in Open \union {NoConn}
    BY DEF InHand
  <2>3. pc' \in [Requests -> States] /\ conn' \in [Requests -> Conns \union {NoConn}]
    BY DEF InHand
  <2>4. QED
    BY <1>1, <1>2, <2>1, <2>2, <2>3 DEF TypeOK, States
<1>4. HolderInv'
  BY <1>1 DEF HolderInv, Holds, HoldsIn, InHand
<1>5. OwnerInv'
  <2>1. \A i \in DOMAIN idle' : \/ i \in DOMAIN idle /\ idle'[i] = idle[i]
                                \/ i = Len(idle) + 1 /\ idle'[i] = c
    BY <1>2
  <2>2. \A i, j \in DOMAIN idle' : idle'[i] = idle'[j] => i = j
    BY <2>1 DEF OwnerInv, InHand
  <2>3. \A i \in DOMAIN idle' : /\ idle'[i] # d /\ idle'[i] \notin Taken
                                /\ \A q \in Requests : conns[q] # idle'[i]
    BY <2>1 DEF OwnerInv, InHand
  <2>4. /\ d \notin Taken
        /\ \A q, r \in Requests : conns[q] = conns[r] /\ conns[q] # NoConn => q = r
        /\ \A q \in Requests : conns[q] # NoConn => conns[q] # d /\ conns[q] \notin Taken
    BY DEF InHand
  <2>5. QED
    BY <2>2, <2>3, <2>4 DEF OwnerInv
<1>6. LeakInv'
  <2>1. Idle(c)'
    BY <1>2 DEF Idle
  <2>2. \A e : Idle(e) => Idle(e)'
    BY <1>2 DEF Idle
  <2>3. QED
    BY <1>1, <2>1, <2>2 DEF LeakInv, Held, InHand
<1>7. LimitInv'
  <2>1. reload # "dropping"
    BY <1>2 DEF LimitInv
  <2>2. QED
    BY <2>1 DEF LimitInv
<1>8. CountInv'
  BY <1>1 DEF CountInv
<1>9. RequestInv' /\ LateOnlyOnFirstUse'
  BY DEF RequestInv, LateOnlyOnFirstUse, InHand
<1>10. CostInv'
  BY <1>1, CostKept
<1>11. QED
  BY <1>3, <1>4, <1>5, <1>6, <1>7, <1>8, <1>9, <1>10

LEMMA HandToNobody ==
    ASSUME TypeOK, PoolInv, NEW c, NEW pcs, NEW conns, NEW d, InHand(c, pcs, conns, d),
           dialled' = d, UNCHANGED <<cur, limit, tries, request, reload, closing>>,
           CloseConn(c), pc' = pcs, conn' = conns, UNCHANGED <<idle, waiting>>
    PROVE  TypeOK' /\ PoolInv'
<1> USE DEF PoolInv, request, opened, closing, Taken
<1>1. c \in Open /\ Dialling' = Dialling /\ Failed' = Failed
  BY DEF InHand, Dialling, Failed
<1>2. /\ Open' = Open \ {c} /\ of' \in [Conns -> 0..MaxGen] /\ used' \subseteq Open'
      /\ numOpen' \in 0..MaxOpen /\ asked' \in 0..MaxOpen /\ CountInv'
  BY <1>1, CloseCounts
<1>3. of' = [of EXCEPT ![c] = 0] /\ c \in Conns /\ used' \subseteq used
  BY <1>1 DEF CloseConn, Open
<1>4. TypeOK'
  <2>1. idle' \in Seq(Open')
    BY <1>2, IdleAvoids DEF InHand
  <2>2. dialled' \in Open' \union {NoConn} /\ Taken' \subseteq Open'
    BY <1>2 DEF InHand, TypeOK
  <2>3. pc' \in [Requests -> States] /\ conn' \in [Requests -> Conns \union {NoConn}]
    BY DEF InHand
  <2>4. QED
    BY <1>2, <2>1, <2>2, <2>3 DEF TypeOK, States
<1>5. HolderInv'
  BY <1>2 DEF HolderInv, Holds, HoldsIn, InHand
<1>6. OwnerInv'
  BY DEF OwnerInv, InHand
<1>7. LeakInv'
  BY <1>2 DEF LeakInv, Held, Idle, InHand
<1>8. LimitInv'
  BY DEF LimitInv
<1>9. RequestInv' /\ LateOnlyOnFirstUse'
  <2>1. \A r \in Requests : of'[conns[r]] = of[conns[r]] \/ conns[r] = NoConn
    BY <1>3, PoolAssumption DEF InHand, TypeOK, PoolAssumption
  <2>2. \A r \in Requests : pcs[r] \in {"bad", "running"} => conns[r] # NoConn
    BY PoolAssumption DEF InHand, HoldsIn, Open, PoolAssumption
  <2>3. \A e \in Conns : of'[e] <= cur
    BY <1>3, PoolAssumption DEF RequestInv, TypeOK, PoolAssumption
  <2>4. \A r \in Requests : since[r] <= cur
    BY DEF RequestInv
  <2>5. QED
    <3>1. RequestInv'
      BY <2>1, <2>2, <2>3, <2>4 DEF RequestInv, InHand
    <3>2. LateOnlyOnFirstUse'
      BY <1>3, <2>1, <2>2 DEF LateOnlyOnFirstUse, InHand
    <3>3. QED
      BY <3>1, <3>2
<1>10. CostInv'
  <2>1. Stale' \subseteq Stale
    BY <1>2, <1>3 DEF Stale, Open, TypeOK
  <2>2. QED
    BY <1>1, <2>1, CostKept
<1>11. QED
  BY <1>2, <1>4, <1>5, <1>6, <1>7, <1>8, <1>9, <1>10

LEMMA HandOverKeeps ==
    ASSUME TypeOK, PoolInv, NEW c, NEW pcs, NEW conns, NEW d, InHand(c, pcs, conns, d),
           dialled' = d, UNCHANGED <<cur, limit, tries, request, reload, closing>>,
           HandOver(c, pcs, conns)
    PROVE  TypeOK' /\ PoolInv'
BY HandToWaiting, HandToIdle, HandToNobody DEF HandOver

LEMMA PutConnStep ==
    ASSUME TypeOK, PoolInv, NEW q \in Requests, PutConn(q)
    PROVE  TypeOK' /\ PoolInv'
BY PutInHand, HandOverKeeps DEF PutConn

LEMMA OpenerHandsOverStep ==
    ASSUME TypeOK, PoolInv, OpenerHandsOver
    PROVE  TypeOK' /\ PoolInv'
BY DialledInHand, HandOverKeeps DEF OpenerHandsOver

-----------------------------------------------------------------------------
LEMMA OpenBounded ==
    ASSUME TypeOK, CountInv
    PROVE  Cardinality(Open) \in Nat /\ Cardinality(Open) <= MaxOpen
<1>1. Open \subseteq Conns /\ Dialling \subseteq Requests
  BY DEF Open, Dialling
<1>2. Cardinality(Open) \in Nat /\ Cardinality(Dialling) \in Nat
  BY <1>1, Finite
<1>3. QED
  BY <1>2, PoolAssumption DEF TypeOK, CountInv, PoolAssumption

(* A swap makes every connection stale that was not already, MaxOpen at most. *)
LEMMA SwapInStep ==
    ASSUME TypeOK, PoolInv, SwapIn
    PROVE  TypeOK' /\ PoolInv'
<1> USE DEF PoolInv, pool, request, opened, closing, Taken
<1>1. /\ reload = "idle" /\ cur < MaxGen /\ cur' = cur + 1 /\ reload' = "swapped"
      /\ UNCHANGED <<opened, pool, limit, dialled, pc, conn, tries, request, closing>>
  BY DEF SwapIn
<1>2. Open' = Open /\ Dialling' = Dialling /\ Failed' = Failed
  BY <1>1 DEF Open, Dialling, Failed
<1>3. TypeOK'
  BY <1>1, <1>2, PoolAssumption DEF TypeOK, PoolAssumption
<1>4. HolderInv' /\ OwnerInv' /\ LeakInv' /\ LimitInv' /\ CountInv'
  BY <1>1, <1>2 DEF HolderInv, OwnerInv, LeakInv, LimitInv, CountInv, Holds, Held, Idle
<1>5. RequestInv' /\ LateOnlyOnFirstUse'
  <2>1. cur \in Nat /\ \A e \in Conns : of[e] \in Nat
    BY PoolAssumption DEF TypeOK, PoolAssumption
  <2>2. \A r \in Requests : since[r] \in Nat
    BY PoolAssumption DEF TypeOK, PoolAssumption
  <2>3. \A r \in Requests : pc[r] = "bad" => conn[r] \in Conns
    BY DEF HolderInv, Holds, Open
  <2>4. QED
    BY <1>1, <2>1, <2>2, <2>3 DEF RequestInv, LateOnlyOnFirstUse
<1>6. CostInv'
  <2> DEFINE before == (cur - 1) * MaxOpen
             after == (cur' - 1) * MaxOpen
  <2>1. cur \in Nat /\ MaxOpen \in Nat
    BY PoolAssumption DEF TypeOK, PoolAssumption
  <2>2. before \in Int /\ after \in Int /\ after = before + MaxOpen
    BY <1>1, <2>1
  <2>3. /\ Cardinality(Stale) \in Nat /\ Cardinality(Stale') \in Nat
        /\ Cardinality(Stale') <= Cardinality(Open)
    <3>1. Stale \subseteq Conns /\ Stale' \subseteq Open /\ Open \subseteq Conns
      BY <1>1, <1>2 DEF Stale, Open
    <3>2. QED
      BY <3>1, Finite, FS_Subset
  <2>4. Cardinality(Failed) + Cardinality(Stale) <= before
    BY DEF CostInv
  <2>5. Cardinality(Failed) \in Nat /\ Cardinality(Open) \in Nat
        /\ Cardinality(Open) <= MaxOpen
    <3>1. Failed \subseteq Requests
      BY DEF Failed
    <3>2. QED
      BY <3>1, Finite, OpenBounded
  <2>6. Cardinality(Failed) + Cardinality(Stale') <= after
    BY <2>1, <2>2, <2>3, <2>4, <2>5
  <2>7. QED
    BY <1>2, <2>6 DEF CostInv
<1>7. QED
  BY <1>3, <1>4, <1>5, <1>6

(* A step of the reload that makes no connection stale, opens or closes none,  *)
(* and leaves the requests alone.                                            *)
LEMMA ReloadKeeps ==
    ASSUME TypeOK, PoolInv,
           UNCHANGED <<cur, opened, numOpen, waiting, asked, dialled, pc, conn, tries, request>>
    PROVE  /\ Open' = Open
           /\ HolderInv' /\ CountInv' /\ RequestInv' /\ CostInv' /\ LateOnlyOnFirstUse'
<1> USE DEF PoolInv, request, opened, Taken
<1>1. Open' = Open /\ Stale' = Stale /\ Dialling' = Dialling /\ Failed' = Failed
  BY DEF Open, Stale, Dialling, Failed
<1>2. HolderInv' /\ CountInv' /\ RequestInv' /\ LateOnlyOnFirstUse'
  BY <1>1 DEF HolderInv, CountInv, RequestInv, LateOnlyOnFirstUse, Holds
<1>3. CostInv'
  BY <1>1, CostKept
<1>4. QED
  BY <1>1, <1>2, <1>3

LEMMA ForbidIdleStep ==
    ASSUME TypeOK, PoolInv, ForbidIdle
    PROVE  TypeOK' /\ PoolInv'
<1> USE DEF PoolInv, request, opened, Taken
<1>1. /\ reload = "swapped" /\ reload' = "dropping" /\ limit' = 0
      /\ drop' = ToSet(idle) /\ idle' = <<>>
      /\ UNCHANGED <<cur, opened, numOpen, waiting, asked, dialled, pc, conn, tries, request,
                     cleaned>>
  BY DEF ForbidIdle
<1>2. /\ Open' = Open
      /\ HolderInv' /\ CountInv' /\ RequestInv' /\ CostInv' /\ LateOnlyOnFirstUse'
  BY <1>1, ReloadKeeps
<1>3. drop = {} /\ \A e : e \in drop' <=> Idle(e)
  BY <1>1 DEF LimitInv, ToSet, Idle
<1>4. drop' \subseteq Open
  BY <1>3, IdleSeq DEF Idle
<1>5. idle' \in Seq(Open) /\ Len(idle') = 0 /\ DOMAIN idle' = {}
  BY <1>1
<1>6. TypeOK'
  BY <1>1, <1>2, <1>4, <1>5, PoolAssumption DEF TypeOK, PoolAssumption
<1>7. OwnerInv'
  <2>1. \A q \in Requests : conn[q] # NoConn => conn[q] # dialled /\ ~Idle(conn[q])
    BY DEF OwnerInv, Idle
  <2>2. ~Idle(dialled)
    BY DEF OwnerInv, Idle
  <2>3. \A e \in cleaned : ~Idle(e)
    BY DEF OwnerInv, Idle
  <2>4. QED
    BY <1>1, <1>3, <1>5, <2>1, <2>2, <2>3 DEF OwnerInv
<1>8. LeakInv'
  BY <1>1, <1>2, <1>3 DEF LeakInv, Held
<1>9. LimitInv'
  BY <1>1 DEF LimitInv
<1>10. QED
  BY <1>2, <1>6, <1>7, <1>8, <1>9

LEMMA AllowIdleStep ==
    ASSUME TypeOK, PoolInv, AllowIdle
    PROVE  TypeOK' /\ PoolInv'
<1> USE DEF PoolInv, pool, request, opened, closing, Taken
<1>1. /\ reload = "dropping" /\ reload' = "idle" /\ limit' = MaxIdle /\ drop = {}
      /\ UNCHANGED <<cur, opened, pool, dialled, pc, conn, tries, request, closing>>
  BY DEF AllowIdle
<1>2. /\ Open' = Open
      /\ HolderInv' /\ CountInv' /\ RequestInv' /\ CostInv' /\ LateOnlyOnFirstUse'
  BY <1>1, ReloadKeeps
<1>3. TypeOK'
  BY <1>1, <1>2 DEF TypeOK
<1>4. OwnerInv' /\ LeakInv' /\ LimitInv'
  BY <1>1, <1>2 DEF OwnerInv, LeakInv, LimitInv, Held, Idle
<1>5. QED
  BY <1>2, <1>3, <1>4

LEMMA StutterStep ==
    ASSUME TypeOK, PoolInv, UNCHANGED vars
    PROVE  TypeOK' /\ PoolInv'
<1> USE DEF PoolInv, vars, request, opened, Taken
<1>1. /\ Open' = Open
      /\ HolderInv' /\ CountInv' /\ RequestInv' /\ CostInv' /\ LateOnlyOnFirstUse'
  BY ReloadKeeps
<1>2. TypeOK'
  BY <1>1 DEF TypeOK
<1>3. OwnerInv' /\ LeakInv' /\ LimitInv'
  BY <1>1 DEF OwnerInv, LeakInv, LimitInv, Held, Idle
<1>4. QED
  BY <1>1, <1>2, <1>3

LEMMA PoolStep ==
    ASSUME TypeOK, PoolInv, [Next]_vars
    PROVE  TypeOK' /\ PoolInv'
<1>1. ASSUME NEW q \in Requests, QueryStep(q) PROVE TypeOK' /\ PoolInv'
  BY <1>1, BeginStep, AcquireStep, DialStep, ResetStep, RetryStep, HolderStep,
     PutConnStep, DropConnStep DEF QueryStep
<1>2. ASSUME Opener PROVE TypeOK' /\ PoolInv'
  BY <1>2, OpenerDialsStep, OpenerHandsOverStep DEF Opener
<1>3. ASSUME ReloadStep PROVE TypeOK' /\ PoolInv'
  BY <1>3, ForbidIdleStep, CloseDroppedStep, AllowIdleStep DEF ReloadStep
<1>4. QED
  BY <1>1, <1>2, <1>3, CleanerTakesStep, CleanerClosesStep, SwapInStep, StutterStep
  DEF Next, Done

-----------------------------------------------------------------------------
(* Every variable keeps its type; in particular numOpen stays within          *)
(* SetMaxOpenConns and the idle list within SetMaxIdleConns (reload.go:29-47). *)
THEOREM TypeCorrect == Spec => []TypeOK
<1>1. Spec => [](TypeOK /\ PoolInv)
  BY InitPool, PoolStep, PTL DEF Spec
<1>2. QED
  BY <1>1, PTL

(* Each open connection is in one place and in none twice: with a query, in   *)
(* the list, with connectionOpener or being closed; numOpen counts them, and  *)
(* the rest of what the other theorems rest on.                              *)
THEOREM ConnectionsHaveOneOwner == Spec => []PoolInv
<1>1. Spec => [](TypeOK /\ PoolInv)
  BY InitPool, PoolStep, PTL DEF Spec
<1>2. QED
  BY <1>1, PTL

(* No more connections are open to the files, superseded ones included, than  *)
(* SetMaxOpenConns allows, however connectionOpener, a swap and a reload's    *)
(* closing of idle ones interleave (reload.go:29-47).                        *)
THEOREM NeverMoreThanMaxOpen == Spec => [](Cardinality(Open) <= MaxOpen)
<1>1. TypeOK /\ PoolInv => Cardinality(Open) <= MaxOpen
  BY OpenBounded DEF PoolInv
<1>2. QED
  BY <1>1, TypeCorrect, ConnectionsHaveOneOwner, PTL

(* A query that runs on a file superseded before it began is the first its    *)
(* connection serves, although IsValid and the swap race (reload.go:279-289). *)
THEOREM LateQueryIsFirst == Spec => []LateOnlyOnFirstUse
<1>1. PoolInv => LateOnlyOnFirstUse
  BY DEF PoolInv
<1>2. QED
  BY <1>1, ConnectionsHaveOneOwner, PTL

(* No more queries fail for want of a connection than connections were open   *)
(* at the swaps, however old the connections (reload.go:286, db.go:121).     *)
THEOREM OnlyReloadsFailQueries == Spec => []FailuresAreReloads
<1>1. TypeOK /\ PoolInv => FailuresAreReloads
  <2> SUFFICES ASSUME TypeOK, PoolInv PROVE FailuresAreReloads
    OBVIOUS
  <2> DEFINE bound == (cur - 1) * MaxOpen
  <2>1. Cardinality(Stale) \in Nat /\ Cardinality(Failed) \in Nat
    <3>1. Stale \subseteq Conns /\ Failed \subseteq Requests
      BY DEF Stale, Open, Failed
    <3>2. QED
      BY <3>1, Finite
  <2>2. bound \in Int
    BY PoolAssumption DEF TypeOK, PoolAssumption
  <2>3. Cardinality(Failed) + Cardinality(Stale) <= bound
    BY DEF PoolInv, CostInv
  <2>4. Cardinality(Failed) <= bound
    BY <2>1, <2>2, <2>3
  <2>5. QED
    BY <2>4 DEF FailuresAreReloads, Failed
<1>2. QED
  BY <1>1, TypeCorrect, ConnectionsHaveOneOwner, PTL

(* When Reload returns, a connection to an older file is in use, about to be  *)
(* handed over or being closed by the cleaner: none sits in the list or waits *)
(* for Reload to close it (reload.go:76-78).                                 *)
THEOREM ReloadLeavesNoneIdle == Spec => NoneLeftIdle
<1>1. ASSUME TypeOK, PoolInv, [Next]_vars, reload = "dropping", reload' = "idle",
             NEW c \in Open
      PROVE  c = dialled \/ c \in cleaned \/ \E q \in Requests : conn[q] = c
  <2>1. idle = <<>>
    BY <1>1 DEF PoolInv, LimitInv
  <2>2. drop = {}
    BY <1>1
    DEF Next, QueryStep, Begin, Acquire, Dial, TooOld, ResetSession, Retry, IsValid, PutConn,
        PutExpired, DropConn, Opener, OpenerDials, OpenerHandsOver, CleanerTakes, CleanerCloses,
        SwapIn, ReloadStep, ForbidIdle, CloseDropped, AllowIdle, Done, vars
  <2>3. ~Idle(c)
    BY <2>1 DEF Idle
  <2>4. QED
    BY <1>1, <2>2, <2>3 DEF PoolInv, LeakInv, Held, Taken
<1>2. TypeOK /\ PoolInv /\ [Next]_vars =>
        [reload = "dropping" /\ reload' = "idle" =>
            \A c \in Open : of[c] < cur =>
                c = dialled \/ c \in cleaned \/ \E q \in Requests : conn[q] = c]_vars
  BY <1>1
<1>3. QED
  BY <1>2, TypeCorrect, ConnectionsHaveOneOwner, PTL DEF Spec, NoneLeftIdle
=============================================================================
