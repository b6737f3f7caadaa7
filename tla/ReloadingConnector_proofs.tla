---------------------- MODULE ReloadingConnector_proofs ----------------------
(* Safety of ReloadingConnector for any number of connections, reloads and    *)
(* files: the inductive invariant IInv and what follows from it.             *)
EXTENDS ReloadingConnector, FiniteSetTheorems, TLAPS

(* Only finitely many connections are taken from a generation.               *)
LEMMA UsersFinite ==
    \A g : IsFiniteSet(UsersOf(g))
BY FS_Subset, ConnectorAssumption DEF UsersOf, ConnectorAssumption

(* A step that moves no connection keeps the counts right.                   *)
LEMMA CountKept ==
    ASSUME CountInv, open' = open,
           \A c \in Conns : Using(c)' <=> Using(c),
           \A c \in Conns : Using(c) => gen'[c] = gen[c]
    PROVE  CountInv'
<1>1. \A g : UsersOf(g)' = UsersOf(g)
  BY DEF UsersOf
<1>2. QED
  BY <1>1 DEF CountInv

(* A generation whose count is zero is used by nobody.                       *)
LEMMA NoUsers ==
    ASSUME CountInv, NEW g \in Gens, open[g] = 0, NEW c \in Conns, Using(c)
    PROVE  gen[c] # g
<1>1. UsersOf(g) = {}
  BY UsersFinite, FS_EmptySet DEF CountInv
<1>2. QED
  BY <1>1 DEF UsersOf

(* What Reload returns has the type of a report.                             *)
LEMMA ReturnTypes ==
    ASSUME TypeOK, NEW r \in Reloaders, NEW f \in Files \union {NoFile},
           NEW changed \in BOOLEAN, NEW err \in BOOLEAN,
           Return(r, f, changed, err)
    PROVE  /\ report' \in [Reloaders -> [file : Files \union {NoFile},
                                         changed : BOOLEAN, err : BOOLEAN]]
           /\ pc' = [pc EXCEPT ![r] = "done"]
BY DEF TypeOK, Return

(* Roles do not overlap.                                                     *)
LEMMA Roles ==
    /\ \A c \in Conns : c \in Procs /\ c \notin Reloaders /\ c # Main
    /\ \A r \in Reloaders : r \in Procs /\ r \notin Conns /\ r # Main
    /\ Main \in Procs /\ Main \notin Conns /\ Main \notin Reloaders
    /\ NoGen \notin Gens
    /\ NoFile \notin Files
    /\ Sound \subseteq Files
BY ConnectorAssumption DEF ConnectorAssumption, Procs

(* A step keeps what every other reload has read.                            *)
LEMMA OtherReloads ==
    ASSUME TypeOK, ReloadInv, CandidateInv, NEW q \in Reloaders,
           pc'[q] = pc[q], gen'[q] = gen[q], next'[q] = next[q],
           \A g \in Gens : file[g] # NoFile => file'[g] = file[g]
    PROVE  ReloadInv!(q)'
BY DEF ReloadInv, CandidateInv, HasCandidate, Carries

LEMMA InitInv == Init => TypeOK /\ IInv
<1> SUFFICES ASSUME Init PROVE TypeOK /\ IInv
  OBVIOUS
<1> USE Roles
<1>1. TypeOK
  BY DEF Init, TypeOK, NoReport
<1>2. CountInv
  <2>1. \A g : UsersOf(g) = {}
    BY DEF Init, UsersOf, Using
  <2>2. QED
    BY <2>1, FS_EmptySet DEF CountInv, Init
<1>3. UserInv
  BY DEF Init, UserInv, Using
<1>4. CurInv
  BY DEF Init, CurInv
<1>5. CloserInv /\ RetirerInv
  BY DEF Init, CloserInv, RetirerInv, Procs
<1>6. CandidateInv /\ ReloadInv
  BY DEF Init, CandidateInv, ReloadInv, HasCandidate
<1>7. ClosedInv /\ FreshInv
  BY DEF Init, ClosedInv, FreshInv
<1>8. QED
  BY <1>1, <1>2, <1>3, <1>4, <1>5, <1>6, <1>7 DEF IInv

(* A connection being released is counted.                                   *)
LEMMA ReleasedIsCounted ==
    ASSUME TypeOK, CountInv, UserInv, NEW c \in Conns, pc[c] = "closing"
    PROVE  gen[c] \in Gens /\ open[gen[c]] - 1 \in Nat
<1>1. c \in UsersOf(gen[c]) /\ gen[c] \in Gens
  BY DEF UsersOf, Using, UserInv
<1>2. Cardinality(UsersOf(gen[c])) # 0 /\ Cardinality(UsersOf(gen[c])) \in Nat
  BY <1>1, UsersFinite, FS_EmptySet, FS_CardinalityType
<1>3. QED
  BY <1>1, <1>2 DEF CountInv

LEMMA TypeStep ==
    TypeOK /\ IInv /\ [Next]_vars => TypeOK'
<1> SUFFICES ASSUME TypeOK, IInv, [Next]_vars PROVE TypeOK'
  OBVIOUS
<1> USE Roles DEF TypeOK, counts, fileSystem, Goto
<1>1. ASSUME NEW f \in Files, Repoint(f) PROVE TypeOK'
  BY <1>1 DEF Repoint
<1>2. ASSUME NEW c \in Conns, Connect(c) PROVE TypeOK'
  BY <1>2 DEF Connect
<1>3. ASSUME NEW c \in Conns, CloseConn(c) PROVE TypeOK'
  BY <1>3 DEF CloseConn
<1>4. ASSUME NEW c \in Conns, Release(c) PROVE TypeOK'
  <2>1. gen[c] \in Gens /\ open[gen[c]] - 1 \in Nat
    BY <1>4, ReleasedIsCounted DEF IInv, Release
  <2>2. QED
    BY <1>4, <2>1 DEF Release
<1>5. ASSUME NEW p \in Procs, CloseConnector(p) PROVE TypeOK'
  BY <1>5 DEF CloseConnector, IInv, CloserInv
<1>6. ASSUME NEW p \in Procs, Retire(p) PROVE TypeOK'
  BY <1>6 DEF Retire
<1>7. ASSUME NEW r \in Reloaders, ReloadStart(r) PROVE TypeOK'
  <2>1. CASE cur = NoGen
    BY <1>7, <2>1, ReturnTypes DEF ReloadStart
  <2>2. CASE cur # NoGen
    BY <1>7, <2>2 DEF ReloadStart
  <2>3. QED
    BY <2>1, <2>2
<1>8. ASSUME NEW r \in Reloaders, Resolve(r) PROVE TypeOK'
  <2>1. CASE link = file[gen[r]]
    BY <1>8, <2>1, ReturnTypes DEF Resolve
  <2>2. CASE link # file[gen[r]]
    BY <1>8, <2>2 DEF Resolve
  <2>3. QED
    BY <2>1, <2>2
<1>9. ASSUME NEW r \in Reloaders, OpenNext(r) PROVE TypeOK'
  BY <1>9 DEF OpenNext
<1>10. ASSUME NEW r \in Reloaders, OpenFails(r) PROVE TypeOK'
  <2>1. file[gen[r]] \in Files \union {NoFile}
    BY <1>10 DEF OpenFails, IInv, ReloadInv
  <2>2. QED
    BY <1>10, <2>1, ReturnTypes DEF OpenFails
<1>11. ASSUME NEW r \in Reloaders, ListedOld(r) PROVE TypeOK'
  BY <1>11 DEF ListedOld
<1>12. ASSUME NEW r \in Reloaders, ValidateFails(r) PROVE TypeOK'
  BY <1>12 DEF ValidateFails
<1>13. ASSUME NEW r \in Reloaders, Check(r) PROVE TypeOK'
  BY <1>13 DEF Check
<1>14. ASSUME NEW r \in Reloaders, Swap(r) PROVE TypeOK'
  BY <1>14 DEF Swap
<1>15. ASSUME NEW r \in Reloaders, Discard(r) PROVE TypeOK'
  <2>1. file[gen[r]] \in Files \union {NoFile}
    BY <1>15 DEF Discard, IInv, ReloadInv, HasCandidate
  <2>2. QED
    <3>1. report' \in [Reloaders -> [file : Files \union {NoFile},
                                    changed : BOOLEAN, err : BOOLEAN]]
      BY <1>15, <2>1, ReturnTypes DEF Discard
    <3>2. closed' \in [Gens -> Nat] /\ pc' = [pc EXCEPT ![r] = "done"]
      BY <1>15 DEF Discard, Return, IInv, CandidateInv, HasCandidate
    <3>3. QED
      BY <1>15, <3>1, <3>2 DEF Discard
<1>16. ASSUME NEW r \in Reloaders, DropIdle(r) PROVE TypeOK'
  <2>1. file[next[r]] \in Files \union {NoFile}
    BY <1>16 DEF DropIdle, IInv, ReloadInv
  <2>2. QED
    BY <1>16, <2>1, ReturnTypes DEF DropIdle
<1>17. ASSUME NEW r \in Reloaders, Logged(r) PROVE TypeOK'
  BY <1>17 DEF Logged, NoReport
<1>18. CASE CloseHandle
  BY <1>18 DEF CloseHandle
<1>19. CASE UNCHANGED vars
  BY <1>19 DEF vars
<1>20. QED
  BY <1>1, <1>2, <1>3, <1>4, <1>5, <1>6, <1>7, <1>8, <1>9, <1>10, <1>11,
     <1>12, <1>13, <1>14, <1>15, <1>16, <1>17, <1>18, <1>19
  DEF Next, ConnStep, ReloadStep, MainStep

LEMMA RepointInv ==
    ASSUME TypeOK, IInv, TypeOK', NEW f \in Files, Repoint(f)
    PROVE  IInv'
<1> USE Roles DEF IInv, TypeOK, Repoint, counts, fileSystem, Goto
<1>1. CountInv'
  BY CountKept DEF Using
<1>2. UserInv'
  BY DEF UserInv, Using, CurInv, CloserInv, CandidateInv, HasCandidate
<1>3. CurInv'
  BY DEF CurInv, CloserInv, CandidateInv, HasCandidate
<1>4. CloserInv'
  BY DEF CloserInv, RetirerInv, CandidateInv, HasCandidate, CurInv, UserInv, Using
<1>5. RetirerInv'
  BY DEF RetirerInv, CurInv, CandidateInv, HasCandidate, CloserInv
<1>6. CandidateInv'
  BY DEF CandidateInv, HasCandidate, RetirerInv, CurInv, CloserInv, UserInv, Using, FreshInv
<1>7. ClosedInv'
  BY DEF ClosedInv, CloserInv, CandidateInv, HasCandidate, CurInv, UserInv
<1>8. FreshInv'
  BY DEF FreshInv, CurInv, CloserInv, RetirerInv, CandidateInv, HasCandidate, UserInv
<1>9. ReloadInv'
  BY DEF ReloadInv, HasCandidate, CurInv, FreshInv, CandidateInv, Carries
<1>10. QED
  BY <1>1, <1>2, <1>3, <1>4, <1>5, <1>6, <1>7, <1>8, <1>9 DEF IInv

LEMMA ConnectInv ==
    ASSUME TypeOK, IInv, TypeOK', NEW c \in Conns, Connect(c)
    PROVE  IInv'
<1> USE Roles DEF IInv, TypeOK, Connect, counts, fileSystem, Goto
<1>1. CountInv'
  <2>1. \A d \in Conns : /\ d # c => (Using(d)' <=> Using(d)) /\ gen'[d] = gen[d]
                         /\ d = c => Using(d)' /\ gen'[d] = cur /\ ~Using(d)
    BY DEF Using
  <2>2. UsersOf(cur)' = UsersOf(cur) \union {c} /\ c \notin UsersOf(cur)
    BY <2>1 DEF UsersOf
  <2>3. \A g \in Gens \ {cur} : UsersOf(g)' = UsersOf(g)
    BY <2>1 DEF UsersOf
  <2>4. Cardinality(UsersOf(cur) \union {c}) = Cardinality(UsersOf(cur)) + 1
    BY <2>2, UsersFinite, FS_AddElement
  <2>5. \A g \in Gens : open'[g] = IF g = cur THEN open[g] + 1 ELSE open[g]
    OBVIOUS
  <2>6. QED
    BY <2>2, <2>3, <2>4, <2>5 DEF CountInv
<1>2. UserInv'
  BY DEF UserInv, Using, CurInv, CloserInv, CandidateInv, HasCandidate
<1>3. CurInv'
  BY DEF CurInv, CloserInv, CandidateInv, HasCandidate
<1>4. CloserInv'
  BY DEF CloserInv, RetirerInv, CandidateInv, HasCandidate, CurInv, UserInv, Using
<1>5. RetirerInv'
  BY DEF RetirerInv, CurInv, CandidateInv, HasCandidate, CloserInv
<1>6. CandidateInv'
  BY DEF CandidateInv, HasCandidate, RetirerInv, CurInv, CloserInv, UserInv, Using, FreshInv
<1>7. ClosedInv'
  BY DEF ClosedInv, CloserInv, CandidateInv, HasCandidate, CurInv, UserInv
<1>8. FreshInv'
  BY DEF FreshInv, CurInv, CloserInv, RetirerInv, CandidateInv, HasCandidate, UserInv
<1>9. ReloadInv'
  BY DEF ReloadInv, HasCandidate, CurInv, FreshInv, CandidateInv, Carries
<1>10. QED
  BY <1>1, <1>2, <1>3, <1>4, <1>5, <1>6, <1>7, <1>8, <1>9 DEF IInv

LEMMA CloseConnInv ==
    ASSUME TypeOK, IInv, TypeOK', NEW c \in Conns, CloseConn(c)
    PROVE  IInv'
<1> USE Roles DEF IInv, TypeOK, CloseConn, counts, fileSystem, Goto
<1>1. CountInv'
  BY CountKept DEF Using
<1>2. UserInv'
  BY DEF UserInv, Using, CurInv, CloserInv, CandidateInv, HasCandidate
<1>3. CurInv'
  BY DEF CurInv, CloserInv, CandidateInv, HasCandidate
<1>4. CloserInv'
  BY DEF CloserInv, RetirerInv, CandidateInv, HasCandidate, CurInv, UserInv, Using
<1>5. RetirerInv'
  BY DEF RetirerInv, CurInv, CandidateInv, HasCandidate, CloserInv
<1>6. CandidateInv'
  BY DEF CandidateInv, HasCandidate, RetirerInv, CurInv, CloserInv, UserInv, Using, FreshInv
<1>7. ClosedInv'
  BY DEF ClosedInv, CloserInv, CandidateInv, HasCandidate, CurInv, UserInv
<1>8. FreshInv'
  BY DEF FreshInv, CurInv, CloserInv, RetirerInv, CandidateInv, HasCandidate, UserInv
<1>9. ReloadInv'
  BY DEF ReloadInv, HasCandidate, CurInv, FreshInv, CandidateInv, Carries
<1>10. QED
  BY <1>1, <1>2, <1>3, <1>4, <1>5, <1>6, <1>7, <1>8, <1>9 DEF IInv

LEMMA ReleaseInv ==
    ASSUME TypeOK, IInv, TypeOK', NEW c \in Conns, Release(c)
    PROVE  IInv'
<1> USE Roles DEF IInv, TypeOK, Release, counts, fileSystem, Goto
<1>1. CountInv'
  <2>1. PICK g \in Gens : g = gen[c]
    BY ReleasedIsCounted
  <2>2. \A d \in Conns : /\ d # c => (Using(d)' <=> Using(d)) /\ gen'[d] = gen[d]
                         /\ d = c => Using(d) /\ ~Using(d)'
    BY DEF Using
  <2>3. UsersOf(g)' = UsersOf(g) \ {c} /\ c \in UsersOf(g)
    BY <2>1, <2>2 DEF UsersOf
  <2>4. \A h \in Gens \ {g} : UsersOf(h)' = UsersOf(h)
    BY <2>1, <2>2 DEF UsersOf
  <2>5. Cardinality(UsersOf(g) \ {c}) = Cardinality(UsersOf(g)) - 1
    BY <2>3, UsersFinite, FS_RemoveElement
  <2>6. \A h \in Gens : open'[h] = IF h = g THEN open[h] - 1 ELSE open[h]
    BY <2>1
  <2>7. QED
    <3>1. open'[g] = Cardinality(UsersOf(g)')
      BY <2>3, <2>5, <2>6 DEF CountInv
    <3>2. \A h \in Gens \ {g} : open'[h] = Cardinality(UsersOf(h)')
      BY <2>4, <2>6 DEF CountInv
    <3>3. \A h \in Gens : open'[h] = Cardinality(UsersOf(h)')
      BY <3>1, <3>2
    <3>4. QED
      BY <3>3 DEF CountInv
<1>2. UserInv'
  BY DEF UserInv, Using, CurInv, CloserInv, CandidateInv, HasCandidate
<1>3. CurInv'
  BY DEF CurInv, CloserInv, CandidateInv, HasCandidate
<1>4. CloserInv'
  BY DEF CloserInv, RetirerInv, CandidateInv, HasCandidate, CurInv, UserInv, Using
<1>5. RetirerInv'
  BY DEF RetirerInv, CurInv, CandidateInv, HasCandidate, CloserInv
<1>6. CandidateInv'
  BY DEF CandidateInv, HasCandidate, RetirerInv, CurInv, CloserInv, UserInv, Using, FreshInv
<1>7. ClosedInv'
  BY DEF ClosedInv, CloserInv, CandidateInv, HasCandidate, CurInv, UserInv
<1>8. FreshInv'
  BY DEF FreshInv, CurInv, CloserInv, RetirerInv, CandidateInv, HasCandidate, UserInv
<1>9. ReloadInv'
  <2>1. \A r \in Reloaders : pc'[r] = pc[r] /\ gen'[r] = gen[r]
    OBVIOUS
  <2>2. QED
    BY <2>1 DEF ReloadInv, HasCandidate, Carries
<1>10. QED
  BY <1>1, <1>2, <1>3, <1>4, <1>5, <1>6, <1>7, <1>8, <1>9 DEF IInv

LEMMA CloseConnectorInv ==
    ASSUME TypeOK, IInv, TypeOK', NEW p \in Procs, CloseConnector(p)
    PROVE  IInv'
<1> USE Roles DEF IInv, TypeOK, CloseConnector, counts, fileSystem, Goto
<1>1. CountInv'
  <2>1. \A c \in Conns : Using(c)' <=> Using(c)
    BY DEF Using
  <2>2. \A c \in Conns : Using(c) => gen'[c] = gen[c]
    BY DEF Using
  <2>3. QED
    BY <2>1, <2>2, CountKept
<1>2. UserInv'
  BY NoUsers DEF UserInv, Using, CloserInv
<1>3. CurInv'
  BY DEF CurInv, CloserInv, CandidateInv, HasCandidate
<1>4. CloserInv'
  BY DEF CloserInv, RetirerInv, CandidateInv, HasCandidate, CurInv, UserInv, Using
<1>5. RetirerInv'
  BY DEF RetirerInv, CurInv, CandidateInv, HasCandidate, CloserInv
<1>6. CandidateInv'
  BY DEF CandidateInv, HasCandidate, RetirerInv, CurInv, CloserInv, UserInv, Using, FreshInv
<1>7. ClosedInv'
  BY DEF ClosedInv, CloserInv, CandidateInv, HasCandidate, CurInv, UserInv
<1>8. FreshInv'
  BY DEF FreshInv, CurInv, CloserInv, RetirerInv, CandidateInv, HasCandidate, UserInv
<1>9. ReloadInv'
  BY DEF ReloadInv, HasCandidate, CurInv, FreshInv, CandidateInv, Carries
<1>10. QED
  BY <1>1, <1>2, <1>3, <1>4, <1>5, <1>6, <1>7, <1>8, <1>9 DEF IInv

LEMMA RetireInv ==
    ASSUME TypeOK, IInv, TypeOK', NEW p \in Procs, Retire(p)
    PROVE  IInv'
<1> USE Roles DEF IInv, TypeOK, Retire, counts, fileSystem, Goto
<1>1. CountInv'
  BY CountKept DEF Using
<1>2. UserInv'
  BY DEF UserInv, Using, CurInv, CloserInv, CandidateInv, HasCandidate
<1>3. CurInv'
  BY DEF CurInv, RetirerInv
<1>4. CloserInv'
  BY DEF CloserInv, RetirerInv, CandidateInv, HasCandidate, CurInv, UserInv, Using
<1>5. RetirerInv'
  BY DEF RetirerInv, CurInv, CandidateInv, HasCandidate, CloserInv
<1>6. CandidateInv'
  BY DEF CandidateInv, HasCandidate, RetirerInv, CurInv, CloserInv, UserInv, Using, FreshInv
<1>7. ClosedInv'
  BY DEF ClosedInv, CloserInv, CandidateInv, HasCandidate, CurInv, UserInv
<1>8. FreshInv'
  BY DEF FreshInv, CurInv, CloserInv, RetirerInv, CandidateInv, HasCandidate, UserInv
<1>9. ReloadInv'
  BY DEF ReloadInv, HasCandidate, CurInv, FreshInv, CandidateInv, Carries
<1>10. QED
  BY <1>1, <1>2, <1>3, <1>4, <1>5, <1>6, <1>7, <1>8, <1>9 DEF IInv

LEMMA ReloadStartInv ==
    ASSUME TypeOK, IInv, TypeOK', NEW r \in Reloaders, ReloadStart(r)
    PROVE  IInv'
<1> USE Roles DEF IInv, TypeOK, ReloadStart, counts, fileSystem, Goto, Return
<1>1. CountInv'
  BY CountKept DEF Using
<1>2. UserInv'
  BY DEF UserInv, Using, CurInv, CloserInv, CandidateInv, HasCandidate
<1>3. CurInv'
  BY DEF CurInv, CloserInv, CandidateInv, HasCandidate
<1>4. CloserInv'
  BY DEF CloserInv, RetirerInv, CandidateInv, HasCandidate, CurInv, UserInv, Using
<1>5. RetirerInv'
  BY DEF RetirerInv, CurInv, CandidateInv, HasCandidate, CloserInv
<1>6. CandidateInv'
  BY DEF CandidateInv, HasCandidate, RetirerInv, CurInv, CloserInv, UserInv, Using, FreshInv
<1>7. ClosedInv'
  BY DEF ClosedInv, CloserInv, CandidateInv, HasCandidate, CurInv, UserInv
<1>8. FreshInv'
  BY DEF FreshInv, CurInv, CloserInv, RetirerInv, CandidateInv, HasCandidate, UserInv
<1>9. ReloadInv'
  <2> SUFFICES ASSUME NEW q \in Reloaders
               PROVE  ReloadInv!(q)'
    BY DEF ReloadInv
  <2>1. CASE q = r
    BY <2>1 DEF ReloadInv, HasCandidate, CurInv
  <2>2. CASE q # r
    <3>1. pc'[q] = pc[q] /\ gen'[q] = gen[q] /\ next'[q] = next[q]
      BY <2>2
    <3>2. QED
      BY <3>1, OtherReloads
  <2>3. QED
    BY <2>1, <2>2
<1>10. QED
  BY <1>1, <1>2, <1>3, <1>4, <1>5, <1>6, <1>7, <1>8, <1>9 DEF IInv

LEMMA ResolveInv ==
    ASSUME TypeOK, IInv, TypeOK', NEW r \in Reloaders, Resolve(r)
    PROVE  IInv'
<1> USE Roles DEF IInv, TypeOK, Resolve, counts, fileSystem, Goto, Return
<1>1. CountInv'
  BY CountKept DEF Using
<1>2. UserInv'
  BY DEF UserInv, Using, CurInv, CloserInv, CandidateInv, HasCandidate
<1>3. CurInv'
  BY DEF CurInv, CloserInv, CandidateInv, HasCandidate
<1>4. CloserInv'
  BY DEF CloserInv, RetirerInv, CandidateInv, HasCandidate, CurInv, UserInv, Using
<1>5. RetirerInv'
  BY DEF RetirerInv, CurInv, CandidateInv, HasCandidate, CloserInv
<1>6. CandidateInv'
  BY DEF CandidateInv, HasCandidate, RetirerInv, CurInv, CloserInv, UserInv, Using, FreshInv
<1>7. ClosedInv'
  BY DEF ClosedInv, CloserInv, CandidateInv, HasCandidate, CurInv, UserInv
<1>8. FreshInv'
  BY DEF FreshInv, CurInv, CloserInv, RetirerInv, CandidateInv, HasCandidate, UserInv
<1>9. ReloadInv'
  <2> SUFFICES ASSUME NEW q \in Reloaders
               PROVE  ReloadInv!(q)'
    BY DEF ReloadInv
  <2>1. CASE q = r
    BY <2>1 DEF ReloadInv, HasCandidate, ReloadInv
  <2>2. CASE q # r
    <3>1. pc'[q] = pc[q] /\ gen'[q] = gen[q] /\ next'[q] = next[q]
      BY <2>2
    <3>2. QED
      BY <3>1, OtherReloads
  <2>3. QED
    BY <2>1, <2>2
<1>10. QED
  BY <1>1, <1>2, <1>3, <1>4, <1>5, <1>6, <1>7, <1>8, <1>9 DEF IInv

LEMMA OpenNextInv ==
    ASSUME TypeOK, IInv, TypeOK', NEW r \in Reloaders, OpenNext(r)
    PROVE  IInv'
<1> USE Roles DEF IInv, TypeOK, OpenNext, counts, fileSystem, Goto
<1>1. CountInv'
  BY CountKept DEF Using
<1>2. UserInv'
  BY DEF UserInv, Using, CurInv, CloserInv, CandidateInv, HasCandidate
<1>3. CurInv'
  BY DEF CurInv, CloserInv, CandidateInv, HasCandidate
<1>4. CloserInv'
  BY DEF CloserInv, RetirerInv, CandidateInv, HasCandidate, CurInv, UserInv, Using
<1>5. RetirerInv'
  BY DEF RetirerInv, CurInv, CandidateInv, HasCandidate, CloserInv
<1>6. CandidateInv'
  BY DEF CandidateInv, HasCandidate, RetirerInv, CurInv, CloserInv, UserInv, Using, FreshInv
<1>7. ClosedInv'
  BY DEF ClosedInv, CloserInv, CandidateInv, HasCandidate, CurInv, UserInv
<1>8. FreshInv'
  BY DEF FreshInv, CurInv, CloserInv, RetirerInv, CandidateInv, HasCandidate, UserInv
<1>9. ReloadInv'
  <2> SUFFICES ASSUME NEW q \in Reloaders
               PROVE  ReloadInv!(q)'
    BY DEF ReloadInv
  <2>1. CASE q = r
    BY <2>1 DEF ReloadInv, HasCandidate, CandidateInv
  <2>2. CASE q # r
    <3>1. pc'[q] = pc[q] /\ gen'[q] = gen[q] /\ next'[q] = next[q]
      BY <2>2
    <3>2. QED
      BY <3>1, OtherReloads
  <2>3. QED
    BY <2>1, <2>2
<1>10. QED
  BY <1>1, <1>2, <1>3, <1>4, <1>5, <1>6, <1>7, <1>8, <1>9 DEF IInv

LEMMA OpenFailsInv ==
    ASSUME TypeOK, IInv, TypeOK', NEW r \in Reloaders, OpenFails(r)
    PROVE  IInv'
<1> USE Roles DEF IInv, TypeOK, OpenFails, counts, fileSystem, Goto, Return
<1>1. CountInv'
  BY CountKept DEF Using
<1>2. UserInv'
  BY DEF UserInv, Using, CurInv, CloserInv, CandidateInv, HasCandidate
<1>3. CurInv'
  BY DEF CurInv, CloserInv, CandidateInv, HasCandidate
<1>4. CloserInv'
  BY DEF CloserInv, RetirerInv, CandidateInv, HasCandidate, CurInv, UserInv, Using
<1>5. RetirerInv'
  BY DEF RetirerInv, CurInv, CandidateInv, HasCandidate, CloserInv
<1>6. CandidateInv'
  BY DEF CandidateInv, HasCandidate, RetirerInv, CurInv, CloserInv, UserInv, Using, FreshInv
<1>7. ClosedInv'
  BY DEF ClosedInv, CloserInv, CandidateInv, HasCandidate, CurInv, UserInv
<1>8. FreshInv'
  BY DEF FreshInv, CurInv, CloserInv, RetirerInv, CandidateInv, HasCandidate, UserInv
<1>9. ReloadInv'
  BY DEF ReloadInv, HasCandidate, CurInv, FreshInv, CandidateInv, Carries
<1>10. QED
  BY <1>1, <1>2, <1>3, <1>4, <1>5, <1>6, <1>7, <1>8, <1>9 DEF IInv

LEMMA ListedOldInv ==
    ASSUME TypeOK, IInv, TypeOK', NEW r \in Reloaders, ListedOld(r)
    PROVE  IInv'
<1> USE Roles DEF IInv, TypeOK, ListedOld, counts, fileSystem, Goto
<1>1. CountInv'
  BY CountKept DEF Using
<1>2. UserInv'
  BY DEF UserInv, Using, CurInv, CloserInv, CandidateInv, HasCandidate
<1>3. CurInv'
  BY DEF CurInv, CloserInv, CandidateInv, HasCandidate
<1>4. CloserInv'
  BY DEF CloserInv, RetirerInv, CandidateInv, HasCandidate, CurInv, UserInv, Using
<1>5. RetirerInv'
  BY DEF RetirerInv, CurInv, CandidateInv, HasCandidate, CloserInv
<1>6. CandidateInv'
  BY DEF CandidateInv, HasCandidate, RetirerInv, CurInv, CloserInv, UserInv, Using, FreshInv
<1>7. ClosedInv'
  BY DEF ClosedInv, CloserInv, CandidateInv, HasCandidate, CurInv, UserInv
<1>8. FreshInv'
  BY DEF FreshInv, CurInv, CloserInv, RetirerInv, CandidateInv, HasCandidate, UserInv
<1>9. ReloadInv'
  BY DEF ReloadInv, HasCandidate, CurInv, FreshInv, CandidateInv, Carries
<1>10. QED
  BY <1>1, <1>2, <1>3, <1>4, <1>5, <1>6, <1>7, <1>8, <1>9 DEF IInv

LEMMA ValidateFailsInv ==
    ASSUME TypeOK, IInv, TypeOK', NEW r \in Reloaders, ValidateFails(r)
    PROVE  IInv'
<1> USE Roles DEF IInv, TypeOK, ValidateFails, counts, fileSystem, Goto
<1>1. CountInv'
  BY CountKept DEF Using
<1>2. UserInv'
  BY DEF UserInv, Using, CurInv, CloserInv, CandidateInv, HasCandidate
<1>3. CurInv'
  BY DEF CurInv, CloserInv, CandidateInv, HasCandidate
<1>4. CloserInv'
  BY DEF CloserInv, RetirerInv, CandidateInv, HasCandidate, CurInv, UserInv, Using
<1>5. RetirerInv'
  BY DEF RetirerInv, CurInv, CandidateInv, HasCandidate, CloserInv
<1>6. CandidateInv'
  BY DEF CandidateInv, HasCandidate, RetirerInv, CurInv, CloserInv, UserInv, Using, FreshInv
<1>7. ClosedInv'
  BY DEF ClosedInv, CloserInv, CandidateInv, HasCandidate, CurInv, UserInv
<1>8. FreshInv'
  BY DEF FreshInv, CurInv, CloserInv, RetirerInv, CandidateInv, HasCandidate, UserInv
<1>9. ReloadInv'
  BY DEF ReloadInv, HasCandidate, CurInv, FreshInv, CandidateInv, Carries
<1>10. QED
  BY <1>1, <1>2, <1>3, <1>4, <1>5, <1>6, <1>7, <1>8, <1>9 DEF IInv

LEMMA CheckInv ==
    ASSUME TypeOK, IInv, TypeOK', NEW r \in Reloaders, Check(r)
    PROVE  IInv'
<1> USE Roles DEF IInv, TypeOK, Check, counts, fileSystem, Goto
<1>1. CountInv'
  BY CountKept DEF Using
<1>2. UserInv'
  BY DEF UserInv, Using, CurInv, CloserInv, CandidateInv, HasCandidate
<1>3. CurInv'
  BY DEF CurInv, CloserInv, CandidateInv, HasCandidate
<1>4. CloserInv'
  BY DEF CloserInv, RetirerInv, CandidateInv, HasCandidate, CurInv, UserInv, Using
<1>5. RetirerInv'
  BY DEF RetirerInv, CurInv, CandidateInv, HasCandidate, CloserInv
<1>6. CandidateInv'
  BY DEF CandidateInv, HasCandidate, RetirerInv, CurInv, CloserInv, UserInv, Using, FreshInv
<1>7. ClosedInv'
  BY DEF ClosedInv, CloserInv, CandidateInv, HasCandidate, CurInv, UserInv
<1>8. FreshInv'
  BY DEF FreshInv, CurInv, CloserInv, RetirerInv, CandidateInv, HasCandidate, UserInv
<1>9. ReloadInv'
  BY DEF ReloadInv, HasCandidate, CurInv, FreshInv, CandidateInv, Carries
<1>10. QED
  BY <1>1, <1>2, <1>3, <1>4, <1>5, <1>6, <1>7, <1>8, <1>9 DEF IInv

LEMMA SwapInv ==
    ASSUME TypeOK, IInv, TypeOK', NEW r \in Reloaders, Swap(r)
    PROVE  IInv'
<1> USE Roles DEF IInv, TypeOK, Swap, counts, fileSystem, Goto
<1>1. CountInv'
  BY CountKept DEF Using
<1>2. UserInv'
  BY DEF UserInv, Using, CurInv, CloserInv, CandidateInv, HasCandidate
<1>3. CurInv'
  BY DEF CurInv, CloserInv, CandidateInv, HasCandidate
<1>4. CloserInv'
  BY DEF CloserInv, RetirerInv, CandidateInv, HasCandidate, CurInv, UserInv, Using
<1>5. RetirerInv'
  BY DEF RetirerInv, CurInv, CandidateInv, HasCandidate, ReloadInv
<1>6. CandidateInv'
  BY DEF CandidateInv, HasCandidate, RetirerInv, CurInv, CloserInv, UserInv, Using, FreshInv
<1>7. ClosedInv'
  BY DEF ClosedInv, CloserInv, CandidateInv, HasCandidate, CurInv, UserInv
<1>8. FreshInv'
  BY DEF FreshInv, CurInv, CloserInv, RetirerInv, CandidateInv, HasCandidate, UserInv
<1>9. ReloadInv'
  BY DEF ReloadInv, HasCandidate, CurInv, FreshInv, CandidateInv, Carries
<1>10. QED
  BY <1>1, <1>2, <1>3, <1>4, <1>5, <1>6, <1>7, <1>8, <1>9 DEF IInv

LEMMA DiscardInv ==
    ASSUME TypeOK, IInv, TypeOK', NEW r \in Reloaders, Discard(r)
    PROVE  IInv'
<1> USE Roles DEF IInv, TypeOK, Discard, counts, fileSystem, Goto, Return
<1>1. CountInv'
  BY CountKept DEF Using
<1>2. UserInv'
  BY NoUsers DEF UserInv, Using, CandidateInv, HasCandidate
<1>3. CurInv'
  BY DEF CurInv, CloserInv, CandidateInv, HasCandidate
<1>4. CloserInv'
  BY DEF CloserInv, RetirerInv, CandidateInv, HasCandidate, CurInv, UserInv, Using
<1>5. RetirerInv'
  BY DEF RetirerInv, CurInv, CandidateInv, HasCandidate, CloserInv
<1>6. CandidateInv'
  BY DEF CandidateInv, HasCandidate, RetirerInv, CurInv, CloserInv, UserInv, Using, FreshInv
<1>7. ClosedInv'
  BY DEF ClosedInv, CloserInv, CandidateInv, HasCandidate, CurInv, UserInv
<1>8. FreshInv'
  BY DEF FreshInv, CurInv, CloserInv, RetirerInv, CandidateInv, HasCandidate, UserInv
<1>9. ReloadInv'
  BY DEF ReloadInv, HasCandidate, CurInv, FreshInv, CandidateInv, Carries
<1>10. QED
  BY <1>1, <1>2, <1>3, <1>4, <1>5, <1>6, <1>7, <1>8, <1>9 DEF IInv

LEMMA DropIdleInv ==
    ASSUME TypeOK, IInv, TypeOK', NEW r \in Reloaders, DropIdle(r)
    PROVE  IInv'
<1> USE Roles DEF IInv, TypeOK, DropIdle, counts, fileSystem, Goto, Return
<1>1. CountInv'
  BY CountKept DEF Using
<1>2. UserInv'
  BY DEF UserInv, Using, CurInv, CloserInv, CandidateInv, HasCandidate
<1>3. CurInv'
  BY DEF CurInv, CloserInv, CandidateInv, HasCandidate
<1>4. CloserInv'
  BY DEF CloserInv, RetirerInv, CandidateInv, HasCandidate, CurInv, UserInv, Using
<1>5. RetirerInv'
  BY DEF RetirerInv, CurInv, CandidateInv, HasCandidate, CloserInv
<1>6. CandidateInv'
  BY DEF CandidateInv, HasCandidate, RetirerInv, CurInv, CloserInv, UserInv, Using, FreshInv
<1>7. ClosedInv'
  BY DEF ClosedInv, CloserInv, CandidateInv, HasCandidate, CurInv, UserInv
<1>8. FreshInv'
  BY DEF FreshInv, CurInv, CloserInv, RetirerInv, CandidateInv, HasCandidate, UserInv
<1>9. ReloadInv'
  BY DEF ReloadInv, HasCandidate, CurInv, FreshInv, CandidateInv, Carries
<1>10. QED
  BY <1>1, <1>2, <1>3, <1>4, <1>5, <1>6, <1>7, <1>8, <1>9 DEF IInv

LEMMA LoggedInv ==
    ASSUME TypeOK, IInv, TypeOK', NEW r \in Reloaders, Logged(r)
    PROVE  IInv'
<1> USE Roles DEF IInv, TypeOK, Logged, counts, fileSystem, Goto
<1>1. CountInv'
  BY CountKept DEF Using
<1>2. UserInv'
  BY DEF UserInv, Using, CurInv, CloserInv, CandidateInv, HasCandidate
<1>3. CurInv'
  BY DEF CurInv, CloserInv, CandidateInv, HasCandidate
<1>4. CloserInv'
  BY DEF CloserInv, RetirerInv, CandidateInv, HasCandidate, CurInv, UserInv, Using
<1>5. RetirerInv'
  BY DEF RetirerInv, CurInv, CandidateInv, HasCandidate, CloserInv
<1>6. CandidateInv'
  BY DEF CandidateInv, HasCandidate, RetirerInv, CurInv, CloserInv, UserInv, Using, FreshInv
<1>7. ClosedInv'
  BY DEF ClosedInv, CloserInv, CandidateInv, HasCandidate, CurInv, UserInv
<1>8. FreshInv'
  BY DEF FreshInv, CurInv, CloserInv, RetirerInv, CandidateInv, HasCandidate, UserInv
<1>9. ReloadInv'
  <2> SUFFICES ASSUME NEW q \in Reloaders
               PROVE  ReloadInv!(q)'
    BY DEF ReloadInv
  <2>1. CASE q = r
    BY <2>1 DEF HasCandidate
  <2>2. CASE q # r
    <3>1. pc'[q] = pc[q] /\ gen'[q] = gen[q] /\ next'[q] = next[q]
      BY <2>2
    <3>2. QED
      BY <3>1, OtherReloads
  <2>3. QED
    BY <2>1, <2>2
<1>10. QED
  BY <1>1, <1>2, <1>3, <1>4, <1>5, <1>6, <1>7, <1>8, <1>9 DEF IInv

LEMMA CloseHandleInv ==
    ASSUME TypeOK, IInv, TypeOK', CloseHandle
    PROVE  IInv'
<1> USE Roles DEF IInv, TypeOK, CloseHandle, counts, fileSystem, Goto
<1>1. CountInv'
  BY CountKept DEF Using
<1>2. UserInv'
  BY DEF UserInv, Using, CurInv, CloserInv, CandidateInv, HasCandidate
<1>3. CurInv'
  BY DEF CurInv, CloserInv, CandidateInv, HasCandidate
<1>4. CloserInv'
  BY DEF CloserInv, RetirerInv, CandidateInv, HasCandidate, CurInv, UserInv, Using
<1>5. RetirerInv'
  BY DEF RetirerInv, CurInv, CandidateInv, HasCandidate, CloserInv
<1>6. CandidateInv'
  BY DEF CandidateInv, HasCandidate, RetirerInv, CurInv, CloserInv, UserInv, Using, FreshInv
<1>7. ClosedInv'
  BY DEF ClosedInv, CloserInv, CandidateInv, HasCandidate, CurInv, UserInv
<1>8. FreshInv'
  BY DEF FreshInv, CurInv, CloserInv, RetirerInv, CandidateInv, HasCandidate, UserInv
<1>9. ReloadInv'
  BY DEF ReloadInv, HasCandidate, CurInv, FreshInv, CandidateInv, Carries
<1>10. QED
  BY <1>1, <1>2, <1>3, <1>4, <1>5, <1>6, <1>7, <1>8, <1>9 DEF IInv

(* No step takes the connector out of the invariant.                         *)
LEMMA InvStep ==
    TypeOK /\ IInv /\ [Next]_vars => TypeOK' /\ IInv'
<1> SUFFICES ASSUME TypeOK, IInv, [Next]_vars PROVE TypeOK' /\ IInv'
  OBVIOUS
<1>1. TypeOK'
  BY TypeStep
<1>2. CASE UNCHANGED vars
  <2>1. \A g : UsersOf(g)' = UsersOf(g)
    BY <1>2 DEF vars, UsersOf, Using
  <2>2. QED
    BY <1>1, <1>2, <2>1 DEF vars, IInv, CountInv, UserInv, CurInv, CloserInv,
       RetirerInv, CandidateInv, ClosedInv, FreshInv, ReloadInv, Using,
       HasCandidate, Carries
<1>3. CASE Next
  BY <1>1, <1>3, Roles, RepointInv, ConnectInv, CloseConnInv, ReleaseInv,
     CloseConnectorInv, RetireInv, ReloadStartInv, ResolveInv, OpenNextInv,
     OpenFailsInv, ListedOldInv, ValidateFailsInv, CheckInv, SwapInv,
     DiscardInv, DropIdleInv, LoggedInv, CloseHandleInv
  DEF Next, ConnStep, ReloadStep, MainStep
<1>4. QED
  BY <1>2, <1>3

(* The inductive invariant, with the types it is stated over, always holds.  *)
THEOREM Invariance == Spec => [](TypeOK /\ IInv)
<1>1. Init => TypeOK /\ IInv
  BY InitInv
<1>2. (TypeOK /\ IInv) /\ [Next]_vars => (TypeOK /\ IInv)'
  BY InvStep
<1>3. QED
  BY <1>1, <1>2, PTL DEF Spec

(* Every variable keeps its type (the state of reloadingConnector and of the *)
(* goroutines in it).                                                        *)
THEOREM TypeCorrect == Spec => []TypeOK
BY Invariance, PTL

(* No generation is closed under a connection taken from it, and none is     *)
(* closed twice, however many connections, reloads and shutdowns interleave. *)
THEOREM InUseStaysOpen == Spec => [](NeverClosedInUse /\ ClosedOnce)
<1>1. TypeOK /\ IInv => NeverClosedInUse /\ ClosedOnce
  BY DEF IInv, UserInv, ClosedInv, NeverClosedInUse, ClosedOnce
<1>2. QED
  BY <1>1, Invariance, PTL

(* However connections end and reloads overlap, no generation's closer runs   *)
(* twice.                                                                    *)
THEOREM NoDoubleClose == Spec => []ClosedOnce
BY InUseStaysOpen, PTL

(* A closed handle is never brought back by a reload under way.              *)
THEOREM ClosedForGood == Spec => ClosedStaysClosed
<1> DEFINE Stays == cur = NoGen => cur' = NoGen
<1>1. TypeOK /\ IInv /\ [Next]_vars => [Stays]_vars
  <2> SUFFICES ASSUME IInv, Next, cur = NoGen, cur' # NoGen PROVE FALSE
    BY DEF vars
  <2>1. PICK r \in Reloaders : Swap(r) /\ cur = gen[r]
    BY DEF Next, ConnStep, ReloadStep, MainStep, Repoint, Connect, CloseConn,
       Release, CloseConnector, Retire, ReloadStart, Resolve, OpenNext, OpenFails,
       ListedOld, ValidateFails, Check, Swap, Discard, DropIdle, Logged,
       CloseHandle
  <2>2. QED
    BY <2>1, Roles DEF Swap, Goto, IInv, ReloadInv, HasCandidate
<1>2. QED
  BY <1>1, Invariance, PTL DEF Spec, ClosedStaysClosed

(* Whatever reloads overlap, a file is only ever replaced by one that        *)
(* answers and carries all its tables.                                       *)
THEOREM TablesKept == Spec => SwapKeepsTables
<1> DEFINE Keeps == cur' # cur /\ cur' # NoGen =>
                        file[cur'] \in Sound /\ Carries(cur', cur)
<1>1. TypeOK /\ IInv /\ [Next]_vars => [Keeps]_vars
  <2> SUFFICES ASSUME TypeOK, IInv, Next, cur' # cur, cur' # NoGen
               PROVE  file[cur'] \in Sound /\ Carries(cur', cur)
    BY DEF vars
  <2>1. PICK r \in Reloaders : Swap(r) /\ cur = gen[r]
    BY DEF Next, ConnStep, ReloadStep, MainStep, Repoint, Connect, CloseConn,
       Release, CloseConnector, Retire, ReloadStart, Resolve, OpenNext, OpenFails,
       ListedOld, ValidateFails, Check, Swap, Discard, DropIdle, Logged,
       CloseHandle
  <2>2. QED
    BY <2>1 DEF Swap, Goto, IInv, ReloadInv
<1>2. QED
  BY <1>1, Invariance, PTL DEF Spec, SwapKeepsTables

(* Whoever owes a generation something keeps owing it until it is closed or  *)
(* its connections owe it.                                                   *)
LEMMA LeakStep ==
    TypeOK /\ IInv /\ NothingLeaks /\ [Next]_vars => NothingLeaks'
<1> SUFFICES ASSUME TypeOK, IInv, NothingLeaks, [Next]_vars PROVE NothingLeaks'
  OBVIOUS
<1> USE Roles DEF TypeOK, IInv, NothingLeaks, Owes, HasCandidate, Goto, counts,
        fileSystem
<1>1. ASSUME NEW f \in Files, Repoint(f) PROVE NothingLeaks'
  BY <1>1 DEF Repoint
<1>2. ASSUME NEW c \in Conns, Connect(c) PROVE NothingLeaks'
  BY <1>2 DEF Connect
<1>3. ASSUME NEW c \in Conns, CloseConn(c) PROVE NothingLeaks'
  BY <1>3 DEF CloseConn
<1>4. ASSUME NEW c \in Conns, Release(c) PROVE NothingLeaks'
  <2>1. gen[c] \in Gens /\ open[gen[c]] - 1 \in Nat
    BY <1>4, ReleasedIsCounted DEF Release
  <2>2. \A g \in Gens, p \in Procs : Owes(p, g) => Owes(p, g)'
    BY <1>4 DEF Release
  <2>3. ASSUME NEW g \in Gens, retired[g], open[g] > 0
        PROVE  (retired[g] /\ open[g] > 0)' \/ \E p \in Procs : Owes(p, g)'
    <3>1. CASE g = gen[c] /\ open[g] = 1
      <4>1. pc'[c] = "last" /\ gen'[c] = g
        BY <1>4, <2>3, <3>1 DEF Release
      <4>2. QED
        BY <4>1
    <3>2. CASE ~(g = gen[c] /\ open[g] = 1)
      BY <1>4, <2>1, <2>3, <3>2 DEF Release
    <3>3. QED
      BY <3>1, <3>2
  <2>4. cur' = cur /\ file' = file /\ closed' = closed
    BY <1>4 DEF Release
  <2>5. QED
    BY <2>2, <2>3, <2>4
<1>5. ASSUME NEW p \in Procs, CloseConnector(p) PROVE NothingLeaks'
  BY <1>5 DEF CloseConnector, CloserInv, ClosedInv
<1>6. ASSUME NEW p \in Procs, Retire(p) PROVE NothingLeaks'
  BY <1>6 DEF Retire, RetirerInv, ClosedInv
<1>7. ASSUME NEW r \in Reloaders, ReloadStart(r) PROVE NothingLeaks'
  BY <1>7 DEF ReloadStart, Return
<1>8. ASSUME NEW r \in Reloaders, Resolve(r) PROVE NothingLeaks'
  BY <1>8 DEF Resolve, Return
<1>9. ASSUME NEW r \in Reloaders, OpenNext(r) PROVE NothingLeaks'
  BY <1>9 DEF OpenNext, CandidateInv
<1>10. ASSUME NEW r \in Reloaders, OpenFails(r) PROVE NothingLeaks'
  BY <1>10 DEF OpenFails, Return
<1>11. ASSUME NEW r \in Reloaders, ListedOld(r) PROVE NothingLeaks'
  BY <1>11 DEF ListedOld
<1>12. ASSUME NEW r \in Reloaders, ValidateFails(r) PROVE NothingLeaks'
  BY <1>12 DEF ValidateFails
<1>13. ASSUME NEW r \in Reloaders, Check(r) PROVE NothingLeaks'
  BY <1>13 DEF Check
<1>14. ASSUME NEW r \in Reloaders, Swap(r) PROVE NothingLeaks'
  BY <1>14 DEF Swap, CandidateInv, ReloadInv
<1>15. ASSUME NEW r \in Reloaders, Discard(r) PROVE NothingLeaks'
  BY <1>15 DEF Discard, Return, CandidateInv, ClosedInv
<1>16. ASSUME NEW r \in Reloaders, DropIdle(r) PROVE NothingLeaks'
  BY <1>16 DEF DropIdle, Return
<1>17. ASSUME NEW r \in Reloaders, Logged(r) PROVE NothingLeaks'
  BY <1>17 DEF Logged
<1>18. CASE CloseHandle
  BY <1>18 DEF CloseHandle
<1>19. CASE UNCHANGED vars
  BY <1>19 DEF vars
<1>20. QED
  BY <1>1, <1>2, <1>3, <1>4, <1>5, <1>6, <1>7, <1>8, <1>9, <1>10, <1>11, <1>12, <1>13, <1>14, <1>15, <1>16, <1>17, <1>18, <1>19
  DEF Next, ConnStep, ReloadStep, MainStep

(* No opened file is ever forgotten.                                         *)
THEOREM LeakFree == Spec => []NothingLeaks
<1>1. Init => NothingLeaks
  BY DEF Init, NothingLeaks
<1>2. (TypeOK /\ IInv) /\ NothingLeaks /\ [Next]_vars => NothingLeaks'
  BY LeakStep
<1>3. QED
  BY <1>1, <1>2, Invariance, PTL DEF Spec

-----------------------------------------------------------------------------
(* The connector implements ServingHandle, step by step.                     *)

(* The three mapped variables change only with what they are computed from.  *)
LEMMA HeldKept ==
    ASSUME \A c \in Conns : Using(c)' <=> Using(c),
           \A c \in Conns : Using(c) => gen'[c] = gen[c]
    PROVE  Held' = Held
BY DEF Held

LEMMA ServedKept ==
    ASSUME \A g \in Gens :
               \/ g = cur \/ retired[g]
               \/ \E p \in Procs : pc[p] = "retire" /\ gen[p] = g
               <=>
               \/ g = cur' \/ retired'[g]
               \/ \E p \in Procs : pc'[p] = "retire" /\ gen'[p] = g
    PROVE  EverServed' = EverServed
BY DEF EverServed

LEMMA ConnectTakes ==
    ASSUME TypeOK, IInv, NEW c \in Conns, Connect(c)
    PROVE  Handle!Take(c)
<1> USE Roles DEF TypeOK, Connect, Goto, counts, fileSystem
<1>1. cur # NoGen /\ Held[c] = NoGen
  BY DEF Held, Using
<1>2. Held' = [Held EXCEPT ![c] = cur]
  BY DEF Held, Using
<1>3. EverServed' = EverServed
  BY ServedKept
<1>4. LetGo' = LetGo
  BY DEF LetGo
<1>5. QED
  BY <1>1, <1>2, <1>3, <1>4 DEF Handle!Take

LEMMA ReleaseGives ==
    ASSUME TypeOK, IInv, NEW c \in Conns, Release(c)
    PROVE  Handle!Give(c)
<1> USE Roles DEF TypeOK, Release, Goto, counts, fileSystem
<1>1. Held[c] # NoGen
  BY DEF Held, Using, IInv, UserInv
<1>2. Held' = [Held EXCEPT ![c] = NoGen]
  BY DEF Held, Using
<1>3. EverServed' = EverServed
  BY ServedKept
<1>4. LetGo' = LetGo
  BY DEF LetGo
<1>5. QED
  BY <1>1, <1>2, <1>3, <1>4 DEF Handle!Give

LEMMA CloseConnectorShuts ==
    ASSUME TypeOK, IInv, NEW p \in Procs, CloseConnector(p)
    PROVE  Handle!Shut(gen[p])
<1> USE Roles DEF TypeOK, CloseConnector, Goto, counts, fileSystem
<1>1. PICK g \in Gens : g = gen[p] /\ retired[g] /\ open[g] = 0 /\ closed[g] = 0
  BY DEF IInv, CloserInv
<1>2. g # cur /\ g \in EverServed /\ g \notin LetGo
  BY <1>1 DEF EverServed, LetGo, IInv, CurInv
<1>3. \A c \in Conns : Held[c] # g
  BY <1>1, NoUsers DEF Held, IInv
<1>4. Held' = Held
  BY HeldKept DEF Using
<1>5. EverServed' = EverServed
  BY ServedKept
<1>6. LetGo' = LetGo \union {g}
  BY <1>1 DEF LetGo
<1>7. QED
  BY <1>1, <1>2, <1>3, <1>4, <1>5, <1>6 DEF Handle!Shut

LEMMA OpenNextOpens ==
    ASSUME TypeOK, IInv, NEW r \in Reloaders, OpenNext(r)
    PROVE  \E g \in Gens : Handle!Open(g)
<1> USE Roles DEF TypeOK, OpenNext, Goto, counts, fileSystem
<1>1. PICK g \in Gens : file[g] = NoFile /\ file' = [file EXCEPT ![g] = link]
  OBVIOUS
<1>2. g \notin EverServed
  BY <1>1 DEF EverServed, IInv, CurInv, RetirerInv, FreshInv
<1>3. Held' = Held
  BY HeldKept DEF Using
<1>4. EverServed' = EverServed
  BY ServedKept
<1>5. LetGo' = LetGo
  BY DEF LetGo
<1>6. QED
  BY <1>1, <1>2, <1>3, <1>4, <1>5 DEF Handle!Open

LEMMA SwapSwitches ==
    ASSUME TypeOK, IInv, NEW r \in Reloaders, Swap(r), cur = gen[r]
    PROVE  Handle!Switch(next[r]) /\ next[r] \in Gens
<1> USE Roles DEF TypeOK, Swap, Goto, counts, fileSystem
<1>1. PICK g \in Gens : g = next[r] /\ g # cur /\ ~retired[g]
                       /\ \A p \in Procs : pc[p] = "retire" => gen[p] # g
  BY DEF IInv, CandidateInv, HasCandidate
<1>2. cur # NoGen /\ file[g] \in Sound /\ TablesOf[file[cur]] \subseteq TablesOf[file[g]]
  BY <1>1 DEF IInv, ReloadInv, HasCandidate, Carries
<1>3. g \notin EverServed
  BY <1>1 DEF EverServed
<1>4. Held' = Held
  BY HeldKept DEF Using
<1>5. EverServed' = EverServed \union {g}
  <2>1. cur' = g /\ pc' = [pc EXCEPT ![r] = "retire"]
    BY <1>1
  <2>2. QED
    BY <1>1, <2>1 DEF EverServed
<1>6. LetGo' = LetGo
  BY DEF LetGo
<1>7. QED
  BY <1>1, <1>2, <1>3, <1>4, <1>5, <1>6 DEF Handle!Switch

LEMMA CloseHandleStops ==
    ASSUME TypeOK, IInv, CloseHandle
    PROVE  Handle!Stop
<1> USE Roles DEF TypeOK, CloseHandle, Goto, counts, fileSystem
<1>1. cur # NoGen
  BY DEF IInv, CurInv
<1>2. Held' = Held
  BY HeldKept DEF Using
<1>3. EverServed' = EverServed
  BY ServedKept
<1>4. LetGo' = LetGo
  BY DEF LetGo
<1>5. QED
  BY <1>1, <1>2, <1>3, <1>4 DEF Handle!Stop

(* The other steps are invisible to the users of the handle.                 *)
LEMMA RetireStutters ==
    ASSUME TypeOK, IInv, NEW p \in Procs, Retire(p)
    PROVE  UNCHANGED Handle!vars
<1> USE Roles DEF TypeOK, Retire, Goto, counts, fileSystem
<1>1. Held' = Held
  BY HeldKept DEF Using
<1>2. EverServed' = EverServed
  BY ServedKept DEF IInv, RetirerInv
<1>3. LetGo' = LetGo
  BY DEF LetGo, IInv, RetirerInv
<1>4. QED
  BY <1>1, <1>2, <1>3 DEF Handle!vars

LEMMA DiscardStutters ==
    ASSUME TypeOK, IInv, NEW r \in Reloaders, Discard(r)
    PROVE  UNCHANGED Handle!vars
<1> USE Roles DEF TypeOK, Discard, Return, Goto, counts, fileSystem
<1>1. Held' = Held
  BY HeldKept DEF Using
<1>2. EverServed' = EverServed
  BY ServedKept
<1>3. LetGo' = LetGo
  BY DEF LetGo, IInv, CandidateInv, HasCandidate
<1>4. QED
  BY <1>1, <1>2, <1>3 DEF Handle!vars

LEMMA QuietStutters ==
    ASSUME TypeOK, IInv, cur' = cur, file' = file, retired' = retired,
           closed' = closed, NEW p \in Procs, NEW l,
           pc' = [pc EXCEPT ![p] = l], pc[p] # "retire", l # "retire",
           p \in Conns => (pc[p] \in {"open", "closing"} <=> l \in {"open", "closing"}),
           \A q \in Procs : (q \in Conns \/ pc[q] = "retire") => gen'[q] = gen[q]
    PROVE  UNCHANGED Handle!vars
<1> USE Roles DEF TypeOK
<1>1. Held' = Held
  BY HeldKept DEF Using
<1>2. EverServed' = EverServed
  BY ServedKept
<1>3. LetGo' = LetGo
  BY DEF LetGo
<1>4. QED
  BY <1>1, <1>2, <1>3 DEF Handle!vars

LEMMA RefinementStep ==
    TypeOK /\ IInv /\ [Next]_vars => [Handle!Next]_(Handle!vars)
<1> SUFFICES ASSUME TypeOK, IInv, [Next]_vars
             PROVE  Handle!Next \/ UNCHANGED Handle!vars
  OBVIOUS
<1> USE Roles DEF counts, fileSystem, Goto
<1>1. ASSUME NEW f \in Files, Repoint(f) PROVE UNCHANGED Handle!vars
  BY <1>1 DEF Repoint, Handle!vars, Held, Using, EverServed, LetGo
<1>2. ASSUME NEW c \in Conns, CloseConn(c) PROVE UNCHANGED Handle!vars
  BY <1>2, QuietStutters DEF CloseConn
<1>3. ASSUME NEW r \in Reloaders, ReloadStart(r) PROVE UNCHANGED Handle!vars
  <2>1. CASE cur = NoGen
    BY <1>3, <2>1, QuietStutters DEF ReloadStart, Return, TypeOK
  <2>2. CASE cur # NoGen
    BY <1>3, <2>2, QuietStutters DEF ReloadStart, TypeOK
  <2>3. QED
    BY <2>1, <2>2
<1>4. ASSUME NEW r \in Reloaders, Resolve(r) PROVE UNCHANGED Handle!vars
  <2>1. CASE link = file[gen[r]]
    BY <1>4, <2>1, QuietStutters DEF Resolve, Return
  <2>2. CASE link # file[gen[r]]
    BY <1>4, <2>2, QuietStutters DEF Resolve
  <2>3. QED
    BY <2>1, <2>2
<1>5. ASSUME NEW r \in Reloaders, OpenFails(r) PROVE UNCHANGED Handle!vars
  BY <1>5, QuietStutters DEF OpenFails, Return
<1>6. ASSUME NEW r \in Reloaders, ListedOld(r) PROVE UNCHANGED Handle!vars
  BY <1>6, QuietStutters DEF ListedOld
<1>7. ASSUME NEW r \in Reloaders, ValidateFails(r) PROVE UNCHANGED Handle!vars
  BY <1>7, QuietStutters DEF ValidateFails
<1>8. ASSUME NEW r \in Reloaders, Check(r) PROVE UNCHANGED Handle!vars
  <2>1. CASE Carries(next[r], gen[r])
    BY <1>8, <2>1, QuietStutters DEF Check
  <2>2. CASE ~Carries(next[r], gen[r])
    BY <1>8, <2>2, QuietStutters DEF Check
  <2>3. QED
    BY <2>1, <2>2
<1>9. ASSUME NEW r \in Reloaders, Swap(r) PROVE Handle!Next \/ UNCHANGED Handle!vars
  <2>1. CASE cur = gen[r]
    BY <1>9, <2>1, SwapSwitches DEF Handle!Next
  <2>2. CASE cur # gen[r]
    BY <1>9, <2>2, QuietStutters DEF Swap
  <2>3. QED
    BY <2>1, <2>2
<1>10. ASSUME NEW r \in Reloaders, DropIdle(r) PROVE UNCHANGED Handle!vars
  BY <1>10, QuietStutters DEF DropIdle, Return
<1>11. ASSUME NEW r \in Reloaders, Logged(r) PROVE UNCHANGED Handle!vars
  BY <1>11, QuietStutters DEF Logged, TypeOK
<1>12. ASSUME NEW p \in Procs, CloseConnector(p) PROVE Handle!Next
  BY <1>12, CloseConnectorShuts DEF Handle!Next, IInv, CloserInv, CloseConnector
<1>13. ASSUME NEW c \in Conns, Connect(c) \/ Release(c) PROVE Handle!Next
  BY <1>13, ConnectTakes, ReleaseGives DEF Handle!Next
<1>14. ASSUME NEW r \in Reloaders, OpenNext(r) PROVE Handle!Next
  BY <1>14, OpenNextOpens DEF Handle!Next
<1>15. CASE CloseHandle
  BY <1>15, CloseHandleStops DEF Handle!Next
<1>16. CASE UNCHANGED vars
  BY <1>16 DEF vars, Handle!vars, Held, Using, EverServed, LetGo
<1>17. QED
  BY <1>1, <1>2, <1>3, <1>4, <1>5, <1>6, <1>7, <1>8, <1>9, <1>10, <1>11, <1>12,
     <1>13, <1>14, <1>15, <1>16, RetireStutters, DiscardStutters
  DEF Next, ConnStep, ReloadStep, MainStep

(* The locks, counters and flags of the connector keep the promises of       *)
(* ServingHandle.                                                            *)
THEOREM Implements == Spec => ImplementsServingHandle
<1>1. Init => Handle!Init
  <2> SUFFICES ASSUME Init PROVE Handle!Init
    OBVIOUS
  <2>1. cur \in Gens /\ file[cur] \in Sound
    BY DEF Init
  <2>2. Held = [c \in Conns |-> NoGen] /\ EverServed = {cur} /\ LetGo = {}
    BY Roles DEF Init, Held, Using, EverServed, LetGo
  <2>3. QED
    BY <2>1, <2>2 DEF Handle!Init
<1>2. TypeOK /\ IInv /\ [Next]_vars => [Handle!Next]_(Handle!vars)
  BY RefinementStep
<1>3. QED
  BY <1>1, <1>2, Invariance, PTL DEF Spec, ImplementsServingHandle, Handle!Spec
=============================================================================
