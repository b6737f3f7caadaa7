------------------------- MODULE ReloadingConnector -------------------------
(* pkg/db/reload.go: the driver.Connector behind the DuckDB handle.  One      *)
(* opened file (a generation) is current; the pool's connections are taken   *)
(* from it and counted; Reload swaps another generation in; a superseded     *)
(* generation is closed with its last connection.  Every step below is one   *)
(* critical section of reloadingConnector.mu, one call of go-duckdb, or one  *)
(* look at the file system, in the order the code makes them.                *)
EXTENDS Naturals, FiniteSets

CONSTANTS Conns,      \* the connections the pool can hold at once
          Reloaders,  \* the goroutines that call Reload
          Main,       \* the goroutine of RunServer, which closes the handle
          Gens,       \* generations that can be opened: bounds the reloads
          NoGen,
          Files,      \* what the configured path can resolve to
          NoFile,     \* it resolves to nothing; the file of no generation
          TablesOf,   \* the tables in each file
          Sound       \* the files that open and answer a query

Procs == Conns \union Reloaders \union {Main}

ASSUME ConnectorAssumption ==
    /\ Conns \intersect Reloaders = {}
    /\ Main \notin Conns \union Reloaders
    /\ IsFiniteSet(Conns)
    /\ NoGen \notin Gens
    /\ NoFile \notin Files
    /\ Sound \subseteq Files

VARIABLES link,     \* what the configured path resolves to
          cur,      \* reloadingConnector.cur
          file,     \* generation.file, NoFile while not opened
          open,     \* generation.open
          retired,  \* generation.retired
          closed,   \* how often the generation's duckdb.Connector was closed
          pc,       \* where each goroutine (or connection) is
          gen,      \* the generation it works on: conn.gen, Reload's old
          next,     \* Reload's next
          report    \* what Reload returned, while its caller looks at it

fileSystem == <<link>>
counts == <<open, retired, closed>>
vars == <<link, cur, file, open, retired, closed, pc, gen, next, report>>

NoReport == [file |-> NoFile, changed |-> FALSE, err |-> FALSE]

TypeOK ==
    /\ link \in Files
    /\ cur \in Gens \union {NoGen}
    /\ file \in [Gens -> Files \union {NoFile}]
    /\ open \in [Gens -> Nat]
    /\ retired \in [Gens -> BOOLEAN]
    /\ closed \in [Gens -> Nat]
    /\ pc \in [Procs -> {"out", "open", "closing", "last", "idle",
                         "resolve", "opening", "listing", "check",
                         "swap", "retire", "drop", "discard", "done", "up",
                         "down"}]
    /\ gen \in [Procs -> Gens \union {NoGen}]
    /\ next \in [Reloaders -> Gens \union {NoGen}]
    /\ report \in [Reloaders -> [file : Files \union {NoFile},
                                 changed : BOOLEAN, err : BOOLEAN]]

(* OpenReloadable has opened the path and pinged it, so the first file       *)
(* answers; no connection is taken yet.                                      *)
Init ==
    /\ link \in Sound
    /\ cur \in Gens
    /\ file = [g \in Gens |-> IF g = cur THEN link ELSE NoFile]
    /\ open = [g \in Gens |-> 0]
    /\ retired = [g \in Gens |-> FALSE]
    /\ closed = [g \in Gens |-> 0]
    /\ pc = [p \in Procs |-> CASE p \in Conns -> "out"
                               [] p \in Reloaders -> "idle"
                               [] OTHER -> "up"]
    /\ gen = [p \in Procs |-> NoGen]
    /\ next = [r \in Reloaders |-> NoGen]
    /\ report = [r \in Reloaders |-> NoReport]

Goto(p, from, to) ==
    /\ pc[p] = from
    /\ pc' = [pc EXCEPT ![p] = to]

-----------------------------------------------------------------------------
(* The path is repointed at another file.                                    *)
Repoint(f) ==
    /\ f # link
    /\ link' = f
    /\ UNCHANGED <<cur, file, counts, pc, gen, next, report>>

-----------------------------------------------------------------------------
(* Connections.  Connect reads cur and counts in one critical section, then  *)
(* dials DuckDB; with no current generation it fails and changes nothing.    *)

\* Mutant: the generation is read under the lock and counted by nobody.
ConnectUncounted(c) ==
    /\ Goto(c, "out", "open")
    /\ cur # NoGen
    /\ gen' = [gen EXCEPT ![c] = cur]
    /\ UNCHANGED <<fileSystem, cur, file, counts, next, report>>

Connect(c) ==
    /\ Goto(c, "out", "open")
    /\ cur # NoGen
    /\ open' = [open EXCEPT ![cur] = @ + 1]
    /\ gen' = [gen EXCEPT ![c] = cur]
    /\ UNCHANGED <<fileSystem, cur, file, retired, closed, next, report>>

(* conn.Close closes the DuckDB connection first, then releases, once; when  *)
(* dialling failed there is no connection to close and Connect releases.     *)
CloseConn(c) ==
    /\ Goto(c, "open", "closing")
    /\ UNCHANGED <<fileSystem, cur, file, counts, gen, next, report>>

\* Mutant: the last connection never closes the connector, as if retire did.
ReleaseLeavesOpen(c) ==
    /\ pc[c] = "closing"
    /\ open' = [open EXCEPT ![gen[c]] = @ - 1]
    /\ pc' = [pc EXCEPT ![c] = "out"]
    /\ gen' = [gen EXCEPT ![c] = NoGen]
    /\ UNCHANGED <<fileSystem, cur, file, retired, closed, next, report>>

\* Mutant: whoever releases the last connection closes, superseded or not.
ReleaseLastCloses(c) ==
    LET g == gen[c]
    IN  /\ pc[c] = "closing"
        /\ open' = [open EXCEPT ![g] = @ - 1]
        /\ pc' = [pc EXCEPT ![c] = IF open[g] = 1 THEN "last" ELSE "out"]
        /\ gen' = [gen EXCEPT ![c] = IF open[g] = 1 THEN g ELSE NoGen]
        /\ UNCHANGED <<fileSystem, cur, file, retired, closed, next, report>>

(* release(g): from conn.Close, or from Connect when dialling failed.        *)
Release(c) ==
    LET g == gen[c]
        done == retired[g] /\ open[g] = 1
    IN  /\ pc[c] = "closing"
        /\ open' = [open EXCEPT ![g] = @ - 1]
        /\ pc' = [pc EXCEPT ![c] = IF done THEN "last" ELSE "out"]
        /\ gen' = [gen EXCEPT ![c] = IF done THEN g ELSE NoGen]
        /\ UNCHANGED <<fileSystem, cur, file, retired, closed, next, report>>

(* The connector is closed outside the lock by whoever found it unused:      *)
(* release for a connection, retire for Reload and Close.                    *)
CloseConnector(p) ==
    /\ Goto(p, "last", CASE p \in Conns -> "out"
                         [] p \in Reloaders -> "drop"
                         [] OTHER -> "down")
    /\ closed' = [closed EXCEPT ![gen[p]] = @ + 1]
    /\ gen' = [gen EXCEPT ![p] = IF p \in Conns THEN NoGen ELSE @]
    /\ UNCHANGED <<fileSystem, cur, file, open, retired, next, report>>

\* Mutant: retire closes the connector whatever its count says.
RetireAndClose(p) ==
    /\ Goto(p, "retire", "last")
    /\ retired' = [retired EXCEPT ![gen[p]] = TRUE]
    /\ UNCHANGED <<fileSystem, cur, file, open, closed, gen, next, report>>

(* retire(g): marks the superseded generation and closes it if unused.       *)
Retire(p) ==
    /\ Goto(p, "retire", IF open[gen[p]] = 0 THEN "last"
                         ELSE IF p = Main THEN "down" ELSE "drop")
    /\ retired' = [retired EXCEPT ![gen[p]] = TRUE]
    /\ UNCHANGED <<fileSystem, cur, file, open, closed, gen, next, report>>

-----------------------------------------------------------------------------
(* Reload.                                                                   *)

Return(r, f, changed, err) ==
    /\ pc' = [pc EXCEPT ![r] = "done"]
    /\ report' = [report EXCEPT ![r] =
                     [file |-> f, changed |-> changed, err |-> err]]

(* old := r.cur; nothing to reload once the handle is closed.                *)
ReloadStart(r) ==
    /\ pc[r] = "idle"
    /\ gen' = [gen EXCEPT ![r] = cur]
    /\ IF cur = NoGen
       THEN Return(r, NoFile, FALSE, TRUE)
       ELSE pc' = [pc EXCEPT ![r] = "resolve"] /\ UNCHANGED report
    /\ UNCHANGED <<fileSystem, cur, file, counts, next>>

(* The first EvalSymlinks: is there anything new?                            *)
Resolve(r) ==
    /\ pc[r] = "resolve"
    /\ IF link = file[gen[r]]
       THEN Return(r, link, FALSE, FALSE)
       ELSE pc' = [pc EXCEPT ![r] = "opening"] /\ UNCHANGED report
    /\ UNCHANGED <<fileSystem, cur, file, counts, gen, next>>

(* openGeneration resolves the path again and opens what it finds now.       *)
OpenNext(r) ==
    /\ Goto(r, "opening", "listing")
    /\ \E g \in {h \in Gens : file[h] = NoFile} :
          /\ file' = [file EXCEPT ![g] = link]
          /\ next' = [next EXCEPT ![r] = g]
    /\ UNCHANGED <<fileSystem, cur, counts, gen, report>>

(* Resolving the path, stat or NewConnector failed: the path dangles, say,   *)
(* while the export is being rotated.                                        *)
OpenFails(r) ==
    /\ pc[r] \in {"resolve", "opening"}
    /\ Return(r, file[gen[r]], FALSE, TRUE)
    /\ UNCHANGED <<fileSystem, cur, file, counts, gen, next>>

(* validate lists the tables of old through a connection of its own, outside *)
(* the pool: nothing counts it.                                              *)
ListedOld(r) ==
    /\ Goto(r, "listing", "check")
    /\ UNCHANGED <<fileSystem, cur, file, counts, gen, next, report>>

(* Listing old or next failed, or validateTimeout is over.                   *)
ValidateFails(r) ==
    /\ pc[r] \in {"listing", "check"}
    /\ pc' = [pc EXCEPT ![r] = "discard"]
    /\ UNCHANGED <<fileSystem, cur, file, counts, gen, next, report>>

Carries(g, h) == TablesOf[file[h]] \subseteq TablesOf[file[g]]

\* Mutant: any file that answers is swapped in.
AcceptAnswering(r) ==
    /\ pc[r] = "check"
    /\ file[next[r]] \in Sound
    /\ pc' = [pc EXCEPT ![r] = "swap"]
    /\ UNCHANGED <<fileSystem, cur, file, counts, gen, next, report>>

(* next answered; it is accepted when it carries every table of old.         *)
Check(r) ==
    /\ pc[r] = "check"
    /\ file[next[r]] \in Sound
    /\ pc' = [pc EXCEPT ![r] = IF Carries(next[r], gen[r]) THEN "swap"
                               ELSE "discard"]
    /\ UNCHANGED <<fileSystem, cur, file, counts, gen, next, report>>

\* Mutant: the swap does not look whether old is still current.
SwapBlindly(r) ==
    /\ Goto(r, "swap", "retire")
    /\ cur' = next[r]
    /\ UNCHANGED <<fileSystem, file, counts, gen, next, report>>

\* Mutant: the swap only looks whether the handle was closed.
SwapUnlessClosed(r) ==
    /\ Goto(r, "swap", IF cur = NoGen THEN "discard" ELSE "retire")
    /\ cur' = IF cur = NoGen THEN cur ELSE next[r]
    /\ UNCHANGED <<fileSystem, file, counts, gen, next, report>>

(* The swap, unless the handle was closed or reloaded meanwhile.             *)
Swap(r) ==
    LET mine == cur = gen[r]
    IN  /\ Goto(r, "swap", IF mine THEN "retire" ELSE "discard")
        /\ cur' = IF mine THEN next[r] ELSE cur
        /\ UNCHANGED <<fileSystem, file, counts, gen, next, report>>

\* Mutant: an error path returns without closing the candidate.
DiscardLeavesOpen(r) ==
    /\ pc[r] = "discard"
    /\ Return(r, file[gen[r]], FALSE, TRUE)
    /\ UNCHANGED <<fileSystem, cur, file, counts, gen, next>>

(* Rejected, or too late: the candidate is closed and old is reported.       *)
Discard(r) ==
    /\ pc[r] = "discard"
    /\ closed' = [closed EXCEPT ![next[r]] = @ + 1]
    /\ Return(r, file[gen[r]], FALSE, TRUE)
    /\ UNCHANGED <<fileSystem, cur, file, open, retired, gen, next>>

(* dropIdle asks the pool to close its idle connections, which they do on    *)
(* their own (CloseConn); then Reload returns the new file.                  *)
DropIdle(r) ==
    /\ pc[r] = "drop"
    /\ Return(r, file[next[r]], TRUE, FALSE)
    /\ UNCHANGED <<fileSystem, cur, file, counts, gen, next>>

(* The caller has logged what Reload returned.                               *)
Logged(r) ==
    /\ Goto(r, "done", "idle")
    /\ gen' = [gen EXCEPT ![r] = NoGen]
    /\ next' = [next EXCEPT ![r] = NoGen]
    /\ report' = [report EXCEPT ![r] = NoReport]
    /\ UNCHANGED <<fileSystem, cur, file, counts>>

-----------------------------------------------------------------------------
(* sql.DB.Close closes the connector once, when the server stops.            *)
CloseHandle ==
    /\ Goto(Main, "up", "retire")
    /\ gen' = [gen EXCEPT ![Main] = cur]
    /\ cur' = NoGen
    /\ UNCHANGED <<fileSystem, file, counts, next, report>>

-----------------------------------------------------------------------------
ConnStep(c) == CloseConn(c) \/ Release(c) \/ CloseConnector(c)

ReloadStep(r) ==
    \/ Resolve(r) \/ OpenNext(r) \/ OpenFails(r)
    \/ ListedOld(r) \/ ValidateFails(r) \/ Check(r)
    \/ Swap(r) \/ Retire(r) \/ CloseConnector(r) \/ Discard(r)
    \/ DropIdle(r) \/ Logged(r)

MainStep == Retire(Main) \/ CloseConnector(Main)

Next ==
    \/ \E f \in Files : Repoint(f)
    \/ \E c \in Conns : Connect(c) \/ ConnStep(c)
    \/ \E r \in Reloaders : ReloadStart(r) \/ ReloadStep(r)
    \/ CloseHandle
    \/ MainStep

Spec == Init /\ [][Next]_vars

(* Goroutines run, queries end and connections are closed in the end (the    *)
(* pool gives every connection a lifetime); nobody has to connect, reload,   *)
(* repoint the path or stop the server.                                      *)
Fairness ==
    /\ \A c \in Conns : WF_vars(ConnStep(c))
    /\ \A r \in Reloaders : WF_vars(ReloadStep(r))
    /\ WF_vars(MainStep)

FairSpec == Spec /\ Fairness

-----------------------------------------------------------------------------
(* Properties.                                                               *)

Using(c) == pc[c] \in {"open", "closing"}
UsersOf(g) == {c \in Conns : Using(c) /\ gen[c] = g}

(* Where Reload holds an opened file that is not (yet) the current one.      *)
HasCandidate(r) == pc[r] \in {"listing", "check", "swap", "discard"}

(* p still has to do something about g.                                      *)
Owes(p, g) ==
    \/ pc[p] \in {"retire", "last"} /\ gen[p] = g
    \/ p \in Reloaders /\ HasCandidate(p) /\ next[p] = g

(* A generation is never closed under a connection that was taken from it    *)
(* and not yet released: "Requests already running finish on the previous    *)
(* file, which is closed with its last connection" (CHANGELOG.md).           *)
NeverClosedInUse == \A c \in Conns : Using(c) => closed[gen[c]] = 0

(* release and retire race to close a superseded generation, and Reload      *)
(* closes the ones it discards: together they close it at most once.         *)
ClosedOnce == \A g \in Gens : closed[g] <= 1

(* No opened file is forgotten: it is the current one, or closed, or its     *)
(* connections or the goroutine handling it will close it.                   *)
NothingLeaks ==
    \A g \in Gens : file[g] # NoFile =>
        \/ g = cur
        \/ closed[g] = 1
        \/ retired[g] /\ open[g] > 0
        \/ \E p \in Procs : Owes(p, g)

(* A file takes over only from one whose tables it all carries, even when    *)
(* the file it was validated against was itself replaced meanwhile.          *)
SwapKeepsTables ==
    [][cur' # cur /\ cur' # NoGen =>
        /\ file[cur'] \in Sound
        /\ Carries(cur', cur)]_vars

(* A reload that was under way when the handle was closed does not bring it  *)
(* back to life.                                                             *)
ClosedStaysClosed == [][cur = NoGen => cur' = NoGen]_vars

(* Every superseded file is let go of in the end.                            *)
SupersededIsClosed == \A g \in Gens : retired[g] ~> closed[g] = 1

(* The inductive invariant behind NeverClosedInUse, ClosedOnce and the two   *)
(* action properties: who counts, who is live, and who alone may close what. *)
CountInv == \A g \in Gens : open[g] = Cardinality(UsersOf(g))

UserInv == \A c \in Conns : Using(c) => gen[c] \in Gens /\ closed[gen[c]] = 0

CurInv ==
    /\ cur # NoGen => file[cur] # NoFile /\ ~retired[cur] /\ closed[cur] = 0
    /\ pc[Main] = "up" => cur # NoGen

\* At most one goroutine has found a superseded generation unused.
CloserInv ==
    \A p \in Procs : pc[p] = "last" =>
        /\ gen[p] \in Gens
        /\ retired[gen[p]] /\ open[gen[p]] = 0 /\ closed[gen[p]] = 0
        /\ \A q \in Procs : pc[q] = "last" /\ gen[q] = gen[p] => q = p

\* At most one goroutine has replaced a generation and not yet retired it.
RetirerInv ==
    \A p \in Procs : pc[p] = "retire" =>
        /\ gen[p] \in Gens \ {cur}
        /\ file[gen[p]] # NoFile /\ ~retired[gen[p]] /\ closed[gen[p]] = 0
        /\ \A q \in Procs : pc[q] = "retire" /\ gen[q] = gen[p] => q = p

\* A candidate is known to the Reload that opened it and to nobody else.
CandidateInv ==
    \A r \in Reloaders : HasCandidate(r) =>
        LET n == next[r]
        IN  /\ n \in Gens \ {cur}
            /\ file[n] # NoFile /\ ~retired[n] /\ open[n] = 0 /\ closed[n] = 0
            /\ \A q \in Reloaders : HasCandidate(q) /\ next[q] = n => q = r
            /\ \A p \in Procs : pc[p] = "retire" => gen[p] # n

ClosedInv == \A g \in Gens : closed[g] <= 1 /\ (closed[g] = 1 => open[g] = 0)

FreshInv ==
    \A g \in Gens : file[g] = NoFile => ~retired[g] /\ open[g] = 0 /\ closed[g] = 0

\* What a reload has read stays true: opened files do not change.
ReloadInv ==
    \A r \in Reloaders :
        /\ pc[r] \in {"resolve", "opening"} \/ HasCandidate(r) =>
              gen[r] \in Gens /\ file[gen[r]] # NoFile
        /\ pc[r] = "swap" => file[next[r]] \in Sound /\ Carries(next[r], gen[r])
        /\ pc[r] \in {"retire", "last", "drop"} => next[r] \in Gens

IInv ==
    /\ CountInv /\ UserInv /\ CurInv /\ CloserInv /\ RetirerInv
    /\ CandidateInv /\ ClosedInv /\ FreshInv /\ ReloadInv

(* The connector implements what pkg/db promises (ServingHandle).            *)
Held == [c \in Conns |-> IF Using(c) THEN gen[c] ELSE NoGen]
EverServed ==
    {g \in Gens : \/ g = cur
                  \/ retired[g]
                  \/ \E p \in Procs : pc[p] = "retire" /\ gen[p] = g}
LetGo == {g \in Gens : retired[g] /\ closed[g] > 0}
Handle == INSTANCE ServingHandle WITH
    Users <- Conns, serving <- cur, using <- Held,
    served <- EverServed, shut <- LetGo
ImplementsServingHandle == Handle!Spec

-----------------------------------------------------------------------------
(* What the repository says and the code does not do.                        *)

(* "Reload opens the file the path resolves to, when that is not the file    *)
(* in use, and swaps it in" (reload.go:43-44): a reload that says the file   *)
(* changed names another file than the one it replaced.                      *)
ChangedMeansAnotherFile ==
    \A r \in Reloaders : report[r].changed => report[r].file # file[gen[r]]
=============================================================================
