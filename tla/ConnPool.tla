------------------------------ MODULE ConnPool ------------------------------
(* The database/sql pool over the reloading connector, as pkg/db configures   *)
(* it and drives it during a reload.  The pool is the Go standard library's   *)
(* (modelled from what pkg/db relies on: a bounded number of connections, a   *)
(* bounded idle list, IsValid before a connection is put back, ResetSession   *)
(* before one that a query has used is used again, a limit to its age, two    *)
(* more attempts after driver.ErrBadConn); the hooks it calls and the reload  *)
(* that races with it are reload.go's.  Generations are numbered in the order *)
(* they become current; what becomes of a superseded generation itself is the *)
(* subject of ReloadingConnector.  There is no clock: at each check of a      *)
(* connection's age it may turn out to be past its limit.                     *)
EXTENDS Naturals, FiniteSets, Sequences, SequencesExt

CONSTANTS Requests,  \* requests, each with a goroutine of its own
          Queries,   \* how many queries a request makes, one after the other
          Conns,     \* identities of open driver connections
          MaxOpen,   \* SetMaxOpenConns
          MaxIdle,   \* SetMaxIdleConns: embeddedMaxIdleConns
          MaxRetries,\* database/sql's maxBadConnRetries
          MaxGen,    \* bound: how many generations are ever served
          NoConn

ASSUME PoolAssumption ==
    /\ MaxOpen \in Nat \ {0} /\ MaxIdle \in Nat /\ MaxRetries \in Nat
    /\ Queries \in Nat \ {0} /\ MaxGen \in Nat \ {0}
    /\ NoConn \notin Conns
    /\ IsFiniteSet(Requests) /\ IsFiniteSet(Conns)

VARIABLES cur,     \* the generation new connections come from
          of,      \* of[c]: the generation of open connection c, 0 when closed
          used,    \* driverConn.needReset: the open ones a query has used
          idle,    \* DB.freeConn, most recently used last
          limit,   \* DB.maxIdleCount
          numOpen, \* DB.numOpen
          waiting, \* DB.connRequests
          asked,   \* connections asked of connectionOpener and not dialled yet
          dialled, \* the one connectionOpener has dialled and not handed over
          pc,      \* where each request is
          conn,    \* the connection its query holds
          tries,   \* attempts that ended in driver.ErrBadConn
          left,    \* queries it still has to make
          since,   \* the generation served when its query began
          first,   \* the generation its first query ran on, 0 before
          reload,  \* where the reloading goroutine is
          drop,    \* connections SetMaxIdleConns(0) is closing
          cleaned  \* connections the cleaner is closing

opened == <<of, used>>
pool == <<idle, waiting, numOpen, asked>>
closing == <<drop, cleaned>>
request == <<left, since, first>>
vars == <<cur, of, used, idle, limit, numOpen, waiting, asked, dialled, pc, conn,
          tries, left, since, first, reload, drop, cleaned>>

Open == {c \in Conns : of[c] # 0}

TypeOK ==
    /\ cur \in 1..MaxGen
    /\ of \in [Conns -> 0..MaxGen]
    /\ used \subseteq Open
    /\ idle \in Seq(Open) /\ Len(idle) <= MaxIdle
    /\ limit \in {0, MaxIdle}
    /\ numOpen \in 0..MaxOpen
    /\ waiting \subseteq Requests
    /\ asked \in 0..MaxOpen
    /\ dialled \in Open \union {NoConn}
    /\ pc \in [Requests -> {"new", "conn", "wait", "dial", "reset", "bad",
                            "running", "drop", "put", "failed", "done"}]
    /\ conn \in [Requests -> Conns \union {NoConn}]
    /\ tries \in [Requests -> 0..MaxRetries + 1]
    /\ left \in [Requests -> 0..Queries]
    /\ since \in [Requests -> 0..MaxGen]
    /\ first \in [Requests -> 0..MaxGen]
    /\ reload \in {"idle", "swapped", "dropping"}
    /\ drop \subseteq Open
    /\ cleaned \subseteq Open

Init ==
    /\ cur = 1
    /\ of = [c \in Conns |-> 0]
    /\ used = {}
    /\ idle = <<>>
    /\ limit = MaxIdle
    /\ numOpen = 0
    /\ waiting = {}
    /\ asked = 0
    /\ dialled = NoConn
    /\ pc = [q \in Requests |-> "new"]
    /\ conn = [q \in Requests |-> NoConn]
    /\ tries = [q \in Requests |-> 0]
    /\ left = [q \in Requests |-> Queries]
    /\ since = [q \in Requests |-> 0]
    /\ first = [q \in Requests |-> 0]
    /\ reload = "idle"
    /\ drop = {}
    /\ cleaned = {}

Goto(q, from, to) ==
    /\ pc[q] = from
    /\ pc' = [pc EXCEPT ![q] = to]

-----------------------------------------------------------------------------
(* Pool internals.                                                           *)

\* Mutant: the driver connection is dropped without being closed.
CloseForgotten(c) ==
    /\ c \in Open
    /\ numOpen' = numOpen - 1
    /\ UNCHANGED <<opened, asked>>

\* Mutant: nobody tells the waiting requests that there is room again.
CloseQuietly(c) ==
    /\ of' = [of EXCEPT ![c] = 0]
    /\ used' = used \ {c}
    /\ numOpen' = numOpen - 1
    /\ UNCHANGED asked

(* conn.Close of a driver connection: it is released, numOpen drops, and       *)
(* maybeOpenNewConnections asks connectionOpener for as many connections as  *)
(* requests wait and the limit allows.                                       *)
CloseConn(c) ==
    LET free == MaxOpen - (numOpen - 1)
        more == IF Cardinality(waiting) < free THEN Cardinality(waiting) ELSE free
    IN  /\ of' = [of EXCEPT ![c] = 0]
        /\ used' = used \ {c}
        /\ numOpen' = numOpen - 1 + more
        /\ asked' = asked + more

(* putConnDBLocked: a free connection goes to a waiting request, else to the *)
(* idle list, else it is closed.  pcs and conns are pc and conn without it.  *)
HandOver(c, pcs, conns) ==
    \/ \E w \in waiting :
          /\ waiting' = waiting \ {w}
          /\ pc' = [pcs EXCEPT ![w] = "reset"]
          /\ conn' = [conns EXCEPT ![w] = c]
          /\ UNCHANGED <<opened, idle, numOpen, asked>>
    \/ /\ waiting = {}
       /\ IF Len(idle) < limit
          THEN idle' = Append(idle, c) /\ UNCHANGED <<opened, numOpen, asked>>
          ELSE CloseConn(c) /\ UNCHANGED idle
       /\ pc' = pcs
       /\ conn' = conns
       /\ UNCHANGED waiting

(* connectionOpener: Connect takes the new connection from the generation    *)
(* current then, and it is handed over in a later critical section.          *)
OpenerDials ==
    /\ asked > 0 /\ dialled = NoConn
    /\ asked' = asked - 1
    /\ \E c \in Conns \ Open : dialled' = c /\ of' = [of EXCEPT ![c] = cur]
    /\ UNCHANGED <<cur, used, idle, limit, numOpen, waiting, pc, conn, tries, request,
                   reload, closing>>

OpenerHandsOver ==
    /\ dialled # NoConn
    /\ HandOver(dialled, pc, conn)
    /\ dialled' = NoConn
    /\ UNCHANGED <<cur, limit, tries, request, reload, closing>>

(* The cleaner takes a connection that has been idle for ConnMaxIdleTime or  *)
(* open for ConnMaxLifetime out of the list, and closes it afterwards.       *)
CleanerTakes(c) ==
    /\ \E i \in DOMAIN idle : idle[i] = c /\ idle' = RemoveAt(idle, i)
    /\ cleaned' = cleaned \union {c}
    /\ UNCHANGED <<cur, opened, limit, numOpen, waiting, asked, dialled, pc, conn, tries,
                   request, reload, drop>>

CleanerCloses(c) ==
    /\ c \in cleaned
    /\ cleaned' = cleaned \ {c}
    /\ CloseConn(c)
    /\ UNCHANGED <<cur, idle, limit, waiting, dialled, pc, conn, tries, request, reload,
                   drop>>

-----------------------------------------------------------------------------
(* One query of a request, from DB.conn to DB.putConn.                       *)

Begin(q) ==
    /\ Goto(q, "new", "conn")
    /\ since' = [since EXCEPT ![q] = cur]
    /\ left' = [left EXCEPT ![q] = @ - 1]
    /\ tries' = [tries EXCEPT ![q] = 0]
    /\ UNCHANGED <<cur, opened, pool, limit, dialled, conn, first, reload, closing>>

(* A cached connection, the most recently used, except on the last attempt;  *)
(* else a new one; else the request waits.                                   *)
Acquire(q) ==
    /\ pc[q] = "conn"
    /\ \/ /\ idle # <<>> /\ tries[q] < MaxRetries
          /\ conn' = [conn EXCEPT ![q] = Last(idle)]
          /\ idle' = Front(idle)
          /\ pc' = [pc EXCEPT ![q] = "reset"]
          /\ UNCHANGED <<numOpen, waiting>>
       \/ /\ idle = <<>> \/ tries[q] >= MaxRetries
          /\ numOpen >= MaxOpen
          /\ waiting' = waiting \union {q}
          /\ pc' = [pc EXCEPT ![q] = "wait"]
          /\ UNCHANGED <<idle, numOpen, conn>>
       \/ /\ idle = <<>> \/ tries[q] >= MaxRetries
          /\ numOpen < MaxOpen
          /\ numOpen' = numOpen + 1
          /\ pc' = [pc EXCEPT ![q] = "dial"]
          /\ UNCHANGED <<idle, waiting, conn>>
    /\ UNCHANGED <<cur, opened, limit, asked, dialled, tries, request, reload, closing>>

Ran(q, g) == first' = [first EXCEPT ![q] = IF @ = 0 THEN g ELSE @]

(* reloadingConnector.Connect: from the current generation.                  *)
Dial(q) ==
    /\ Goto(q, "dial", "running")
    /\ \E c \in Conns \ Open :
          /\ of' = [of EXCEPT ![c] = cur]
          /\ conn' = [conn EXCEPT ![q] = c]
    /\ Ran(q, cur)
    /\ UNCHANGED <<cur, used, pool, limit, dialled, tries, left, since, reload, closing>>

\* Mutant: the age is looked at on the last attempt too.
AgeAlwaysMatters(q) ==
    /\ Goto(q, "reset", "bad")
    /\ UNCHANGED <<cur, opened, pool, limit, dialled, conn, tries, request, reload, closing>>

(* The connection it was given is past ConnMaxLifetime: driver.ErrBadConn,   *)
(* except on the last attempt, which takes it whatever its age.              *)
TooOld(q) ==
    /\ tries[q] < MaxRetries
    /\ Goto(q, "reset", "bad")
    /\ UNCHANGED <<cur, opened, pool, limit, dialled, conn, tries, request, reload, closing>>

\* Mutant: a connection is reused without asking whose it is.
ReuseUnchecked(q) ==
    /\ Goto(q, "reset", "running")
    /\ Ran(q, of[conn[q]])
    /\ UNCHANGED <<cur, opened, pool, limit, dialled, conn, tries, left, since, reload,
                   closing>>

(* conn.ResetSession: a connection to a superseded file is not used again.   *)
(* The pool does not ask of one that no query has used yet.                  *)
ResetSession(q) ==
    LET valid == conn[q] \in used => of[conn[q]] = cur
    IN  /\ Goto(q, "reset", IF valid THEN "running" ELSE "bad")
        /\ IF valid THEN Ran(q, of[conn[q]]) ELSE UNCHANGED first
        /\ UNCHANGED <<cur, opened, pool, limit, dialled, conn, tries, left, since, reload,
                       closing>>

(* driver.ErrBadConn: the pool closes the connection and tries again, until  *)
(* the attempts are used up and the query fails.                             *)
Retry(q) ==
    /\ Goto(q, "bad", IF tries[q] < MaxRetries THEN "conn" ELSE "failed")
    /\ tries' = [tries EXCEPT ![q] = @ + 1]
    /\ CloseConn(conn[q])
    /\ conn' = [conn EXCEPT ![q] = NoConn]
    /\ UNCHANGED <<cur, idle, limit, waiting, dialled, request, reload, closing>>

(* The query is over: its connection has been used, and conn.IsValid decides *)
(* whether it goes back.                                                     *)
IsValid(q) ==
    /\ Goto(q, "running", IF of[conn[q]] = cur THEN "put" ELSE "drop")
    /\ used' = used \union {conn[q]}
    /\ UNCHANGED <<cur, of, pool, limit, dialled, conn, tries, request, reload, closing>>

After(q) == [pc EXCEPT ![q] = IF left[q] = 0 THEN "done" ELSE "new"]

(* putConn, in a critical section of the pool that comes after IsValid.      *)
PutConn(q) ==
    /\ pc[q] = "put"
    /\ HandOver(conn[q], After(q), [conn EXCEPT ![q] = NoConn])
    /\ UNCHANGED <<cur, limit, dialled, tries, request, reload, closing>>

(* There it is found past ConnMaxLifetime, and closed instead.               *)
PutExpired(q) ==
    /\ Goto(q, "put", "drop")
    /\ UNCHANGED <<cur, opened, pool, limit, dialled, conn, tries, request, reload, closing>>

DropConn(q) ==
    /\ pc[q] = "drop"
    /\ CloseConn(conn[q])
    /\ pc' = After(q)
    /\ conn' = [conn EXCEPT ![q] = NoConn]
    /\ UNCHANGED <<cur, idle, limit, waiting, dialled, tries, request, reload, closing>>

-----------------------------------------------------------------------------
(* What a reload that changes the file does to the pool.                     *)

SwapIn ==
    /\ reload = "idle" /\ cur < MaxGen
    /\ cur' = cur + 1
    /\ reload' = "swapped"
    /\ UNCHANGED <<opened, pool, limit, dialled, pc, conn, tries, request, closing>>

\* Mutant: the connections being closed are still in the idle list.
ForbidIdleKeepsList ==
    /\ reload = "swapped"
    /\ reload' = "dropping"
    /\ limit' = 0
    /\ drop' = ToSet(idle)
    /\ UNCHANGED <<cur, opened, pool, dialled, pc, conn, tries, request, cleaned>>

(* dropIdle: SetMaxIdleConns(0) takes all idle connections out of the pool   *)
(* and closes them; SetMaxIdleConns(embeddedMaxIdleConns) lets it keep some  *)
(* again, and Reload returns.                                                *)
ForbidIdle ==
    /\ reload = "swapped"
    /\ reload' = "dropping"
    /\ limit' = 0
    /\ drop' = ToSet(idle)
    /\ idle' = <<>>
    /\ UNCHANGED <<cur, opened, numOpen, waiting, asked, dialled, pc, conn, tries, request,
                   cleaned>>

CloseDropped(c) ==
    /\ c \in drop
    /\ drop' = drop \ {c}
    /\ CloseConn(c)
    /\ UNCHANGED <<cur, idle, limit, waiting, dialled, pc, conn, tries, request, reload,
                   cleaned>>

\* Mutant: Reload returns while the idle connections are still being closed.
ReturnAtOnce ==
    /\ reload = "dropping"
    /\ reload' = "idle"
    /\ limit' = MaxIdle
    /\ UNCHANGED <<cur, opened, pool, dialled, pc, conn, tries, request, closing>>

AllowIdle ==
    /\ reload = "dropping" /\ drop = {}
    /\ reload' = "idle"
    /\ limit' = MaxIdle
    /\ UNCHANGED <<cur, opened, pool, dialled, pc, conn, tries, request, closing>>

-----------------------------------------------------------------------------
QueryStep(q) ==
    \/ Begin(q) \/ Acquire(q) \/ Dial(q) \/ TooOld(q) \/ ResetSession(q) \/ Retry(q)
    \/ IsValid(q) \/ PutConn(q) \/ PutExpired(q) \/ DropConn(q)

Opener == OpenerDials \/ OpenerHandsOver

ReloadStep == ForbidIdle \/ (\E c \in Conns : CloseDropped(c)) \/ AllowIdle

Done ==
    /\ \A q \in Requests : pc[q] \in {"done", "failed"}
    /\ UNCHANGED vars

Next ==
    \/ \E q \in Requests : QueryStep(q)
    \/ Opener
    \/ \E c \in Conns : CleanerTakes(c) \/ CleanerCloses(c)
    \/ SwapIn
    \/ ReloadStep
    \/ Done

(* Goroutines run, queries end, connections age; nobody has to reload.       *)
Fairness ==
    /\ \A q \in Requests : WF_vars(QueryStep(q))
    /\ WF_vars(Opener)
    /\ \A c \in Conns : WF_vars(CleanerTakes(c)) /\ WF_vars(CleanerCloses(c))
    /\ WF_vars(ReloadStep)

Spec == Init /\ [][Next]_vars /\ Fairness

-----------------------------------------------------------------------------
(* A query that runs on a file superseded before it began is the first its   *)
(* connection serves: connectionOpener dialled that one before the swap, and *)
(* the pool does not ask it.  Whatever a query has used is asked, by IsValid *)
(* racing the swap and then by ResetSession (reload.go:279-289), so a        *)
(* connection to a superseded file serves one later query at most.           *)
LateOnlyOnFirstUse ==
    \A q \in Requests :
        pc[q] = "running" /\ of[conn[q]] < since[q] => conn[q] \notin used

(* When Reload returns, whatever connection to an older file is still open   *)
(* is in use, about to be handed over or being closed by the cleaner: none   *)
(* sits in the pool or waits for Reload to close it ("lets go of the         *)
(* superseded file at once", reload.go:76-78).                               *)
NoneLeftIdle ==
    [][reload = "dropping" /\ reload' = "idle" =>
        \A c \in Open : of[c] < cur =>
            c = dialled \/ c \in cleaned \/ \E q \in Requests : conn[q] = c]_vars

(* What reloads cost: a query fails for want of a connection                 *)
(* (driver.ErrBadConn, reload.go:286) only when its last attempt was handed  *)
(* one to a superseded file, which is closed then; so no more queries fail   *)
(* than connections were open at the swaps.  The age of connections          *)
(* (db.go:121) costs attempts and never fails a query.                       *)
FailuresAreReloads ==
    Cardinality({q \in Requests : pc[q] = "failed"}) <= (cur - 1) * MaxOpen

(* Every query gets a connection or an error; in particular one that waits   *)
(* is served when connections are closed instead of put back.                *)
EveryQueryIsAnswered ==
    \A q \in Requests : pc[q] = "conn" ~> pc[q] \in {"running", "failed"}

(* No connection to a superseded file stays open: the connector can close    *)
(* the file (it relies on this in ReloadingConnector's fairness).            *)
SupersededDrains ==
    \A c \in Conns, g \in 1..MaxGen : (of[c] = g /\ g < cur) ~> of[c] # g

(* "Requests already running finish on the previous file" (CHANGELOG.md      *)
(* [0.8.0]): all the queries of a request run on one file.                   *)
RequestStaysOnOneFile ==
    \A q \in Requests : pc[q] = "running" => of[conn[q]] = first[q]
=============================================================================
