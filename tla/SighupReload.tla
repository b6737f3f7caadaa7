---------------------------- MODULE SighupReload ----------------------------
(* The life of the server process around the reload signal: RunServer         *)
(* (pkg/cmd/server.go) opens the database, starts ReloadOnSIGHUP's listener   *)
(* (pkg/db/reload.go), serves, and in its deferred calls stops the listener   *)
(* and closes the database; meanwhile the rotation repoints the path and      *)
(* sends SIGHUP.  Reload is taken at the grain that matters here: it looks at *)
(* the path, looks again to open it, and swaps unless the handle was closed.  *)
EXTENDS Naturals

CONSTANTS Files,        \* what the path can point at
          Sound,        \* those that open and answer a query
          TablesOf,     \* the tables in each
          MaxRotations  \* bound: how often the path is repointed

ASSUME SighupAssumption ==
    /\ Sound \subseteq Files /\ DOMAIN TablesOf = Files /\ "none" \notin Files
    /\ MaxRotations \in Nat

VARIABLES driver,    \* the database driver configured
          link,      \* what the path resolves to
          rotations, \* how often it was repointed (for the bound)
          told,      \* a SIGHUP was taken since it was last repointed
          attempt,   \* the last reload: it began before the path was last
                     \* repointed, or after, or after and has failed
          process,   \* where RunServer is
          first,     \* the file the handle was opened on
          serving,   \* the file in use, "none" while no handle is open
          queued,    \* signals waiting in the channel (its capacity is 1)
          done,      \* the done channel is closed
          listener,  \* where the listener goroutine is
          opened     \* the file Reload has opened, "none" if none

vars == <<driver, link, rotations, told, attempt, process, first, serving,
          queued, done, listener, opened>>
outside == <<driver, link, rotations, told>>

(* Only duckdb reloads; "refused" is any other name, or a missing path or DSN. *)
Drivers == {"duckdb", "sqlite", "postgres", "refused"}

TypeOK ==
    /\ driver \in Drivers
    /\ link \in Files
    /\ rotations \in 0..MaxRotations
    /\ told \in BOOLEAN
    /\ attempt \in {"before", "after", "failed"}
    /\ process \in {"starting", "opened", "serving", "stopping", "stopped",
                    "down", "killed"}
    /\ first \in Files \union {"none"}
    /\ serving \in Files \union {"none"}
    /\ queued \in 0..1
    /\ done \in BOOLEAN
    /\ listener \in {"none", "select", "resolve", "open", "swap", "returned"}
    /\ opened \in Files \union {"none"}

Init ==
    /\ driver \in Drivers
    /\ link \in Files
    /\ rotations = 0
    /\ told = FALSE
    /\ attempt = "before"
    /\ process = "starting"
    /\ first = "none"
    /\ serving = "none"
    /\ queued = 0
    /\ done = FALSE
    /\ listener = "none"
    /\ opened = "none"

Running == process \notin {"down", "killed"}

-----------------------------------------------------------------------------
(* The rotation job: repoints the path, then sends SIGHUP.                   *)
Rotate(f) ==
    /\ rotations < MaxRotations /\ f # link
    /\ link' = f
    /\ rotations' = rotations + 1
    /\ told' = FALSE
    /\ attempt' = "before"
    /\ UNCHANGED <<driver, process, first, serving, queued, done, listener, opened>>

Notified == process \in {"serving", "stopping"}

\* Mutant: an unbuffered channel takes a signal only while the listener waits.
SighupUnbuffered ==
    /\ Notified
    /\ told' = TRUE
    /\ queued' = IF listener = "select" THEN 1 ELSE queued
    /\ UNCHANGED <<driver, link, rotations, attempt, process, first, serving, done, listener,
                   opened>>

\* Mutant: the channel has room for another signal.
SighupAppends ==
    /\ Notified
    /\ told' = TRUE
    /\ queued' = queued + 1
    /\ UNCHANGED <<driver, link, rotations, attempt, process, first, serving, done, listener,
                   opened>>

(* os/signal puts the signal in the channel, or drops it when one is already *)
(* waiting there.                                                            *)
Sighup ==
    /\ Notified
    /\ told' = TRUE
    /\ queued' = 1
    /\ UNCHANGED <<driver, link, rotations, attempt, process, first, serving, done, listener,
                   opened>>

(* Before Notify and after signal.Stop Go's default applies.                 *)
SighupKills ==
    /\ Running /\ ~Notified
    /\ process' = "killed"
    /\ UNCHANGED <<outside, attempt, first, serving, queued, done, listener, opened>>

-----------------------------------------------------------------------------
(* RunServer.                                                                *)

(* The file is opened and pinged; nothing is known yet of the tables it      *)
(* should have.                                                              *)
Opens == driver # "refused" /\ link \in Sound

OpenReloadable ==
    /\ process = "starting" /\ Opens
    /\ process' = "opened"
    /\ first' = link /\ serving' = link
    /\ UNCHANGED <<outside, attempt, queued, done, listener, opened>>

OpenFails ==
    /\ process = "starting" /\ ~Opens
    /\ process' = "down"
    /\ UNCHANGED <<outside, attempt, first, serving, queued, done, listener, opened>>

ReloadOnSIGHUP ==
    /\ process = "opened"
    /\ process' = "serving"
    /\ listener' = "select"
    /\ UNCHANGED <<outside, attempt, first, serving, queued, done, opened>>

(* RunServer returns: its servers have stopped, or did not start.            *)
Shutdown ==
    /\ process = "serving"
    /\ process' = "stopping"
    /\ UNCHANGED <<outside, attempt, first, serving, queued, done, listener, opened>>

\* Mutant: stop unregisters the channel and leaves the goroutine in select.
StopNotifying ==
    /\ process = "stopping"
    /\ process' = "stopped"
    /\ UNCHANGED <<outside, attempt, first, serving, queued, done, listener, opened>>

(* stop: signal.Stop and close(done); it does not wait for the listener.     *)
Stop ==
    /\ process = "stopping"
    /\ process' = "stopped"
    /\ done' = TRUE
    /\ UNCHANGED <<outside, attempt, first, serving, queued, listener, opened>>

CloseDB ==
    /\ process = "stopped"
    /\ process' = "down"
    /\ serving' = "none"
    /\ UNCHANGED <<outside, attempt, first, queued, done, listener, opened>>

-----------------------------------------------------------------------------
(* The listener.                                                             *)

Alive == process # "killed"

(* select takes either case when both are ready.                             *)
SelectDone ==
    /\ Alive /\ listener = "select" /\ done
    /\ listener' = "returned"
    /\ UNCHANGED <<outside, attempt, process, first, serving, queued, done, opened>>

(* The reloader of the other drivers does nothing; a closed one refuses.     *)
SelectSignal ==
    /\ Alive /\ listener = "select" /\ queued = 1
    /\ queued' = 0
    /\ attempt' = "after"
    /\ listener' = IF driver # "duckdb" \/ serving = "none" THEN "select" ELSE "resolve"
    /\ UNCHANGED <<outside, process, first, serving, done, opened>>

(* Reload finds nothing new, or goes on to open what the path names now.     *)
Resolve ==
    /\ Alive /\ listener = "resolve"
    /\ listener' = IF link = serving THEN "select" ELSE "open"
    /\ UNCHANGED <<outside, attempt, process, first, serving, queued, done, opened>>

Open ==
    /\ Alive /\ listener = "open"
    /\ opened' = link
    /\ listener' = "swap"
    /\ UNCHANGED <<outside, attempt, process, first, serving, queued, done>>

(* The error is logged, and nothing tries again.                             *)
GivesUp ==
    /\ opened' = "none"
    /\ listener' = "select"
    /\ attempt' = IF attempt = "after" THEN "failed" ELSE attempt
    /\ UNCHANGED serving

(* Any of its steps may fail: the path is gone while it is repointed, the    *)
(* file is still being written, the validation takes more than its minute.   *)
ReloadFails ==
    /\ Alive /\ listener \in {"resolve", "open", "swap"}
    /\ GivesUp
    /\ UNCHANGED <<outside, process, first, queued, done>>

Validated == opened \in Sound /\ TablesOf[serving] \subseteq TablesOf[opened]

SwapsIn ==
    /\ serving' = opened
    /\ opened' = "none"
    /\ listener' = "select"
    /\ UNCHANGED attempt

\* Mutant: a file that answers is good enough.
SwapUnvalidated ==
    /\ Alive /\ listener = "swap"
    /\ IF serving # "none" /\ opened \in Sound THEN SwapsIn ELSE GivesUp
    /\ UNCHANGED <<outside, process, first, queued, done>>

\* Mutant: a reload swaps its file into a handle closed meanwhile.
SwapIntoClosed ==
    /\ Alive /\ listener = "swap"
    /\ IF serving = "none" \/ Validated THEN SwapsIn ELSE GivesUp
    /\ UNCHANGED <<outside, process, first, queued, done>>

(* Validated and swapped in; or rejected, or the handle closed: discarded.   *)
Swap ==
    /\ Alive /\ listener = "swap"
    /\ IF serving # "none" /\ Validated THEN SwapsIn ELSE GivesUp
    /\ UNCHANGED <<outside, process, first, queued, done>>

Listener == SelectDone \/ SelectSignal \/ Resolve \/ Open \/ ReloadFails \/ Swap
RunServer == OpenReloadable \/ OpenFails \/ ReloadOnSIGHUP \/ Stop \/ CloseDB

Next ==
    \/ \E f \in Files : Rotate(f)
    \/ Sighup
    \/ SighupKills
    \/ RunServer
    \/ Shutdown
    \/ Listener

(* The process makes progress; nobody has to rotate, signal or shut down.    *)
(* The listener is fair to both of its cases: select chooses at random.      *)
Spec ==
    /\ Init /\ [][Next]_vars
    /\ WF_vars(RunServer)
    /\ WF_vars(Listener)

-----------------------------------------------------------------------------
(* A rotation followed by a SIGHUP is not lost, even when the signal comes   *)
(* in the middle of a reload, or is dropped because one waits already: the   *)
(* file the path names is served, or a reload that began after the rotation  *)
(* fails and says so, unless the path moves on or the server stops.          *)
RotationIsServed ==
    (told /\ process = "serving" /\ driver = "duckdb") ~>
        (serving = link \/ attempt = "failed" \/ ~told \/ process # "serving")

(* "On error the current file stays in use" (reload.go:45), through any number*)
(* of reloads and failures: an open handle is on a file that answers and has  *)
(* every table of the one the process started with, and on that very file    *)
(* unless the driver reloads.                                                *)
HandleAlwaysServes ==
    serving # "none" =>
        /\ serving \in Sound /\ TablesOf[first] \subseteq TablesOf[serving]
        /\ driver # "duckdb" => serving = first

(* Once stopped the listener goroutine ends, a signal still queued or not.   *)
ListenerEnds == process = "stopped" ~> (listener = "returned" \/ process = "killed")

(* After the deferred db.Close no file is in use, though stop does not wait  *)
(* for a reload that is under way.                                           *)
ClosedAtExit == process = "down" => serving = "none"
=============================================================================
