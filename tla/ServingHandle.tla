--------------------------- MODULE ServingHandle ---------------------------
(* What the reloadable handle of pkg/db promises its users, with no locks,   *)
(* counters or flags: at any time at most one opened file is being served;   *)
(* a user takes the served one and keeps it until it gives it back; another  *)
(* file takes over only when it answers and carries every table of the one   *)
(* it replaces; a file no longer served is shut once, and only when nobody   *)
(* uses it; a stopped handle never serves again.  The comments of            *)
(* pkg/db/reload.go:38-79 are the source of these promises.                  *)
CONSTANTS Users,     \* whoever holds a connection
          Gens,      \* opened serving files
          NoGen,     \* no opened file
          Files,     \* the files the path can resolve to
          TablesOf,  \* the tables each file carries
          Sound      \* the files that answer a query

VARIABLES serving,   \* the opened file new users get, NoGen once stopped
          file,      \* what each opened file was opened from
          using,     \* the opened file each user holds
          served,    \* every opened file that has ever been served
          shut       \* those that have been closed

vars == <<serving, file, using, served, shut>>

Init ==
    /\ serving \in Gens
    /\ file[serving] \in Sound
    /\ using = [u \in Users |-> NoGen]
    /\ served = {serving}
    /\ shut = {}

Take(u) ==
    /\ serving # NoGen
    /\ using[u] = NoGen
    /\ using' = [using EXCEPT ![u] = serving]
    /\ UNCHANGED <<serving, file, served, shut>>

Give(u) ==
    /\ using[u] # NoGen
    /\ using' = [using EXCEPT ![u] = NoGen]
    /\ UNCHANGED <<serving, file, served, shut>>

(* Files are opened beside the served one without disturbing it.             *)
Open(g) ==
    /\ g \notin served
    /\ \A h \in Gens \ {g} : file'[h] = file[h]
    /\ UNCHANGED <<serving, using, served, shut>>

Switch(g) ==
    /\ serving # NoGen
    /\ g \notin served
    /\ file[g] \in Sound
    /\ TablesOf[file[serving]] \subseteq TablesOf[file[g]]
    /\ serving' = g
    /\ served' = served \union {g}
    /\ UNCHANGED <<file, using, shut>>

Stop ==
    /\ serving # NoGen
    /\ serving' = NoGen
    /\ UNCHANGED <<file, using, served, shut>>

Shut(g) ==
    /\ g \in served \ (shut \union {serving})
    /\ \A u \in Users : using[u] # g
    /\ shut' = shut \union {g}
    /\ UNCHANGED <<serving, file, using, served>>

Next ==
    \/ \E u \in Users : Take(u) \/ Give(u)
    \/ \E g \in Gens : Open(g) \/ Switch(g) \/ Shut(g)
    \/ Stop

Spec == Init /\ [][Next]_vars
=============================================================================
