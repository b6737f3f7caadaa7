------------------------------ MODULE ServedFile ------------------------------
(* What code that runs queries sees of the database handle: a query reads one *)
(* file or fails, and the next may read another.  Reloads swap files in       *)
(* between any two queries (ReloadingConnector and ConnPool show how), and a  *)
(* query that is the first on a connection opened before a swap still reads   *)
(* the file superseded there (ConnPool's LateOnlyOnFirstUse), so a file may   *)
(* be read again after another was.                                           *)
EXTENDS Naturals

CONSTANTS Files,       \* the names of the exports
          Export,      \* what is in each: a record of its tables
          MaxReloads,  \* bound: how often queries find another file
          MaxFailures  \* bound: how many queries fail

ASSUME ServedFileAssumption ==
    /\ DOMAIN Export = Files
    /\ MaxReloads \in Nat /\ MaxFailures \in Nat

VARIABLES file,     \* the file the next query reads
          served,   \* all the files queries have found so far
          reloads,  \* how often they found another one
          failures  \* how many queries failed

handle == <<file, served, reloads, failures>>

Opened == file \in Files /\ served = {file} /\ reloads = 0 /\ failures = 0

Reload ==
    /\ reloads < MaxReloads
    /\ reloads' = reloads + 1
    /\ file' \in Files \ {file}
    /\ served' = served \union {file'}
    /\ UNCHANGED failures

(* k queries fail.                                                           *)
Fail(k) ==
    /\ failures + k <= MaxFailures
    /\ failures' = failures + k
    /\ UNCHANGED <<file, served, reloads>>

HandleTypeOK ==
    /\ file \in served /\ served \subseteq Files
    /\ reloads \in 0..MaxReloads
    /\ failures \in 0..MaxFailures
=============================================================================
