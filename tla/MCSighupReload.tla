---------------------------- MODULE MCSighupReload ----------------------------
(* Two exports with a table that an older one lacks, and one cut short.       *)
EXTENDS SighupReload

MCTablesOf == [f \in Files |-> IF f = "old" THEN {1} ELSE IF f = "torn" THEN {} ELSE {1, 2}]
=============================================================================
