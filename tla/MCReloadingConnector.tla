------------------------ MODULE MCReloadingConnector ------------------------
(* ReloadingConnector for TLC: a file with one table, one with two and one    *)
(* that does not answer; connections, reloaders and generations are         *)
(* interchangeable.                                                          *)
EXTENDS ReloadingConnector, TLC

CONSTANTS small, large, broken

MCFiles == {small, large, broken}
MCTablesOf == [f \in MCFiles |-> IF f = small THEN {1} ELSE IF f = large THEN {1, 2} ELSE {}]
MCSound == {small, large}

Symmetric ==
    Permutations(Conns) \union Permutations(Reloaders) \union Permutations(Gens)
=============================================================================
