--------------------------- MODULE MCTaskContracts --------------------------
(* Instances of TaskContracts for TLC.                                      *)
EXTENDS TaskContracts, TLC

CONSTANTS p1, p2, c1, c2, A, B, K, L

\* The first contract waits for every check, any other for none.
Referenced == [c \in Contracts |-> IF c = c1 THEN Checks ELSE {}]

Symmetric == Permutations(Procs)
=============================================================================
