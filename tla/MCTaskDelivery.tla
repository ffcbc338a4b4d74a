--------------------------- MODULE MCTaskDelivery ---------------------------
(* Instances of TaskDelivery for TLC.                                       *)
EXTENDS TaskDelivery, TLC

CONSTANTS t1, m1, m2

Symmetric == Permutations(Movers)
=============================================================================
