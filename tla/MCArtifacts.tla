----------------------------- MODULE MCArtifacts ----------------------------
(* Instances of Artifacts for TLC.                                          *)
EXTENDS Artifacts, TLC

CONSTANTS p1, p2, id1, k1, k2

Symmetric == Permutations(Procs) \cup Permutations(Keys)
=============================================================================
