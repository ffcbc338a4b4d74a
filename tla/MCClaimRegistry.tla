-------------------------- MODULE MCClaimRegistry ---------------------------
(* Instances of ClaimRegistry for TLC.                                      *)
EXTENDS ClaimRegistry

CONSTANTS p1, p2, A, B, c1, c2
=============================================================================
