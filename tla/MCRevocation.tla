---------------------------- MODULE MCRevocation ----------------------------
(* Instances of Revocation for TLC. *)
EXTENDS Revocation, TLC

CONSTANTS v1, v2, e1, e2

Symmetry == Permutations(Revocation)
=============================================================================
