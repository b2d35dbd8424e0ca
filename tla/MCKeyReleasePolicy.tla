------------------------- MODULE MCKeyReleasePolicy -------------------------
(* An instance of KeyReleasePolicy for TLC. *)
EXTENDS KeyReleasePolicy

CONSTANTS k1, k2, e1

MCWords == [v \in {None} |-> {}]
=============================================================================
