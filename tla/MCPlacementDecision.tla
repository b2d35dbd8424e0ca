------------------------- MODULE MCPlacementDecision -------------------------
(* An instance of PlacementDecision for TLC. *)
EXTENDS PlacementDecision, TLC

CONSTANTS p1, n1

Fresh == [requiredTEE |-> {"SEV-SNP"}, maxAge |-> 1, selects |-> Pod]
Lasting == [requiredTEE |-> {}, maxAge |-> 0, selects |-> Pod]
MCPolicySpecs == {Fresh, Lasting}
MCEvidenceSpecs == 1 :> {[node |-> n1, tee |-> "SEV-SNP", simulated |-> FALSE]}
MCDecisionName == [p \in Pod |-> p]
DeclaredFresh == 1 :> 1
DeclaredLong == 1 :> 2
=============================================================================
