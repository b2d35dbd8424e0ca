---------------------------- MODULE MCScheduler ----------------------------
(* Instances of Scheduler for TLC. *)
EXTENDS Scheduler, TLC

CONSTANTS p1, p2, n1, n2

\* A policy that asks for SEV-SNP and fresh evidence, and one that asks for TDX
\* and sets no age.
Strict == [requiredTEE |-> {"SEV-SNP"}, maxAge |-> 1, selects |-> Pod]
Moved == [requiredTEE |-> {"TDX"}, maxAge |-> 0, selects |-> Pod]
MCPolicySpecs == {Strict, Moved}

MCEvidenceSpecs ==
    1 :> {[node |-> n1, tee |-> "SEV-SNP", simulated |-> FALSE]} @@
    2 :> {[node |-> n2, tee |-> "TDX", simulated |-> TRUE]}

MCDecisionName == [p \in Pod |-> p]
=============================================================================
