--------------------------- MODULE MCEvidenceRecord ---------------------------
(* Instances of EvidenceRecord and of Approvals for TLC. *)
EXTENDS EvidenceRecord, Approvals

Entries(forms) == {[form |-> f, id |-> i, key |-> k] : f \in forms, i \in IDs, k \in Key}

\* Every list of at most two keys, and those of a key after a blank or a bad entry.
SomeKeyLists ==
    UNION {[1 .. n -> Entries({"key"})] : n \in 0 .. 2}
    \cup {<<[e EXCEPT !.form = f], e>> : e \in Entries({"key"}), f \in {"blank", "bad"}}

\* The properties of Approvals are about values, not states: they are evaluated once.
ASSUME SignaturesAssumption == ApprovalsBind /\ RotationTakesEffect /\ EvidenceBinds
=============================================================================
