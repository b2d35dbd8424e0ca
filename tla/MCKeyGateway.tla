---------------------------- MODULE MCKeyGateway ----------------------------
(* Instances of KeyGateway for TLC. *)
EXTENDS KeyGateway

CONSTANTS u1, u2, m1, m2, i1, i2, h1, h2, n1, k1, g1

\* The reference of i2 names a model server; g1 has a number for a model digest.
MCWords ==
    [v \in UID \cup Image \cup Model \cup {h1, h2, None} \cup Garbled |->
        IF v \in {i2, g1} THEN {"model"} ELSE {}]

MCWorkload == {[uid |-> u1, image |-> i1, model |-> m1], [uid |-> u2, image |-> i2, model |-> None]}

MCPlacement == {[specHash |-> h1, node |-> n1, evidenceHash |-> h1, policy |-> p] : p \in {h1, None}}

Good == [required |-> TRUE, ttl |-> 1, revocationActive |-> FALSE, revoked |-> FALSE,
         verified |-> TRUE, lastSeen |-> None, maxAge |-> 0, audit |-> FALSE,
         evidenceHash |-> None]

\* Good inputs, and inputs that fail each of the checks.
MCInputs ==
    {[Good EXCEPT !.audit = TRUE, !.evidenceHash = h1],
     [Good EXCEPT !.required = FALSE, !.verified = FALSE], [Good EXCEPT !.ttl = 0],
     [Good EXCEPT !.revocationActive = TRUE], [Good EXCEPT !.revoked = TRUE],
     [Good EXCEPT !.verified = FALSE], [Good EXCEPT !.lastSeen = 0, !.maxAge = 1],
     [Good EXCEPT !.audit = TRUE]}
=============================================================================
