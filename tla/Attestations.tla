---------------------------- MODULE Attestations ----------------------------
(***************************************************************************)
(* What the readers of AttestationEvidence (the scheduler, the key release *)
(* and placement reconcilers) rely on.  A verdict is dated when it is      *)
(* written, and the date of the last good one is never lost or set back; a *)
(* new spec carries the status over; revoking withdraws the verdict in the *)
(* same write.                                                             *)
(*                                                                         *)
(* Verifier and Revocation implement this specification: their steps are   *)
(* interleaved with one another's, with conflicts, retries and restarts.   *)
(***************************************************************************)
EXTENDS Integers

CONSTANTS
    Evidence,   \* names of AttestationEvidences
    Specs,      \* what the spec of an AttestationEvidence may say
    None

VARIABLES
    now,
    evidence    \* Evidence -> [spec, verified, revoked, lastVerified], or None

Init == now = 0 /\ evidence = [e \in Evidence |-> None]

Write(e, new) == evidence' = [evidence EXCEPT ![e] = new] /\ UNCHANGED now

\* The spec is created or rewritten; the status is kept.
WriteSpec(e, spec) ==
    LET old == evidence[e]
    IN  Write(e, [spec |-> spec,
                  verified |-> old # None /\ old.verified,
                  revoked |-> old # None /\ old.revoked,
                  lastVerified |-> IF old = None THEN None ELSE old.lastVerified])

\* A verdict on the attestation of the node.
Appraise(e, verified) ==
    /\ evidence[e] # None
    /\ Write(e, [spec |-> evidence[e].spec, verified |-> verified,
                 revoked |-> evidence[e].revoked,
                 lastVerified |-> IF verified THEN now ELSE evidence[e].lastVerified])

\* A verdict on the revocation of the evidence.
Refresh(e, revoked, verified) ==
    /\ evidence[e] # None
    /\ verified => ~revoked
    /\ Write(e, [spec |-> evidence[e].spec, verified |-> verified, revoked |-> revoked,
                 lastVerified |-> IF verified THEN now ELSE evidence[e].lastVerified])

Delete(e) == Write(e, None)

Tick == now' = now + 1 /\ UNCHANGED evidence

Next ==
    \/ \E e \in Evidence :
          \/ \E spec \in Specs : WriteSpec(e, spec)
          \/ Delete(e)
          \/ \E verified \in BOOLEAN :
                Appraise(e, verified) \/ \E revoked \in BOOLEAN : Refresh(e, revoked, verified)
    \/ Tick

Spec == Init /\ [][Next]_<<now, evidence>>
=============================================================================
