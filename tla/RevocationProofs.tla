--------------------------- MODULE RevocationProofs ---------------------------
(***************************************************************************)
(* Proofs about Revocation, for any number of policies and of evidence,    *)
(* any TTLs and any bounds.                                                *)
(***************************************************************************)
EXTENDS Revocation, TLAPS

-----------------------------------------------------------------------------
\* Types.

\* Windows and times are natural numbers.
LEMMA NaturalTimes == (\A ttl \in TTLs : ttl \in Nat) /\ (\A t \in Time : t \in Nat)
  BY RevocationConstants DEF Time

\* A policy has a window and a time of creation.
LEMMA PolicyTimes ==
    ASSUME NEW policy \in RevocationObject
    PROVE  policy.created \in Nat /\ policy.ttl \in Nat
<1>1. policy.created \in Time /\ policy.ttl \in TTLs
  BY DEF RevocationObject
<1> QED
  BY <1>1, NaturalTimes

\* The status computed from a policy is that of a policy.
LEMMA DatedType ==
    ASSUME TypeOK, NEW policy \in RevocationObject
    PROVE  /\ Dated(policy) \in RevocationObject
           /\ Dated(policy).created = policy.created /\ Dated(policy).ttl = policy.ttl
           /\ Dated(policy).expiresAt = policy.created + policy.ttl
           /\ now < policy.created + policy.ttl => Dated(policy).active
<1> DEFINE expiry == policy.created + policy.ttl
           soon == now < expiry
<1>1. expiry \in Nat
  BY PolicyTimes
<1>2. Dated(policy) = [policy EXCEPT !.expiresAt = expiry, !.active = soon]
  BY DEF Dated
<1> soon \in BOOLEAN
  BY DEF soon
<1> HIDE DEF expiry, soon
<1>3. /\ Dated(policy) \in RevocationObject
      /\ Dated(policy).created = policy.created /\ Dated(policy).ttl = policy.ttl
      /\ Dated(policy).expiresAt = expiry /\ Dated(policy).active = soon
  BY <1>1, <1>2 DEF RevocationObject
<1>4. soon => Dated(policy).active
  BY <1>3, Zenon
<1> QED
  BY <1>3, <1>4 DEF expiry, soon

\* The status written to evidence keeps its spec, is dated if it verifies, and never says
\* revoked and verified.
LEMMA RefreshedType ==
    ASSUME TypeOK, NEW ev \in EvidenceObject, NEW revoked \in BOOLEAN
    PROVE  LET new == Refreshed(ev, revoked)
           IN  /\ new \in EvidenceObject
               /\ new.simulated = ev.simulated /\ new.signed = ev.signed
               /\ new.revoked = revoked
               /\ new.lastVerified = IF new.verified THEN now ELSE ev.lastVerified
               /\ new.verified => ~new.revoked
<1>1. PICK verified \in BOOLEAN : verified = (~revoked /\ (ev.simulated \/ ev.signed))
  BY Zenon
<1>2. PICK at \in Time \cup {None} : at = IF verified THEN now ELSE ev.lastVerified
  BY DEF EvidenceObject, TypeOK
<1> DEFINE new == [ev EXCEPT !.revoked = revoked, !.verified = verified, !.lastVerified = at]
<1>3. Refreshed(ev, revoked) = new
  BY <1>1, <1>2, Zenon DEF Refreshed
<1>4. /\ new \in EvidenceObject
      /\ new.simulated = ev.simulated /\ new.signed = ev.signed
      /\ new.revoked = revoked /\ new.verified = verified /\ new.lastVerified = at
  BY Zenon DEF EvidenceObject
<1>5. verified => ~revoked
  BY <1>1, Zenon
<1> QED
  BY <1>2, <1>3, <1>4, <1>5, Zenon

\* The parts of TypeOK about the policies and about the evidence.
RTypeOK ==
    /\ revocations \in [Revocation -> RevocationObject \cup {None}]
    /\ rqueue \subseteq Revocation
    /\ rtimers \in [Revocation -> Nat \cup {None}]
    /\ rworker \in [at : {"idle", "write", "requeue"}, on : Revocation \cup {None},
                    read : RevocationObject \cup {None}, stale : BOOLEAN]
    /\ rworker.at # "idle" => /\ rworker.on # None /\ rworker.read # None
                              /\ rworker.read.expiresAt = rworker.read.created + rworker.read.ttl

ETypeOK ==
    /\ evidence \in [Evidence -> EvidenceObject \cup {None}]
    /\ equeue \subseteq Evidence /\ etimers \subseteq Evidence
    /\ eworker \in [at : {"idle", "list", "write"}, on : Evidence \cup {None},
                    read : EvidenceObject \cup {None}, stale : BOOLEAN, revoked : BOOLEAN]
    /\ eworker.at # "idle" => eworker.on # None /\ eworker.read # None

LEMMA TypeParts ==
    /\ TypeOK <=> now \in Time /\ edits \in 0 .. MaxEdits /\ RTypeOK /\ ETypeOK
    /\ TypeOK' <=> now' \in Time /\ edits' \in 0 .. MaxEdits /\ RTypeOK' /\ ETypeOK'
  BY DEF TypeOK, RTypeOK, ETypeOK

\* An idle worker has the type of a worker.
LEMMA IdleTypes ==
    /\ RIdle.at = "idle" /\ RIdle.stale = FALSE
    /\ RIdle \in [at : {"idle", "write", "requeue"}, on : Revocation \cup {None},
                  read : RevocationObject \cup {None}, stale : BOOLEAN]
    /\ EIdle.at = "idle"
    /\ EIdle \in [at : {"idle", "list", "write"}, on : Evidence \cup {None},
                  read : EvidenceObject \cup {None}, stale : BOOLEAN, revoked : BOOLEAN]
  BY DEF RIdle, EIdle

\* What somebody else writes is of the type of the object: the write is a write of a
\* policy, or of evidence.
LEMMA OthersWrite ==
    ASSUME TypeOK, Others
    PROVE  \/ \E v \in Revocation, new \in RevocationObject \cup {None} : WriteRevocation(v, new)
           \/ \E e \in Evidence, new \in EvidenceObject \cup {None} : WriteEvidence(e, new)
           \/ Restart \/ Tick
<1>1. now \in Time /\ \A v \in Revocation : revocations[v] # None =>
                        revocations[v] \in RevocationObject
  BY DEF TypeOK
<1>2. \A e \in Evidence : evidence[e] # None => evidence[e] \in EvidenceObject
  BY DEF TypeOK
<1>3. ASSUME NEW v \in Revocation, NEW ttl \in TTLs,
             EditTTL(v, ttl) \/ \E e \in Evidence \cup {None} : CreateRevocation(v, e, ttl)
      PROVE  \E new \in RevocationObject : WriteRevocation(v, new)
  <2>1. CASE EditTTL(v, ttl)
    <3>1. [revocations[v] EXCEPT !.ttl = ttl] \in RevocationObject
      BY <1>1, <2>1 DEF EditTTL, RevocationObject
    <3> QED
      BY <2>1, <3>1 DEF EditTTL
  <2>2. ASSUME NEW e \in Evidence \cup {None}, CreateRevocation(v, e, ttl)
        PROVE  \E new \in RevocationObject : WriteRevocation(v, new)
    <3>1. [target |-> e, ttl |-> ttl, created |-> now, expiresAt |-> None, active |-> FALSE]
             \in RevocationObject
      BY <1>1 DEF RevocationObject
    <3> QED
      BY <2>2, <3>1 DEF CreateRevocation
  <2> QED
    BY <1>3, <2>1, <2>2
<1>4. ASSUME NEW e \in Evidence, NEW simulated \in BOOLEAN, NEW signed \in BOOLEAN,
             CreateEvidence(e, simulated, signed)
      PROVE  \E new \in EvidenceObject : WriteEvidence(e, new)
  <2>1. [simulated |-> simulated, signed |-> signed, verified |-> FALSE, revoked |-> FALSE,
         lastVerified |-> None] \in EvidenceObject
    BY DEF EvidenceObject
  <2> QED
    BY <1>4, <2>1 DEF CreateEvidence
<1>5. ASSUME NEW e \in Evidence, NEW verified \in BOOLEAN, Attest(e, verified)
      PROVE  \E new \in EvidenceObject : WriteEvidence(e, new)
  <2>1. [evidence[e] EXCEPT !.verified = verified, !.lastVerified = IF verified THEN now ELSE @]
           \in EvidenceObject
    BY <1>1, <1>2, <1>5 DEF Attest, EvidenceObject
  <2> QED
    BY <1>5, <2>1 DEF Attest
<1>6. ASSUME NEW e \in Evidence, TouchEvidence(e)
      PROVE  \E new \in EvidenceObject : WriteEvidence(e, new)
  BY <1>2, <1>6 DEF TouchEvidence
<1> QED
  BY <1>3, <1>4, <1>5, <1>6 DEF Others, DeleteRevocation, DeleteEvidence

\* A step of the revocation reconciler leaves the evidence and the clock alone, and keeps
\* the types.
LEMMA RevocationTypes ==
    ASSUME TypeOK, ReconcileRevocation
    PROVE  TypeOK' /\ UNCHANGED <<now, evars, edits>>
<1> USE TypeParts
<1>1. UNCHANGED <<now, evars, edits>>
  BY DEF ReconcileRevocation, GetRevocation, RevocationDue, UpdateRevocation,
         RequeueRevocation, evars
<1>2. ASSUME NEW v \in Revocation, GetRevocation(v)
      PROVE  RTypeOK'
  <2>1. CASE revocations[v] = None
    BY <1>2, <2>1, IdleTypes DEF GetRevocation, RTypeOK
  <2>2. CASE revocations[v] # None
    <3>1. revocations[v] \in RevocationObject
      BY <2>2 DEF RTypeOK
    <3> DEFINE read == Dated(revocations[v])
    <3>2. read \in RevocationObject /\ read.expiresAt = read.created + read.ttl
      BY <3>1, DatedType
    <3>3. rworker' = [at |-> "write", on |-> v, read |-> read, stale |-> FALSE]
      BY <1>2, <2>2 DEF GetRevocation
    <3> HIDE DEF read
    <3>4. read # None /\ v # None
      BY <3>2, NoneIsNoObject, RevocationConstants
    <3> QED
      <4>1. rworker' \in [at : {"idle", "write", "requeue"}, on : Revocation \cup {None},
                          read : RevocationObject \cup {None}, stale : BOOLEAN]
        BY <3>2, <3>3
      <4>2. rworker'.on = v /\ rworker'.read = read
        BY <3>3
      <4> QED
        BY <1>2, <3>2, <3>4, <4>1, <4>2 DEF GetRevocation, RTypeOK
  <2> QED
    BY <2>1, <2>2
<1>3. ASSUME NEW v \in Revocation, RevocationDue(v)
      PROVE  RTypeOK'
  BY <1>3 DEF RevocationDue, RTypeOK
<1>4. ASSUME UpdateRevocation PROVE RTypeOK'
  <2>1. rworker.on \in Revocation /\ rworker.read \in RevocationObject
    BY <1>4 DEF UpdateRevocation, RTypeOK
  <2>2. CASE rworker' = RIdle /\ UNCHANGED revocations
    BY <1>4, <2>1, <2>2, IdleTypes DEF UpdateRevocation, RTypeOK
  <2>3. CASE /\ revocations' = [revocations EXCEPT ![rworker.on] = rworker.read]
             /\ rworker' = [rworker EXCEPT !.at = "requeue"]
    <3>1. rqueue' \subseteq Revocation /\ rtimers' = rtimers /\ rworker.at = "write"
      BY <1>4, <2>1 DEF UpdateRevocation, RTypeOK
    <3>2. revocations' \in [Revocation -> RevocationObject \cup {None}]
      BY <2>1, <2>3 DEF RTypeOK
    <3>3. /\ rworker' \in [at : {"idle", "write", "requeue"}, on : Revocation \cup {None},
                            read : RevocationObject \cup {None}, stale : BOOLEAN]
          /\ rworker'.on = rworker.on /\ rworker'.read = rworker.read
      BY <2>3 DEF RTypeOK
    <3> QED
      BY <3>1, <3>2, <3>3 DEF RTypeOK
  <2> QED
    BY <1>4, <2>2, <2>3 DEF UpdateRevocation
<1>5. ASSUME RequeueRevocation PROVE RTypeOK'
  <2>1. rworker.on \in Revocation /\ rworker.read \in RevocationObject
    BY <1>5 DEF RequeueRevocation, RTypeOK
  <2>2. rworker.read.expiresAt \in Nat
    <3>1. rworker.read.expiresAt = rworker.read.created + rworker.read.ttl
      BY <1>5 DEF RequeueRevocation, RTypeOK
    <3> QED
      BY <2>1, <3>1, PolicyTimes
  <2>3. Sooner(rtimers[rworker.on], rworker.read.expiresAt) \in Nat \cup {None}
    BY <2>1, <2>2 DEF Sooner, RTypeOK
  <2>4. rtimers' \in [Revocation -> Nat \cup {None}]
    BY <1>5, <2>1, <2>3 DEF RequeueRevocation, RTypeOK
  <2>5. rworker' = RIdle /\ UNCHANGED <<revocations, rqueue>>
    BY <1>5 DEF RequeueRevocation
  <2> QED
    BY <2>4, <2>5, IdleTypes DEF RTypeOK
<1>6. RTypeOK'
  BY <1>2, <1>3, <1>4, <1>5 DEF ReconcileRevocation
<1>7. ETypeOK'
  BY <1>1 DEF ETypeOK, evars
<1> QED
  BY <1>1, <1>6, <1>7

\* A step of the evidence reconciler leaves the policies and the clock alone, and keeps
\* the types.
LEMMA EvidenceTypes ==
    ASSUME TypeOK, ReconcileEvidence
    PROVE  TypeOK' /\ UNCHANGED <<now, rvars, edits>>
<1> USE TypeParts
<1>1. UNCHANGED <<now, rvars, edits>>
  BY DEF ReconcileEvidence, GetEvidence, EvidenceDue, ListRevocations, UpdateEvidence, rvars
<1>2. ASSUME NEW e \in Evidence, GetEvidence(e)
      PROVE  ETypeOK'
  <2>1. e # None
    BY RevocationConstants
  <2> QED
    BY <1>2, <2>1, IdleTypes DEF GetEvidence, ETypeOK
<1>3. ASSUME NEW e \in Evidence, EvidenceDue(e)
      PROVE  ETypeOK'
  BY <1>3 DEF EvidenceDue, ETypeOK
<1>4. ASSUME ListRevocations PROVE ETypeOK'
  <2>1. isEvidenceRevoked(eworker.on) \in BOOLEAN
    BY DEF isEvidenceRevoked
  <2> DEFINE revoked == isEvidenceRevoked(eworker.on)
  <2>2. /\ eworker' = [eworker EXCEPT !.at = "write", !.revoked = revoked]
        /\ UNCHANGED <<evidence, equeue, etimers>> /\ eworker.at = "list"
    BY <1>4 DEF ListRevocations
  <2> HIDE DEF revoked
  <2>3. /\ eworker' \in [at : {"idle", "list", "write"}, on : Evidence \cup {None},
                          read : EvidenceObject \cup {None}, stale : BOOLEAN, revoked : BOOLEAN]
        /\ eworker'.on = eworker.on /\ eworker'.read = eworker.read
    BY <2>1, <2>2 DEF ETypeOK, revoked
  <2> QED
    BY <2>2, <2>3 DEF ETypeOK
<1>5. ASSUME UpdateEvidence PROVE ETypeOK'
  <2>1. /\ eworker.on \in Evidence /\ eworker.read \in EvidenceObject
        /\ eworker.revoked \in BOOLEAN
    BY <1>5 DEF UpdateEvidence, ETypeOK
  <2>2. Refreshed(eworker.read, eworker.revoked) \in EvidenceObject
    BY <2>1, RefreshedType
  <2>3. eworker' = EIdle
    BY <1>5 DEF UpdateEvidence
  <2>4. /\ evidence' \in [Evidence -> EvidenceObject \cup {None}]
        /\ equeue' \subseteq Evidence /\ etimers' \subseteq Evidence
    BY <1>5, <2>1, <2>2 DEF UpdateEvidence, ETypeOK
  <2> QED
    BY <2>3, <2>4, IdleTypes DEF ETypeOK
<1>6. ETypeOK'
  BY <1>2, <1>3, <1>4, <1>5 DEF ReconcileEvidence
<1>7. RTypeOK'
  BY <1>1 DEF RTypeOK, rvars
<1> QED
  BY <1>1, <1>6, <1>7

\* The writes of the others, restarts and time keep the types.
LEMMA OthersTypes ==
    ASSUME TypeOK, Others
    PROVE  TypeOK'
<1> USE TypeParts
<1>1. ASSUME NEW v \in Revocation, NEW new \in RevocationObject \cup {None},
             WriteRevocation(v, new)
      PROVE  TypeOK'
  <2>1. RTypeOK'
    BY <1>1 DEF WriteRevocation, RTypeOK
  <2> QED
    BY <1>1, <2>1, RevocationConstants DEF WriteRevocation, Count, ETypeOK, evars
<1>2. ASSUME NEW e \in Evidence, NEW new \in EvidenceObject \cup {None},
             WriteEvidence(e, new)
      PROVE  TypeOK'
  <2>1. ETypeOK'
    BY <1>2 DEF WriteEvidence, ETypeOK
  <2> QED
    BY <1>2, <2>1, RevocationConstants DEF WriteEvidence, Count, RTypeOK, rvars
<1>3. CASE Restart
  <2>1. RTypeOK' /\ ETypeOK'
    BY <1>3, IdleTypes DEF Restart, RTypeOK, ETypeOK
  <2> QED
    BY <1>3, <2>1, RevocationConstants DEF Restart, Count
<1>4. CASE Tick
  <2>1. RTypeOK' /\ ETypeOK'
    BY <1>4 DEF Tick, rvars, evars, RTypeOK, ETypeOK
  <2> QED
    BY <1>4, <2>1, RevocationConstants DEF Tick, Time
<1> QED
  BY <1>1, <1>2, <1>3, <1>4, OthersWrite

\* The types are invariant for all constants: the objects keep the shape of their CRDs.
THEOREM TypeCorrect == Spec => []TypeOK
<1>1. Init => TypeOK
  BY TypeParts, IdleTypes, RevocationConstants DEF Init, RTypeOK, ETypeOK, Time
<1>2. TypeOK /\ [Next]_vars => TypeOK'
  <2>1. CASE UNCHANGED vars
    BY <2>1 DEF vars, rvars, evars, TypeOK
  <2> QED
    BY <2>1, RevocationTypes, EvidenceTypes, OthersTypes DEF Next
<1> QED
  BY <1>1, <1>2, PTL DEF Spec

-----------------------------------------------------------------------------
\* Evidence: the copy a reconcile works on.

\* The inductive invariant: unless the evidence was written since, the reconcile holds the
\* evidence as it is.
CopyCurrent == eworker.at # "idle" /\ ~eworker.stale => evidence[eworker.on] = eworker.read

EInv == TypeOK /\ CopyCurrent /\ RevokedNotVerified

\* What a write of somebody else leaves of the worker's copy.
LEMMA WriteMarksStale ==
    ASSUME TypeOK, CopyCurrent, NEW e \in Evidence, NEW new, WriteEvidence(e, new)
    PROVE  CopyCurrent'
<1>1. /\ eworker'.at = eworker.at /\ eworker'.on = eworker.on /\ eworker'.read = eworker.read
      /\ eworker'.stale = (eworker.stale \/ eworker.on = e)
  BY DEF WriteEvidence, TypeOK
<1>2. \A f \in Evidence : f # e => evidence'[f] = evidence[f]
  BY DEF WriteEvidence, TypeOK
<1>3. eworker.at # "idle" => eworker.on \in Evidence
  BY DEF TypeOK
<1> QED
  BY <1>1, <1>2, <1>3 DEF CopyCurrent

\* The evidence reconciler keeps the invariant.
LEMMA ReconcileKeepsEInv ==
    ASSUME EInv, ReconcileEvidence
    PROVE  CopyCurrent' /\ RevokedNotVerified'
<1> USE DEF EInv
<1>1. ASSUME NEW e \in Evidence, GetEvidence(e)
      PROVE  CopyCurrent' /\ RevokedNotVerified'
  <2>1. /\ evidence' = evidence /\ equeue' = equeue \ {e} /\ eworker.at = "idle"
        /\ evidence[e] # None =>
              eworker'.at = "list" /\ eworker'.on = e /\ eworker'.read = evidence[e]
        /\ evidence[e] = None => eworker'.at = "idle"
    BY <1>1, IdleTypes DEF GetEvidence
  <2>2. \A f \in Evidence : ESettled(f)' /\ evidence[f] # None => ESettled(f)
    BY <2>1 DEF ESettled
  <2> QED
    BY <2>1, <2>2 DEF CopyCurrent, RevokedNotVerified
<1>2. ASSUME NEW e \in Evidence, EvidenceDue(e)
      PROVE  CopyCurrent' /\ RevokedNotVerified'
  BY <1>2 DEF EvidenceDue, CopyCurrent, RevokedNotVerified, ESettled
<1>3. ASSUME ListRevocations
      PROVE  CopyCurrent' /\ RevokedNotVerified'
  <2>1. /\ eworker.at = "list" /\ eworker'.at = "write" /\ eworker'.on = eworker.on
        /\ eworker'.read = eworker.read /\ eworker'.stale = eworker.stale
        /\ UNCHANGED <<evidence, equeue>>
    BY <1>3 DEF ListRevocations, TypeOK
  <2> QED
    BY <2>1 DEF CopyCurrent, RevokedNotVerified, ESettled
<1>4. ASSUME UpdateEvidence
      PROVE  CopyCurrent' /\ RevokedNotVerified'
  <2> DEFINE new == Refreshed(eworker.read, eworker.revoked)
  <2>1. /\ eworker.on \in Evidence /\ eworker.read \in EvidenceObject
        /\ eworker.revoked \in BOOLEAN
    BY <1>4 DEF UpdateEvidence, TypeOK
  <2> PICK e \in Evidence : e = eworker.on
    BY <2>1
  <2> PICK written : written = new
    OBVIOUS
  <2>2. written.verified => ~written.revoked
    BY <2>1, RefreshedType
  <2>3. \/ equeue' = equeue \cup {e} /\ evidence' = evidence
        \/ evidence' = [evidence EXCEPT ![e] = written] /\ equeue \subseteq equeue'
    BY <1>4 DEF UpdateEvidence
  <2>4. eworker'.at = "idle"
    BY <1>4, IdleTypes DEF UpdateEvidence
  <2> HIDE DEF new
  <2>5. \A f \in Evidence : f # e /\ ESettled(f)' => ESettled(f) /\ evidence'[f] = evidence[f]
    BY <2>1, <2>3 DEF ESettled, TypeOK
  <2>6. ESettled(e)' => evidence'[e] = written
    BY <2>1, <2>3 DEF ESettled, TypeOK
  <2> QED
    BY <2>2, <2>4, <2>5, <2>6 DEF CopyCurrent, RevokedNotVerified
<1> QED
  BY <1>1, <1>2, <1>3, <1>4 DEF ReconcileEvidence

\* The others keep the invariant: a write of evidence enqueues it.
LEMMA OthersKeepEInv ==
    ASSUME EInv, Others
    PROVE  CopyCurrent' /\ RevokedNotVerified'
<1> USE DEF EInv
<1>1. ASSUME NEW v \in Revocation, NEW new, WriteRevocation(v, new)
      PROVE  CopyCurrent' /\ RevokedNotVerified'
  BY <1>1 DEF WriteRevocation, evars, CopyCurrent, RevokedNotVerified, ESettled
<1>2. ASSUME NEW e \in Evidence, NEW new, WriteEvidence(e, new)
      PROVE  CopyCurrent' /\ RevokedNotVerified'
  <2>1. /\ e \in equeue' /\ equeue \subseteq equeue'
        /\ eworker'.at = eworker.at /\ eworker'.on = eworker.on
        /\ \A f \in Evidence : f # e => evidence'[f] = evidence[f]
    BY <1>2 DEF WriteEvidence, TypeOK
  <2>2. RevokedNotVerified'
    BY <2>1 DEF RevokedNotVerified, ESettled
  <2> QED
    BY <1>2, <2>2, WriteMarksStale
<1>3. CASE Restart
  BY <1>3, IdleTypes DEF Restart, CopyCurrent, RevokedNotVerified, ESettled
<1>4. CASE Tick
  BY <1>4 DEF Tick, evars, CopyCurrent, RevokedNotVerified, ESettled
<1> QED
  BY <1>1, <1>2, <1>3, <1>4, OthersWrite

\* EInv is invariant.
LEMMA EInvHolds == Spec => []EInv
<1>1. Init => EInv
  <2>1. Init => TypeOK
    BY TypeParts, IdleTypes, RevocationConstants DEF Init, RTypeOK, ETypeOK, Time
  <2> QED
    BY <2>1, IdleTypes DEF Init, EInv, CopyCurrent, RevokedNotVerified
<1>2. EInv /\ [Next]_vars => EInv'
  <2> SUFFICES ASSUME EInv, [Next]_vars
               PROVE  EInv'
    OBVIOUS
  <2>1. CASE UNCHANGED vars
    BY <2>1 DEF vars, rvars, evars, EInv, TypeOK, CopyCurrent, RevokedNotVerified, ESettled
  <2>2. CASE ReconcileRevocation
    <3>1. TypeOK' /\ UNCHANGED evars
      BY <2>2, RevocationTypes DEF EInv
    <3> QED
      BY <3>1 DEF EInv, evars, CopyCurrent, RevokedNotVerified, ESettled
  <2>3. CASE ReconcileEvidence
    BY <2>3, EvidenceTypes, ReconcileKeepsEInv DEF EInv
  <2>4. CASE Others
    BY <2>4, OthersTypes, OthersKeepEInv DEF EInv
  <2> QED
    BY <2>1, <2>2, <2>3, <2>4 DEF Next
<1> QED
  BY <1>1, <1>2, PTL DEF Spec

\* Settled evidence is never both revoked and verified, for all constants.
THEOREM NeverRevokedAndVerified == Spec => []RevokedNotVerified
<1>1. EInv => RevokedNotVerified
  BY DEF EInv
<1> QED
  BY <1>1, EInvHolds, PTL

\* Evidence is un-revoked only when every policy that names it has run out, for all
\* constants.
THEOREM LiftsOnlyAtExpiry == Spec => LiftedOnlyAtExpiry
<1> DEFINE Step == ListRevocations /\ ~eworker'.revoked =>
                     \A v \in Revocation :
                        revocations[v] # None /\ revocations[v].target = eworker.on =>
                          revocations[v].expiresAt # None /\ revocations[v].expiresAt < now
<1>1. TypeOK /\ [Next]_vars => [Step]_vars
  <2> SUFFICES ASSUME TypeOK, ListRevocations, ~eworker'.revoked, NEW v \in Revocation,
                      revocations[v] # None, revocations[v].target = eworker.on
               PROVE  revocations[v].expiresAt # None /\ revocations[v].expiresAt < now
    OBVIOUS
  <2>1. ~isEvidenceRevoked(eworker.on)
    BY DEF ListRevocations, TypeOK
  <2>2. revocations[v].expiresAt # None /\ ~(revocations[v].expiresAt >= now)
    BY <2>1 DEF isEvidenceRevoked
  <2>3. revocations[v].expiresAt \in Nat \cup {None} /\ now \in Nat
    BY NaturalTimes DEF TypeOK, RevocationObject
  <2> QED
    BY <2>2, <2>3
<1> HIDE DEF Step
<1>2. Spec => [][Step]_vars
  BY <1>1, TypeCorrect, PTL DEF Spec
<1> QED
  BY <1>2 DEF LiftedOnlyAtExpiry, Step

-----------------------------------------------------------------------------
\* Policies: the expiry a reconcile has computed.

\* What ExpiryScheduled says of one policy.
Scheduled(v) ==
    /\ revocations[v].expiresAt = revocations[v].created + revocations[v].ttl
    /\ now < revocations[v].expiresAt =>
          /\ revocations[v].active
          /\ rtimers[v] # None /\ rtimers[v] <= revocations[v].expiresAt

\* The inductive invariant: the copy is active unless its expiry has been reached; a copy
\* that is out of date is of a policy that will be reconciled again; after the update the
\* copy is the policy.
CopyDated ==
    /\ rworker.at # "idle" => rworker.read.active \/ rworker.read.expiresAt <= now
    /\ rworker.at # "idle" /\ rworker.stale => rworker.on \in rqueue
    /\ rworker.at = "requeue" /\ ~rworker.stale => revocations[rworker.on] = rworker.read

RInv == TypeOK /\ CopyDated /\ ExpiryScheduled

LEMMA ScheduledParts ==
    /\ ExpiryScheduled <=> \A v \in Revocation : RSettled(v) /\ revocations[v] # None => Scheduled(v)
    /\ ExpiryScheduled' <=>
          \A v \in Revocation : RSettled(v)' /\ revocations'[v] # None => Scheduled(v)'
  BY DEF ExpiryScheduled, Scheduled

\* A policy whose timer, clock and object are left alone stays scheduled.
LEMMA ScheduledKept ==
    ASSUME NEW v \in Revocation, Scheduled(v), now' = now, rtimers'[v] = rtimers[v],
           revocations'[v] = revocations[v]
    PROVE  Scheduled(v)'
  BY DEF Scheduled

\* Reading a policy, and the timer that fires.
LEMMA GetKeepsRInv ==
    ASSUME RInv, NEW v \in Revocation, GetRevocation(v) \/ RevocationDue(v)
    PROVE  CopyDated' /\ ExpiryScheduled'
<1> USE DEF RInv
<1>1. CASE GetRevocation(v)
  <2>1. /\ UNCHANGED <<now, revocations, rtimers>> /\ rqueue' = rqueue \ {v}
        /\ rworker.at = "idle"
        /\ revocations[v] = None => rworker'.at = "idle"
        /\ revocations[v] # None => /\ rworker'.at = "write" /\ rworker'.on = v
                                    /\ rworker'.stale = FALSE
                                    /\ rworker'.read = Dated(revocations[v])
    BY <1>1, IdleTypes DEF GetRevocation
  <2>2. CopyDated'
    <3>1. CASE revocations[v] = None
      BY <2>1, <3>1 DEF CopyDated
    <3>2. CASE revocations[v] # None
      <4>1. revocations[v] \in RevocationObject /\ now \in Nat
        BY <3>2, NaturalTimes DEF TypeOK
      <4> DEFINE read == Dated(revocations[v])
      <4>2. read.active \/ read.expiresAt <= now
        <5>1. /\ read.expiresAt = revocations[v].created + revocations[v].ttl
              /\ now < revocations[v].created + revocations[v].ttl => read.active
          BY <4>1, DatedType
        <5>2. revocations[v].created \in Nat /\ revocations[v].ttl \in Nat
          BY <4>1, PolicyTimes
        <5> HIDE DEF read
        <5> QED
          BY <4>1, <5>1, <5>2
      <4> HIDE DEF read
      <4>3. /\ rworker'.at = "write" /\ rworker'.read = read /\ rworker'.stale = FALSE
            /\ now' = now
        BY <2>1, <3>2 DEF read
      <4> QED
        BY <4>2, <4>3 DEF CopyDated
    <3> QED
      BY <3>1, <3>2
  <2>3. \A f \in Revocation : RSettled(f)' /\ revocations'[f] # None => RSettled(f)
    BY <2>1 DEF RSettled
  <2> QED
    BY <2>1, <2>2, <2>3, ScheduledParts, ScheduledKept
<1>2. CASE RevocationDue(v)
  <2>1. /\ UNCHANGED <<now, revocations, rworker>> /\ rqueue' = rqueue \cup {v}
        /\ \A f \in Revocation : f # v => rtimers'[f] = rtimers[f]
    BY <1>2 DEF RevocationDue, TypeOK
  <2>2. CopyDated'
    BY <2>1 DEF CopyDated
  <2>3. \A f \in Revocation : RSettled(f)' => f # v /\ RSettled(f)
    BY <2>1 DEF RSettled
  <2> QED
    BY <2>1, <2>2, <2>3, ScheduledParts, ScheduledKept
<1> QED
  BY <1>1, <1>2

\* The status update: the policy stays unsettled.
LEMMA UpdateKeepsRInv ==
    ASSUME RInv, UpdateRevocation
    PROVE  CopyDated' /\ ExpiryScheduled'
<1> USE DEF RInv
<1> PICK v \in Revocation : v = rworker.on
  BY DEF UpdateRevocation, TypeOK
<1>1. rworker.at = "write" /\ UNCHANGED <<now, rtimers>>
  BY DEF UpdateRevocation
<1>2. CASE rworker.stale \/ revocations[v] = None
  <2>1. rworker'.at = "idle" /\ rqueue' = rqueue \cup {v} /\ UNCHANGED revocations
    BY <1>2, IdleTypes DEF UpdateRevocation
  <2>2. \A f \in Revocation : RSettled(f)' => RSettled(f)
    BY <2>1 DEF RSettled
  <2>3. CopyDated'
    BY <2>1 DEF CopyDated
  <2> QED
    BY <1>1, <2>1, <2>2, <2>3, ScheduledParts, ScheduledKept
<1>3. CASE ~(rworker.stale \/ revocations[v] = None)
  <2>1. /\ revocations' = [revocations EXCEPT ![v] = rworker.read]
        /\ rworker' = [rworker EXCEPT !.at = "requeue"] /\ rqueue \subseteq rqueue'
    BY <1>3 DEF UpdateRevocation
  <2>2. /\ rworker'.at = "requeue" /\ rworker'.on = v /\ rworker'.read = rworker.read
        /\ rworker'.stale = rworker.stale
    BY <2>1 DEF TypeOK
  <2>3. /\ revocations'[v] = rworker.read
        /\ \A f \in Revocation : f # v => revocations'[f] = revocations[f]
    BY <2>1 DEF TypeOK
  <2>4. CopyDated'
    BY <1>1, <1>3, <2>2, <2>3 DEF CopyDated
  <2>5. \A f \in Revocation : RSettled(f)' => f # v /\ RSettled(f)
    BY <2>1, <2>2 DEF RSettled
  <2> QED
    BY <1>1, <2>3, <2>4, <2>5, ScheduledParts, ScheduledKept
<1> QED
  BY <1>2, <1>3

\* The requeue: the policy is settled with its timer set.
LEMMA RequeueKeepsRInv ==
    ASSUME RInv, RequeueRevocation
    PROVE  CopyDated' /\ ExpiryScheduled'
<1> USE DEF RInv
<1> PICK v \in Revocation : v = rworker.on
  BY DEF RequeueRevocation, TypeOK
<1> PICK read \in RevocationObject : read = rworker.read
  BY DEF RequeueRevocation, TypeOK
<1>1. /\ rworker.at = "requeue" /\ rworker'.at = "idle"
      /\ UNCHANGED <<now, revocations, rqueue>>
      /\ \A f \in Revocation : f # v => rtimers'[f] = rtimers[f]
  BY IdleTypes DEF RequeueRevocation, TypeOK
<1>2. CopyDated'
  BY <1>1 DEF CopyDated
<1>3. \A f \in Revocation : f # v /\ RSettled(f)' => RSettled(f)
  BY <1>1 DEF RSettled
<1>4. ASSUME RSettled(v)'
      PROVE  Scheduled(v)'
  <2>1. revocations'[v] = read /\ (read.active \/ read.expiresAt <= now)
    BY <1>1, <1>4 DEF RSettled, CopyDated
  <2>2. read.expiresAt = read.created + read.ttl /\ read.expiresAt \in Nat /\ now \in Nat
    BY <1>1, PolicyTimes, NaturalTimes DEF TypeOK
  <2>3. now < read.expiresAt =>
          /\ rtimers'[v] = Sooner(rtimers[v], read.expiresAt)
          /\ rtimers[v] \in Nat \cup {None}
    BY <2>2 DEF RequeueRevocation, TypeOK
  <2>4. now < read.expiresAt => rtimers'[v] # None /\ rtimers'[v] <= read.expiresAt
    BY <2>2, <2>3, RevocationConstants DEF Sooner
  <2> QED
    BY <1>1, <2>1, <2>2, <2>4 DEF Scheduled
<1> QED
  BY <1>1, <1>2, <1>3, <1>4, ScheduledParts, ScheduledKept

\* The others: a write of a policy enqueues it.
LEMMA OthersKeepRInv ==
    ASSUME RInv, Others
    PROVE  CopyDated' /\ ExpiryScheduled'
<1> USE DEF RInv
<1>1. ASSUME NEW v \in Revocation, NEW new, WriteRevocation(v, new)
      PROVE  CopyDated' /\ ExpiryScheduled'
  <2>1. /\ UNCHANGED <<now, rtimers>> /\ rqueue' = rqueue \cup {v}
        /\ rworker'.at = rworker.at /\ rworker'.on = rworker.on /\ rworker'.read = rworker.read
        /\ rworker'.stale = (rworker.stale \/ rworker.on = v)
        /\ \A f \in Revocation : f # v => revocations'[f] = revocations[f]
        /\ rworker.at # "idle" => rworker.on \in Revocation
    BY <1>1 DEF WriteRevocation, TypeOK
  <2>2. CopyDated'
    BY <2>1 DEF CopyDated
  <2>3. \A f \in Revocation : RSettled(f)' => f # v /\ RSettled(f)
    BY <2>1 DEF RSettled
  <2> QED
    BY <2>1, <2>2, <2>3, ScheduledParts, ScheduledKept
<1>2. ASSUME NEW e \in Evidence, NEW new, WriteEvidence(e, new)
      PROVE  CopyDated' /\ ExpiryScheduled'
  BY <1>2 DEF WriteEvidence, rvars, CopyDated, ExpiryScheduled, RSettled
<1>3. CASE Restart
  BY <1>3, IdleTypes DEF Restart, CopyDated, ExpiryScheduled, RSettled
<1>4. CASE Tick
  <2>1. /\ now' = now + 1 /\ now \in Nat /\ UNCHANGED <<revocations, rqueue, rtimers, rworker>>
    BY <1>4, NaturalTimes DEF Tick, rvars, TypeOK
  <2>2. rworker.at # "idle" => rworker.read.expiresAt \in Nat
    <3>1. rworker.at # "idle" => /\ rworker.read \in RevocationObject
                                 /\ rworker.read.expiresAt
                                       = rworker.read.created + rworker.read.ttl
      BY DEF TypeOK
    <3> QED
      BY <3>1, PolicyTimes
  <2>3. CopyDated'
    BY <2>1, <2>2 DEF CopyDated
  <2>4. ASSUME NEW f \in Revocation, revocations[f] # None, Scheduled(f)
        PROVE  Scheduled(f)'
    <3>1. revocations[f].expiresAt \in Nat
      BY <2>4, PolicyTimes DEF Scheduled, TypeOK
    <3> QED
      BY <2>1, <2>4, <3>1 DEF Scheduled
  <2>5. \A f \in Revocation : RSettled(f)' => RSettled(f)
    BY <2>1 DEF RSettled
  <2> QED
    BY <2>1, <2>3, <2>4, <2>5, ScheduledParts
<1> QED
  BY <1>1, <1>2, <1>3, <1>4, OthersWrite

\* A settled policy has the expiry of its current TTL and a timer that fires in time, for
\* all constants.
THEOREM ExpiryIsScheduled == Spec => []ExpiryScheduled
<1>1. Init => RInv
  <2>1. Init => TypeOK
    BY TypeParts, IdleTypes, RevocationConstants DEF Init, RTypeOK, ETypeOK, Time
  <2> QED
    BY <2>1, IdleTypes DEF Init, RInv, CopyDated, ExpiryScheduled
<1>2. RInv /\ [Next]_vars => RInv'
  <2> SUFFICES ASSUME RInv, [Next]_vars
               PROVE  RInv'
    OBVIOUS
  <2>1. CASE UNCHANGED vars
    BY <2>1 DEF vars, rvars, evars, RInv, TypeOK, CopyDated, ExpiryScheduled, RSettled
  <2>2. CASE ReconcileRevocation
    <3>1. TypeOK'
      BY <2>2, RevocationTypes DEF RInv
    <3> QED
      BY <2>2, <3>1, GetKeepsRInv, UpdateKeepsRInv, RequeueKeepsRInv
      DEF RInv, ReconcileRevocation
  <2>3. CASE ReconcileEvidence
    <3>1. TypeOK' /\ UNCHANGED <<now, rvars>>
      BY <2>3, EvidenceTypes DEF RInv
    <3> QED
      BY <3>1 DEF RInv, rvars, CopyDated, ExpiryScheduled, RSettled
  <2>4. CASE Others
    BY <2>4, OthersTypes, OthersKeepRInv DEF RInv
  <2> QED
    BY <2>1, <2>2, <2>3, <2>4 DEF Next
<1>3. RInv => ExpiryScheduled
  BY DEF RInv
<1> QED
  BY <1>1, <1>2, <1>3, PTL DEF Spec

-----------------------------------------------------------------------------
\* Revocation implements Attestations.

\* A view shows the parts of the evidence, and is not None.
LEMMA ViewOfEvidence ==
    ASSUME NEW ev \in EvidenceObject
    PROVE  /\ View(ev) = [spec |-> [simulated |-> ev.simulated, signed |-> ev.signed],
                          verified |-> ev.verified, revoked |-> ev.revoked,
                          lastVerified |-> ev.lastVerified]
           /\ View(ev) # None
           /\ View(ev).spec = [simulated |-> ev.simulated, signed |-> ev.signed]
           /\ View(ev).verified = ev.verified /\ View(ev).revoked = ev.revoked
           /\ View(ev).lastVerified = ev.lastVerified
<1>1. View(ev) = [spec |-> [simulated |-> ev.simulated, signed |-> ev.signed],
                  verified |-> ev.verified, revoked |-> ev.revoked,
                  lastVerified |-> ev.lastVerified]
  BY NoneIsNoObject DEF View
<1>2. View(ev) \in EvidenceView
  BY <1>1 DEF EvidenceObject, EvidenceView
<1> QED
  BY <1>1, <1>2, NoneIsNoObject

\* A write of one piece of evidence is a write of its view.
LEMMA WriteOfView ==
    ASSUME TypeOK, NEW e \in Evidence, NEW new, evidence' = [evidence EXCEPT ![e] = new]
    PROVE  Visible' = [Visible EXCEPT ![e] = View(new)] /\ Visible[e] = View(evidence[e])
<1>1. Visible' = [f \in Evidence |-> View(evidence'[f])]
  BY DEF Visible
<1>2. \A f \in Evidence : evidence'[f] = IF f = e THEN new ELSE evidence[f]
  BY DEF TypeOK
<1>3. \A f \in Evidence : View(evidence'[f]) = IF f = e THEN View(new) ELSE Visible[f]
  BY <1>2 DEF Visible
<1>4. Visible[e] = View(evidence[e]) /\ DOMAIN Visible = Evidence
  BY DEF Visible
<1> QED
  BY <1>1, <1>3, <1>4

\* What the others do to the evidence maps to a step of Attestations.
LEMMA OthersMap ==
    ASSUME TypeOK, Others
    PROVE  [A!Next]_<<now, Visible>>
<1>1. \A e \in Evidence : evidence[e] # None => evidence[e] \in EvidenceObject
  BY DEF TypeOK
<1>2. ASSUME NEW e \in Evidence, NEW simulated \in BOOLEAN, NEW signed \in BOOLEAN,
             CreateEvidence(e, simulated, signed)
      PROVE  \E spec \in [simulated : BOOLEAN, signed : BOOLEAN] : A!WriteSpec(e, spec)
  <2> DEFINE new == [simulated |-> simulated, signed |-> signed, verified |-> FALSE,
                     revoked |-> FALSE, lastVerified |-> None]
             spec == [simulated |-> simulated, signed |-> signed]
  <2>1. evidence[e] = None /\ evidence' = [evidence EXCEPT ![e] = new] /\ now' = now
    BY <1>2 DEF CreateEvidence, WriteEvidence
  <2>2. Visible' = [Visible EXCEPT ![e] = View(new)] /\ Visible[e] = None
    <3>1. View(None) = None
      BY DEF View
    <3> HIDE DEF new
    <3> QED
      BY <2>1, <3>1, WriteOfView
  <2>3. View(new) = [spec |-> spec, verified |-> FALSE, revoked |-> FALSE, lastVerified |-> None]
    <3>1. /\ new \in EvidenceObject /\ new.simulated = simulated /\ new.signed = signed
          /\ new.verified = FALSE /\ new.revoked = FALSE /\ new.lastVerified = None
      BY DEF EvidenceObject
    <3> HIDE DEF new
    <3>2. View(new) = [spec |-> [simulated |-> new.simulated, signed |-> new.signed],
                       verified |-> new.verified, revoked |-> new.revoked,
                       lastVerified |-> new.lastVerified]
      BY <3>1, ViewOfEvidence
    <3> QED
      BY <3>1, <3>2, Zenon
  <2>4. spec \in [simulated : BOOLEAN, signed : BOOLEAN]
    OBVIOUS
  <2> HIDE DEF new, spec
  <2>5. A!WriteSpec(e, spec)
    BY <2>1, <2>2, <2>3 DEF A!WriteSpec, A!Write
  <2> QED
    BY <2>4, <2>5
<1>3. ASSUME NEW e \in Evidence, NEW verified \in BOOLEAN, Attest(e, verified)
      PROVE  A!Appraise(e, verified)
  <2> PICK old \in EvidenceObject : old = evidence[e]
    BY <1>1, <1>3 DEF Attest
  <2> PICK new : new = [old EXCEPT !.verified = verified,
                                   !.lastVerified = IF verified THEN now ELSE @]
    OBVIOUS
  <2>1. evidence' = [evidence EXCEPT ![e] = new] /\ now' = now
    BY <1>3 DEF Attest, WriteEvidence
  <2>2. /\ new \in EvidenceObject /\ new.simulated = old.simulated /\ new.signed = old.signed
        /\ new.verified = verified /\ new.revoked = old.revoked
        /\ new.lastVerified = IF verified THEN now ELSE old.lastVerified
    BY DEF EvidenceObject, TypeOK
  <2>3. Visible' = [Visible EXCEPT ![e] = View(new)] /\ Visible[e] = View(old)
    BY <2>1, WriteOfView
  <2>4. View(new) = [spec |-> View(old).spec, verified |-> verified,
                     revoked |-> View(old).revoked,
                     lastVerified |-> IF verified THEN now ELSE View(old).lastVerified]
    <3>1. View(new) = [spec |-> [simulated |-> old.simulated, signed |-> old.signed],
                       verified |-> verified, revoked |-> old.revoked,
                       lastVerified |-> new.lastVerified]
      <4>1. View(new) = [spec |-> [simulated |-> new.simulated, signed |-> new.signed],
                         verified |-> new.verified, revoked |-> new.revoked,
                         lastVerified |-> new.lastVerified]
        BY <2>2, ViewOfEvidence
      <4>2. /\ new.simulated = old.simulated /\ new.signed = old.signed
            /\ new.verified = verified /\ new.revoked = old.revoked
        BY <2>2
      <4> QED
        BY <4>1, <4>2, Zenon
    <3>2. /\ View(old).spec = [simulated |-> old.simulated, signed |-> old.signed]
          /\ View(old).revoked = old.revoked /\ View(old).lastVerified = old.lastVerified
      BY ViewOfEvidence
    <3> QED
      BY <2>2, <3>1, <3>2, Zenon
  <2> QED
    BY <2>1, <2>3, <2>4, ViewOfEvidence DEF A!Appraise, A!Write
<1>4. ASSUME NEW e \in Evidence, TouchEvidence(e)
      PROVE  UNCHANGED <<now, Visible>>
  <2>1. evidence' = evidence /\ now' = now
    BY <1>4 DEF TouchEvidence, WriteEvidence, TypeOK
  <2> QED
    BY <2>1 DEF Visible
<1>5. ASSUME NEW e \in Evidence, DeleteEvidence(e)
      PROVE  A!Delete(e)
  BY <1>5, WriteOfView DEF DeleteEvidence, WriteEvidence, View, A!Delete, A!Write
<1>6. ASSUME NEW v \in Revocation, NEW new, WriteRevocation(v, new)
      PROVE  UNCHANGED <<now, Visible>>
  BY <1>6 DEF WriteRevocation, evars, Visible
<1>7. CASE Restart
  BY <1>7 DEF Restart, Visible
<1>8. ASSUME Tick
      PROVE  A!Tick
  BY <1>8 DEF Tick, evars, Visible, A!Tick
<1>9. ASSUME NEW v \in Revocation, NEW ttl \in TTLs,
             \/ EditTTL(v, ttl)
             \/ \E e \in Evidence \cup {None} : CreateRevocation(v, e, ttl)
      PROVE  UNCHANGED <<now, Visible>>
  BY <1>6, <1>9 DEF EditTTL, CreateRevocation
<1>10. ASSUME NEW v \in Revocation, DeleteRevocation(v)
       PROVE  UNCHANGED <<now, Visible>>
  BY <1>6, <1>10 DEF DeleteRevocation
<1> QED
  BY <1>2, <1>3, <1>4, <1>5, <1>7, <1>8, <1>9, <1>10 DEF Others, A!Next

\* The evidence reconciler's only write maps to a verdict on the revocation.
LEMMA ReconcileMaps ==
    ASSUME TypeOK, CopyCurrent, ReconcileEvidence
    PROVE  [A!Next]_<<now, Visible>>
<1>1. CASE UpdateEvidence /\ evidence' # evidence
  <2> PICK e \in Evidence : e = eworker.on
    BY <1>1 DEF UpdateEvidence, TypeOK
  <2> PICK old \in EvidenceObject : old = eworker.read
    BY <1>1 DEF UpdateEvidence, TypeOK
  <2> PICK revoked \in BOOLEAN : revoked = eworker.revoked
    BY DEF TypeOK
  <2> PICK new : new = Refreshed(old, revoked)
    OBVIOUS
  <2>1. /\ ~eworker.stale /\ evidence[e] # None /\ evidence' = [evidence EXCEPT ![e] = new]
        /\ now' = now /\ eworker.at # "idle"
    BY <1>1 DEF UpdateEvidence
  <2>2. evidence[e] = old
    BY <2>1 DEF CopyCurrent
  <2>3. /\ new \in EvidenceObject /\ new.simulated = old.simulated /\ new.signed = old.signed
        /\ new.revoked = revoked /\ (new.verified => ~new.revoked)
        /\ new.lastVerified = IF new.verified THEN now ELSE old.lastVerified
    BY RefreshedType
  <2>4. Visible' = [Visible EXCEPT ![e] = View(new)] /\ Visible[e] = View(old)
    BY <2>1, <2>2, WriteOfView
  <2> PICK verified \in BOOLEAN : verified = new.verified
    BY <2>3 DEF EvidenceObject
  <2>5. View(new) = [spec |-> View(old).spec, verified |-> verified, revoked |-> revoked,
                     lastVerified |-> IF verified THEN now ELSE View(old).lastVerified]
    <3>1. View(new) = [spec |-> [simulated |-> old.simulated, signed |-> old.signed],
                       verified |-> verified, revoked |-> revoked,
                       lastVerified |-> new.lastVerified]
      BY <2>3, ViewOfEvidence, Zenon
    <3>2. /\ View(old).spec = [simulated |-> old.simulated, signed |-> old.signed]
          /\ View(old).lastVerified = old.lastVerified
      BY ViewOfEvidence
    <3> QED
      BY <2>3, <3>1, <3>2, Zenon
  <2>6. A!Refresh(e, revoked, verified)
    BY <2>1, <2>3, <2>4, <2>5, ViewOfEvidence DEF A!Refresh, A!Write
  <2> QED
    BY <2>6 DEF A!Next
<1>2. CASE ~(UpdateEvidence /\ evidence' # evidence)
  <2>1. UNCHANGED <<now, evidence>>
    BY <1>2 DEF ReconcileEvidence, GetEvidence, EvidenceDue, ListRevocations, UpdateEvidence
  <2> QED
    BY <2>1 DEF Visible
<1> QED
  BY <1>1, <1>2

\* The manager keeps the contract of AttestationEvidence, for all constants.
THEOREM RevocationImplementsAttestations == Spec => ImplementsAttestations
<1>1. Init => A!Init
  BY DEF Init, A!Init, Visible, View
<1>2. EInv /\ [Next]_vars => [A!Next]_<<now, Visible>>
  <2> SUFFICES ASSUME EInv, [Next]_vars
               PROVE  [A!Next]_<<now, Visible>>
    OBVIOUS
  <2>1. CASE UNCHANGED vars
    BY <2>1 DEF vars, evars, Visible
  <2>2. CASE ReconcileRevocation
    <3>1. UNCHANGED <<now, evidence>>
      BY <2>2, RevocationTypes DEF EInv, evars
    <3> QED
      BY <3>1 DEF Visible
  <2>3. CASE ReconcileEvidence
    BY <2>3, ReconcileMaps DEF EInv
  <2>4. CASE Others
    BY <2>4, OthersMap DEF EInv
  <2> QED
    BY <2>1, <2>2, <2>3, <2>4 DEF Next
<1> QED
  BY <1>1, <1>2, EInvHolds, PTL DEF Spec, ImplementsAttestations, A!Spec
=============================================================================
