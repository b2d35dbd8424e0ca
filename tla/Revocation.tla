----------------------------- MODULE Revocation -----------------------------
(***************************************************************************)
(* Revocation in the manager: the AIRevocationPolicy reconciler dates and  *)
(* expires the policies, and the AttestationEvidence reconciler (started   *)
(* with AIOPS_ENABLE_LEGACY_EVIDENCE_RECONCILER) revokes and refreshes the *)
(* evidence they name (internal/controller/airevocationpolicy_controller.go*)
(* and attestationevidence_controller.go).                                 *)
(*                                                                         *)
(* Each is one worker on its own workqueue.  A reconcile reads, computes   *)
(* and writes in separate steps; its status update is refused when the     *)
(* object was written since it was read.  A write that changes an object   *)
(* is an event that enqueues the object with its own controller.           *)
(***************************************************************************)
EXTENDS Integers

CONSTANTS
    Revocation,     \* names of AIRevocationPolicies
    Evidence,       \* names of AttestationEvidences
    TTLs,           \* the values of ttlSeconds users write
    MaxTime,        \* bound: last value of the clock
    MaxEdits,       \* bound: writes by users and the verifier, and restarts
    None            \* nil and NotFound

Time == 0 .. MaxTime

ASSUME RevocationConstants ==
    /\ TTLs \subseteq Nat \ {0} /\ MaxTime \in Nat /\ MaxEdits \in Nat
    /\ None \notin Revocation \cup Evidence \cup Int

VARIABLES
    now,
    revocations,    \* Revocation -> AIRevocationPolicy, or None
    evidence,       \* Evidence -> AttestationEvidence, or None
    rqueue,         \* workqueue of the revocation reconciler
    rtimers,        \* Revocation -> when it is due to be requeued, or None
    rworker,        \* [at, on, read, stale]: its step, object, copy, conflict
    equeue,         \* workqueue of the evidence reconciler
    etimers,        \* evidence waiting for its periodic refresh
    eworker,        \* [at, on, read, stale, revoked]
    edits           \* how many bounded events have happened

rvars == <<revocations, rqueue, rtimers, rworker>>
evars == <<evidence, equeue, etimers, eworker>>
vars == <<now, rvars, evars, edits>>

RIdle == [at |-> "idle", on |-> None, read |-> None, stale |-> FALSE]
EIdle == [at |-> "idle", on |-> None, read |-> None, stale |-> FALSE, revoked |-> FALSE]

Init ==
    /\ now = 0 /\ edits = 0
    /\ revocations = [v \in Revocation |-> None]
    /\ evidence = [e \in Evidence |-> None]
    /\ rqueue = {} /\ rtimers = [v \in Revocation |-> None] /\ rworker = RIdle
    /\ equeue = {} /\ etimers = {} /\ eworker = EIdle

Count == edits < MaxEdits /\ edits' = edits + 1

-----------------------------------------------------------------------------
\* The AIRevocationPolicy reconciler.

\* The status of a policy: it is active before its expiry.
Dated(policy) ==
    LET expiresAt == policy.created + policy.ttl
    IN  [policy EXCEPT !.expiresAt = expiresAt, !.active = now < expiresAt]

\* Get the policy and compute its status.
GetRevocation(v) ==
    /\ rworker.at = "idle" /\ v \in rqueue
    /\ rqueue' = rqueue \ {v}
    /\ rworker' = IF revocations[v] = None THEN RIdle
                  ELSE [at |-> "write", on |-> v, read |-> Dated(revocations[v]), stale |-> FALSE]
    /\ UNCHANGED <<now, revocations, rtimers, evars, edits>>

\* Status().Update: a conflict or a deletion is an error, and is retried.
UpdateRevocation ==
    LET v == rworker.on
    IN  /\ rworker.at = "write"
        /\ IF rworker.stale \/ revocations[v] = None
           THEN /\ rqueue' = rqueue \cup {v} /\ rworker' = RIdle
                /\ UNCHANGED revocations
           ELSE /\ revocations' = [revocations EXCEPT ![v] = rworker.read]
                /\ rqueue' = IF revocations' = revocations THEN rqueue ELSE rqueue \cup {v}
                /\ rworker' = [rworker EXCEPT !.at = "requeue"]
        /\ UNCHANGED <<now, rtimers, evars, edits>>

\* The workqueue keeps the earlier of two due times of an object.
Sooner(old, t) == IF old = None \/ t < old THEN t ELSE old

\* Mutant: requeue after the full window instead of what is left of it.
RequeueAfterTTL ==
    LET v == rworker.on
    IN  /\ rworker.at = "requeue"
        /\ rtimers' = [rtimers EXCEPT ![v] = Sooner(@, now + rworker.read.ttl)]
        /\ rworker' = RIdle
        /\ UNCHANGED <<now, revocations, rqueue, evars, edits>>

\* Return RequeueAfter: time.Until(expiresAt); a duration that is not positive
\* requeues nothing.
RequeueRevocation ==
    LET v == rworker.on
    IN  /\ rworker.at = "requeue"
        /\ rtimers' = IF rworker.read.expiresAt > now
                      THEN [rtimers EXCEPT ![v] = Sooner(@, rworker.read.expiresAt)]
                      ELSE rtimers
        /\ rworker' = RIdle
        /\ UNCHANGED <<now, revocations, rqueue, evars, edits>>

RevocationDue(v) ==
    /\ rtimers[v] # None /\ rtimers[v] <= now
    /\ rtimers' = [rtimers EXCEPT ![v] = None]
    /\ rqueue' = rqueue \cup {v}
    /\ UNCHANGED <<now, revocations, rworker, evars, edits>>

-----------------------------------------------------------------------------
\* The AttestationEvidence reconciler.

\* Mutant: a policy that has not been dated yet does not revoke.
RevokedByDated(e) ==
    \E v \in Revocation :
        /\ revocations[v] # None /\ revocations[v].target = e
        /\ revocations[v].expiresAt # None /\ revocations[v].expiresAt >= now

\* Revoked by a policy that names the evidence and is not known to have expired.
isEvidenceRevoked(e) ==
    \E v \in Revocation :
        /\ revocations[v] # None /\ revocations[v].target = e
        /\ revocations[v].expiresAt # None => revocations[v].expiresAt >= now

GetEvidence(e) ==
    /\ eworker.at = "idle" /\ e \in equeue
    /\ equeue' = equeue \ {e}
    /\ eworker' = IF evidence[e] = None THEN EIdle
                  ELSE [at |-> "list", on |-> e, read |-> evidence[e],
                        stale |-> FALSE, revoked |-> FALSE]
    /\ UNCHANGED <<now, evidence, etimers, rvars, edits>>

ListRevocations ==
    /\ eworker.at = "list"
    /\ eworker' = [eworker EXCEPT !.at = "write", !.revoked = isEvidenceRevoked(eworker.on)]
    /\ UNCHANGED <<now, evidence, equeue, etimers, rvars, edits>>

\* Mutant: revocation does not withdraw the verdict.
RefreshedAnyway(ev, revoked) ==
    LET verified == ev.simulated \/ ev.signed
    IN  [ev EXCEPT !.revoked = revoked, !.verified = verified,
                   !.lastVerified = IF verified THEN now ELSE @]

\* The status written: simulated evidence and evidence with a digest or a
\* signature is verified as of now, unless revoked.
Refreshed(ev, revoked) ==
    LET verified == ~revoked /\ (ev.simulated \/ ev.signed)
    IN  [ev EXCEPT !.revoked = revoked, !.verified = verified,
                   !.lastVerified = IF verified THEN now ELSE @]

\* Mutant: the update carries no resourceVersion.
UpdateEvidenceUnlocked ==
    LET e == eworker.on
        new == Refreshed(eworker.read, eworker.revoked)
    IN  /\ eworker.at = "write"
        /\ IF evidence[e] = None
           THEN equeue' = equeue \cup {e} /\ UNCHANGED <<evidence, etimers>>
           ELSE /\ evidence' = [evidence EXCEPT ![e] = new]
                /\ equeue' = IF evidence' = evidence THEN equeue ELSE equeue \cup {e}
                /\ etimers' = IF new.verified /\ new.simulated
                              THEN etimers \cup {e} ELSE etimers
        /\ eworker' = EIdle
        /\ UNCHANGED <<now, rvars, edits>>

\* Status().Update, then the periodic refresh of simulated evidence.
UpdateEvidence ==
    LET e == eworker.on
        new == Refreshed(eworker.read, eworker.revoked)
    IN  /\ eworker.at = "write"
        /\ IF eworker.stale \/ evidence[e] = None
           THEN equeue' = equeue \cup {e} /\ UNCHANGED <<evidence, etimers>>
           ELSE /\ evidence' = [evidence EXCEPT ![e] = new]
                /\ equeue' = IF evidence' = evidence THEN equeue ELSE equeue \cup {e}
                /\ etimers' = IF new.verified /\ new.simulated
                              THEN etimers \cup {e} ELSE etimers
        /\ eworker' = EIdle
        /\ UNCHANGED <<now, rvars, edits>>

EvidenceDue(e) ==
    /\ e \in etimers
    /\ etimers' = etimers \ {e} /\ equeue' = equeue \cup {e}
    /\ UNCHANGED <<now, evidence, eworker, rvars, edits>>

-----------------------------------------------------------------------------
\* Users, the verifier, restarts and time.

\* Somebody else writes an object: an event, and a conflict for a reconcile that
\* has read it.
WriteRevocation(v, new) ==
    /\ revocations' = [revocations EXCEPT ![v] = new]
    /\ rqueue' = rqueue \cup {v}
    /\ rworker' = [rworker EXCEPT !.stale = @ \/ rworker.on = v]
    /\ Count
    /\ UNCHANGED <<now, rtimers, evars>>

WriteEvidence(e, new) ==
    /\ evidence' = [evidence EXCEPT ![e] = new]
    /\ equeue' = equeue \cup {e}
    /\ eworker' = [eworker EXCEPT !.stale = @ \/ eworker.on = e]
    /\ Count
    /\ UNCHANGED <<now, etimers, rvars>>

CreateRevocation(v, target, ttl) ==
    /\ revocations[v] = None
    /\ WriteRevocation(v, [target |-> target, ttl |-> ttl, created |-> now,
                           expiresAt |-> None, active |-> FALSE])

EditTTL(v, ttl) ==
    /\ revocations[v] # None /\ revocations[v].ttl # ttl
    /\ WriteRevocation(v, [revocations[v] EXCEPT !.ttl = ttl])

DeleteRevocation(v) == revocations[v] # None /\ WriteRevocation(v, None)

CreateEvidence(e, simulated, signed) ==
    /\ evidence[e] = None
    /\ WriteEvidence(e, [simulated |-> simulated, signed |-> signed, verified |-> FALSE,
                         revoked |-> FALSE, lastVerified |-> None])

\* Labels or fields no reconciler reads.
TouchEvidence(e) == evidence[e] # None /\ WriteEvidence(e, evidence[e])

DeleteEvidence(e) == evidence[e] # None /\ WriteEvidence(e, None)

\* The verifier appraises a new report of the node.
Attest(e, verified) ==
    /\ evidence[e] # None
    /\ WriteEvidence(e, [evidence[e] EXCEPT
            !.verified = verified, !.lastVerified = IF verified THEN now ELSE @])

\* The manager restarts: its informers list every object.
Restart ==
    /\ Count
    /\ rworker' = RIdle /\ eworker' = EIdle
    /\ rqueue' = {v \in Revocation : revocations[v] # None}
    /\ equeue' = {e \in Evidence : evidence[e] # None}
    /\ rtimers' = [v \in Revocation |-> None] /\ etimers' = {}
    /\ UNCHANGED <<now, revocations, evidence>>

Tick ==
    /\ now < MaxTime
    /\ now' = now + 1
    /\ UNCHANGED <<rvars, evars, edits>>

-----------------------------------------------------------------------------
ReconcileRevocation ==
    \/ \E v \in Revocation : GetRevocation(v) \/ RevocationDue(v)
    \/ UpdateRevocation \/ RequeueRevocation

ReconcileEvidence ==
    \/ \E e \in Evidence : GetEvidence(e) \/ EvidenceDue(e)
    \/ ListRevocations \/ UpdateEvidence

Others ==
    \/ \E v \in Revocation :
          \/ \E ttl \in TTLs :
                \/ EditTTL(v, ttl)
                \/ \E e \in Evidence \cup {None} : CreateRevocation(v, e, ttl)
          \/ DeleteRevocation(v)
    \/ \E e \in Evidence :
          \/ \E simulated \in BOOLEAN, signed \in BOOLEAN : CreateEvidence(e, simulated, signed)
          \/ \E verified \in BOOLEAN : Attest(e, verified)
          \/ TouchEvidence(e) \/ DeleteEvidence(e)
    \/ Restart
    \/ Tick

Next == ReconcileRevocation \/ ReconcileEvidence \/ Others

Spec == Init /\ [][Next]_vars

-----------------------------------------------------------------------------
RevocationObject == [target : Evidence \cup {None}, ttl : TTLs, created : Time,
                     expiresAt : Nat \cup {None}, active : BOOLEAN]
EvidenceObject == [simulated : BOOLEAN, signed : BOOLEAN, verified : BOOLEAN,
                   revoked : BOOLEAN, lastVerified : Time \cup {None}]

\* What the readers of evidence see of it.
EvidenceView == [spec : [simulated : BOOLEAN, signed : BOOLEAN], verified : BOOLEAN,
                 revoked : BOOLEAN, lastVerified : Time \cup {None}]

ASSUME NoneIsNoObject == None \notin RevocationObject \cup EvidenceObject \cup EvidenceView

\* The objects have the shape of their CRDs; a reconciler holds a copy of an object
\* exactly while it works on it.
TypeOK ==
    /\ now \in Time /\ edits \in 0 .. MaxEdits
    /\ revocations \in [Revocation -> RevocationObject \cup {None}]
    /\ evidence \in [Evidence -> EvidenceObject \cup {None}]
    /\ rqueue \subseteq Revocation /\ equeue \subseteq Evidence /\ etimers \subseteq Evidence
    /\ rtimers \in [Revocation -> Nat \cup {None}]
    /\ rworker \in [at : {"idle", "write", "requeue"}, on : Revocation \cup {None},
                    read : RevocationObject \cup {None}, stale : BOOLEAN]
    /\ rworker.at # "idle" => /\ rworker.on # None /\ rworker.read # None
                              /\ rworker.read.expiresAt = rworker.read.created + rworker.read.ttl
    /\ eworker \in [at : {"idle", "list", "write"}, on : Evidence \cup {None},
                    read : EvidenceObject \cup {None}, stale : BOOLEAN, revoked : BOOLEAN]
    /\ eworker.at # "idle" => eworker.on # None /\ eworker.read # None

\* A reconciler has nothing to do for an object, now or through an event.
RSettled(v) == v \notin rqueue /\ (rworker.at # "idle" => rworker.on # v)
ESettled(e) == e \notin equeue /\ (eworker.at # "idle" => eworker.on # e)

\* A settled policy carries the expiry that its current TTL gives it, and as long
\* as it has not been reached a timer is set that fires no later: edits of the TTL,
\* conflicts and restarts lose neither.
ExpiryScheduled ==
    \A v \in Revocation : RSettled(v) /\ revocations[v] # None =>
        /\ revocations[v].expiresAt = revocations[v].created + revocations[v].ttl
        /\ now < revocations[v].expiresAt =>
              /\ revocations[v].active
              /\ rtimers[v] # None /\ rtimers[v] <= revocations[v].expiresAt

\* Settled evidence is never both revoked and verified, although the verifier
\* writes its verdict without looking at the revocation.
RevokedNotVerified ==
    \A e \in Evidence : ESettled(e) /\ evidence[e] # None =>
        ~(evidence[e].revoked /\ evidence[e].verified)

\* Evidence is un-revoked only by a reconcile at whose List every policy that names
\* it had been dated and had run out: a policy the other reconciler has not seen
\* yet already revokes.
LiftedOnlyAtExpiry ==
    [][ListRevocations /\ ~eworker'.revoked =>
          \A v \in Revocation :
              revocations[v] # None /\ revocations[v].target = eworker.on =>
                  revocations[v].expiresAt # None /\ revocations[v].expiresAt < now]_vars

\* The evidence as its readers see it.
View(ev) ==
    IF ev = None THEN None ELSE
    [spec |-> [simulated |-> ev.simulated, signed |-> ev.signed], verified |-> ev.verified,
     revoked |-> ev.revoked, lastVerified |-> ev.lastVerified]

Visible == [e \in Evidence |-> View(evidence[e])]

A == INSTANCE Attestations
     WITH Specs <- [simulated : BOOLEAN, signed : BOOLEAN], evidence <- Visible

\* The evidence reconciler keeps the contract of AttestationEvidence: what it writes
\* from a copy it read earlier never undoes a verdict written in between.
ImplementsAttestations == A!Spec

-----------------------------------------------------------------------------
\* What the documentation says and the code does not do.

Quiet == (\A v \in Revocation : RSettled(v)) /\ (\A e \in Evidence : ESettled(e))

\* "Revoque un noeud ou une decision pendant une duree bornee" (README.md): when the
\* reconcilers are through, evidence named by a policy in its window is revoked.
RevocationTakesEffect ==
    Quiet => \A v \in Revocation, e \in Evidence :
        /\ revocations[v] # None /\ evidence[e] # None
        /\ revocations[v].target = e /\ now < revocations[v].created + revocations[v].ttl
        => evidence[e].revoked

\* "avec reevaluation automatique a expiration" (README.md): when the reconcilers
\* are through, evidence is revoked only by a policy in its window.
RevocationEnds ==
    Quiet => \A e \in Evidence : evidence[e] # None /\ evidence[e].revoked =>
        \E v \in Revocation :
            /\ revocations[v] # None /\ revocations[v].target = e
            /\ now <= revocations[v].created + revocations[v].ttl

\* "Real (non-simulated) evidence is NOT auto-refreshed here - its freshness must
\* come from genuine re-attestation" (attestationevidence_controller.go).
RealNotRefreshed ==
    [][UpdateEvidence => \A e \in Evidence :
          /\ evidence[e] # None /\ ~evidence[e].simulated
          /\ evidence[e].lastVerified # None
          => evidence'[e].lastVerified = evidence[e].lastVerified]_vars

=============================================================================
