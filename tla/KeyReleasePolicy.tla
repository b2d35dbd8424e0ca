-------------------------- MODULE KeyReleasePolicy --------------------------
(***************************************************************************)
(* The AIKeyReleasePolicy reconciler of the manager                        *)
(* (internal/controller/aikeyreleasepolicy_controller.go): it evaluates    *)
(* the key release rule on the evidence a policy refers to, and publishes  *)
(* the outcome in the status of the policy.                                *)
(*                                                                         *)
(* One worker; a reconcile reads the policy, reads the evidence and writes *)
(* the status in separate steps.  Only events of the policies enqueue.     *)
(***************************************************************************)
EXTENDS KeyRelease

CONSTANTS
    Policy,         \* names of AIKeyReleasePolicies
    Evidence,       \* names of AttestationEvidences
    TTLs,           \* values of keyRelease.ttlSeconds
    MaxClock,       \* bound: last value of the clock
    MaxEdits        \* bound: writes by users and the verifier, failures, restarts

ASSUME KeyReleasePolicyConstants ==
    /\ TTLs \subseteq Int /\ MaxClock \in Nat /\ MaxEdits \in Nat
    /\ None \notin Policy \cup Evidence \cup Int

VARIABLES
    clock,          \* of the manager
    policies,       \* Policy -> AIKeyReleasePolicy, or None
    evidence,       \* Evidence -> [verified, revoked], or None
    queue,          \* workqueue
    worker,         \* [at, on, read, stale, ev]: step, object, copy, conflict, evidence read
    edits,
    wasGood         \* history: since the policy's spec was last written, its evidence was
                    \* at some time verified and not revoked

policyVars == <<clock, policies, evidence, queue, worker, edits, wasGood>>

Idle == [at |-> "idle", on |-> None, read |-> None, stale |-> FALSE, ev |-> None]

PolicyInit ==
    /\ clock = 0 /\ edits = 0
    /\ policies = [k \in Policy |-> None] /\ evidence = [e \in Evidence |-> None]
    /\ queue = {} /\ worker = Idle
    /\ wasGood = [k \in Policy |-> FALSE]

Good(ev) == ev # None /\ ev.verified /\ ~ev.revoked
Count == edits < MaxEdits /\ edits' = edits + 1

-----------------------------------------------------------------------------
Get(k) ==
    /\ worker.at = "idle" /\ k \in queue
    /\ queue' = queue \ {k}
    /\ worker' = IF policies[k] = None THEN Idle
                 ELSE [Idle EXCEPT !.at = "evidence", !.on = k, !.read = policies[k]]
    /\ UNCHANGED <<clock, policies, evidence, edits, wasGood>>

\* Mutant: a policy without evidence is skipped.
resolveEvidenceStateIfAny ==
    LET ref == worker.read.evidenceRef
    IN  /\ worker.at = "evidence"
        /\ IF ref = None \/ evidence[ref] = None
           THEN worker' = Idle
           ELSE worker' = [worker EXCEPT !.at = "write", !.ev = evidence[ref]]
        /\ UNCHANGED <<clock, policies, evidence, queue, edits, wasGood>>

\* No reference is unverified evidence; a reference to nothing is an error, retried.
resolveEvidenceState ==
    LET ref == worker.read.evidenceRef
    IN  /\ worker.at = "evidence"
        /\ IF ref # None /\ evidence[ref] = None
           THEN /\ queue' = queue \cup {worker.on} /\ worker' = Idle
           ELSE /\ worker' = [worker EXCEPT !.at = "write",
                       !.ev = IF ref = None THEN [verified |-> FALSE, revoked |-> FALSE]
                              ELSE evidence[ref]]
                /\ UNCHANGED queue
        /\ UNCHANGED <<clock, policies, evidence, edits, wasGood>>

\* Mutant: only the verdict on the evidence is passed on.
DecideVerified(policy, ev) ==
    Evaluate([required |-> policy.required, ttl |-> policy.ttl, verified |-> ev.verified,
              revoked |-> FALSE, revocationActive |-> FALSE, lastSeen |-> None,
              maxAge |-> 0, token |-> None, audit |-> FALSE, evidenceHash |-> None],
             None, clock).allowed

\* The request the reconciler evaluates has no token, no age and no audit part.
Decide(policy, ev) ==
    Evaluate([required |-> policy.required, ttl |-> policy.ttl, verified |-> ev.verified,
              revoked |-> ev.revoked, revocationActive |-> FALSE, lastSeen |-> None,
              maxAge |-> 0, token |-> None, audit |-> FALSE, evidenceHash |-> None],
             None, clock).allowed

\* Mutant: the decision is not dated.
StatusUndated(policy) ==
    [policy EXCEPT !.observed = policy.generation,
                   !.lastDecision = IF Decide(policy, worker.ev) THEN "allow" ELSE "deny"]

StatusOf(policy) ==
    [policy EXCEPT !.observed = policy.generation,
                   !.lastDecision = IF Decide(policy, worker.ev) THEN "allow" ELSE "deny",
                   !.lastDecisionTime = clock]

\* Status().Update: a conflict or a deletion is an error, and is retried; a write
\* that changes the status is an event of the policy.
UpdateStatus ==
    LET k == worker.on
    IN  /\ worker.at = "write"
        /\ IF worker.stale \/ policies[k] = None
           THEN queue' = queue \cup {k} /\ UNCHANGED policies
           ELSE /\ policies' = [policies EXCEPT ![k] = StatusOf(worker.read)]
                /\ queue' = IF policies' = policies THEN queue ELSE queue \cup {k}
        /\ worker' = Idle
        /\ UNCHANGED <<clock, evidence, edits, wasGood>>

\* Mutant: the error of a failed call is dropped.
CallFailsQuietly ==
    /\ worker.at # "idle" /\ Count
    /\ worker' = Idle
    /\ UNCHANGED <<clock, policies, evidence, queue, wasGood>>

\* A call to the API server fails: the error is returned, and the reconcile retried.
CallFails ==
    /\ worker.at # "idle" /\ Count
    /\ queue' = queue \cup {worker.on} /\ worker' = Idle
    /\ UNCHANGED <<clock, policies, evidence, wasGood>>

-----------------------------------------------------------------------------
\* Users, the verifier, restarts and time.

RefGood(policy, ev) ==
    policy # None /\ policy.evidenceRef # None /\ Good(ev[policy.evidenceRef])

WritePolicy(k, new) ==
    /\ policies' = [policies EXCEPT ![k] = new]
    /\ queue' = queue \cup {k}
    /\ worker' = [worker EXCEPT !.stale = @ \/ worker.on = k]
    /\ wasGood' = [wasGood EXCEPT ![k] = RefGood(new, evidence)]
    /\ Count
    /\ UNCHANGED <<clock, evidence>>

CreatePolicy(k, ref, required, ttl) ==
    /\ policies[k] = None
    /\ WritePolicy(k, [evidenceRef |-> ref, required |-> required, ttl |-> ttl,
                       generation |-> 1, observed |-> 0, lastDecision |-> None,
                       lastDecisionTime |-> None])

EditPolicy(k, ref, required, ttl) ==
    /\ policies[k] # None
    /\ <<policies[k].evidenceRef, policies[k].required, policies[k].ttl>> # <<ref, required, ttl>>
    /\ WritePolicy(k, [policies[k] EXCEPT !.evidenceRef = ref, !.required = required,
                                          !.ttl = ttl, !.generation = @ + 1])

DeletePolicy(k) == policies[k] # None /\ WritePolicy(k, None)

\* The verifier or a user writes or deletes evidence: no policy is enqueued.
WriteEvidence(e, ev) ==
    /\ evidence[e] # ev
    /\ evidence' = [evidence EXCEPT ![e] = ev]
    /\ wasGood' = [k \in Policy |-> wasGood[k] \/ RefGood(policies[k], evidence')]
    /\ Count
    /\ UNCHANGED <<clock, policies, queue, worker>>

Restart ==
    /\ Count
    /\ worker' = Idle
    /\ queue' = {k \in Policy : policies[k] # None}
    /\ UNCHANGED <<clock, policies, evidence, wasGood>>

ClockTick ==
    /\ clock < MaxClock /\ clock' = clock + 1
    /\ UNCHANGED <<policies, evidence, queue, worker, edits, wasGood>>

-----------------------------------------------------------------------------
Reconcile ==
    \/ \E k \in Policy : Get(k)
    \/ resolveEvidenceState
    \/ UpdateStatus
    \/ CallFails

Others ==
    \/ \E k \in Policy :
          \/ \E ref \in Evidence \cup {None}, required \in BOOLEAN, ttl \in TTLs :
                CreatePolicy(k, ref, required, ttl) \/ EditPolicy(k, ref, required, ttl)
          \/ DeletePolicy(k)
    \/ \E e \in Evidence, ev \in [verified : BOOLEAN, revoked : BOOLEAN] \cup {None} :
          WriteEvidence(e, ev)
    \/ Restart
    \/ ClockTick

PolicyNext == Reconcile \/ Others

PolicySpec == PolicyInit /\ [][PolicyNext]_policyVars

\* The workqueue hands out every key again and again, and the worker makes progress.
Fairness ==
    /\ \A k \in Policy : SF_policyVars(Get(k))
    /\ WF_policyVars(resolveEvidenceState) /\ WF_policyVars(UpdateStatus)

FairPolicySpec == PolicySpec /\ Fairness

-----------------------------------------------------------------------------
PolicyObject == [evidenceRef : Evidence \cup {None}, required : BOOLEAN, ttl : TTLs,
                 generation : Nat \ {0}, observed : Nat,
                 lastDecision : {"allow", "deny", None},
                 lastDecisionTime : 0 .. MaxClock \cup {None}]
EvidenceState == [verified : BOOLEAN, revoked : BOOLEAN]

ASSUME NoneIsNoObject == None \notin PolicyObject \cup EvidenceState \cup {"allow", "deny"}

\* Objects have the shape of their CRDs; no status is ahead of its spec, and a
\* decision comes with its time.
PolicyTypeOK ==
    /\ clock \in 0 .. MaxClock /\ edits \in 0 .. MaxEdits
    /\ policies \in [Policy -> PolicyObject \cup {None}]
    /\ evidence \in [Evidence -> EvidenceState \cup {None}]
    /\ queue \subseteq Policy /\ wasGood \in [Policy -> BOOLEAN]
    /\ worker \in [at : {"idle", "evidence", "write"}, on : Policy \cup {None},
                   read : PolicyObject \cup {None}, stale : BOOLEAN,
                   ev : EvidenceState \cup {None}]
    /\ worker.at # "idle" => worker.on # None /\ worker.read # None
    /\ worker.at = "write" => worker.ev # None
    /\ \A k \in Policy : policies[k] # None =>
          /\ policies[k].observed <= policies[k].generation
          /\ policies[k].lastDecision = None <=> policies[k].lastDecisionTime = None

Settled(k) == k \notin queue /\ (worker.at # "idle" => worker.on # k)

\* When the reconciler is through with a policy, its status is that of its current
\* spec: no edit, conflict or restart leaves the decision of an earlier one.
SettledIsObserved ==
    \A k \in Policy : Settled(k) /\ policies[k] # None =>
        policies[k].observed = policies[k].generation

\* An "allow" for the current spec of a policy that requires key release was earned
\* under that spec: since it was written the evidence it refers to has been
\* verified and not revoked.
AllowWasEarned ==
    \A k \in Policy :
        /\ policies[k] # None /\ policies[k].required
        /\ policies[k].observed = policies[k].generation
        /\ policies[k].lastDecision = "allow"
        => wasGood[k] /\ policies[k].ttl > 0

\* Every spec is eventually decided or replaced, unless the evidence it refers to
\* is missing again and again: policies with missing evidence, which the worker
\* retries for ever, do not starve the others.
SpecDecided ==
    \A k \in Policy :
        (policies[k] # None /\ policies[k].observed < policies[k].generation)
        ~> \/ policies[k] = None
           \/ policies[k].observed = policies[k].generation
           \/ policies[k].evidenceRef # None /\ evidence[policies[k].evidenceRef] = None

-----------------------------------------------------------------------------
\* What the documentation says and the code does not do.

\* "Ne libere jamais cette cle/ce secret a un workload sans evidence d'attestation
\* valide" (README.md): a settled "allow" has valid evidence behind it.
AllowHasEvidence ==
    \A k \in Policy :
        /\ Settled(k) /\ policies[k] # None /\ policies[k].required
        /\ policies[k].lastDecision = "allow"
        => RefGood(policies[k], evidence)

\* "ttlSeconds (fenetre de validite de la decision)" (docs/aikeyreleasepolicy.md):
\* a settled "allow" is not older than the TTL.
AllowInWindow ==
    \A k \in Policy :
        /\ Settled(k) /\ policies[k] # None /\ policies[k].required
        /\ policies[k].lastDecision = "allow"
        => clock <= policies[k].lastDecisionTime + policies[k].ttl

=============================================================================
