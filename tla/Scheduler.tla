----------------------------- MODULE Scheduler -----------------------------
(***************************************************************************)
(* The attestation-aware scheduler: one worker that takes a pending pod    *)
(* through PreFilter, Filter, Permit, Score, Reserve, PreBind, Mint and    *)
(* Bind (internal/scheduler/scheduler.go, cmd/attestation-scheduler).      *)
(*                                                                         *)
(* Every call to the API server is an action of its own, so that the other *)
(* writers of the cluster (users, the admission webhook, the verifier, the *)
(* node controller) act between any two calls.  A write is applied, is     *)
(* refused, or is applied with its answer lost.                            *)
(***************************************************************************)
EXTENDS Integers, FiniteSets

CONSTANTS
    Pod,            \* pod names (one namespace)
    Node,           \* node names
    NumPolicies,    \* policies are named 1 .. NumPolicies, in list order
    PolicySpecs,    \* the policy specs users write
    NumEvidence,    \* evidence objects 1 .. NumEvidence, in list order
    EvidenceSpecs,  \* EvidenceName -> the specs the verifier writes for it
    DecisionName,   \* name of the AIPlacementDecision of a pod
    MaxUID,         \* bound: pods created in a behaviour
    MaxTime,        \* bound: last value of the clock
    MaxChurn,       \* bound: writes by others, faults and crashes
    None            \* nil, NotFound and the empty string

PolicyName == 1 .. NumPolicies
EvidenceName == 1 .. NumEvidence
TEEs == {"TDX", "SEV-SNP", "none"}
Time == 0 .. MaxTime
UID == 1 .. MaxUID

PolicySpec == [requiredTEE : SUBSET TEEs, maxAge : Nat, selects : SUBSET Pod]
EvidenceSpec == [node : Node, tee : TEEs, simulated : BOOLEAN]

ASSUME BoundsAssumption ==
    /\ NumPolicies \in Nat /\ NumEvidence \in Nat
    /\ MaxUID \in Nat /\ MaxTime \in Nat /\ MaxChurn \in Nat

ASSUME SpecsAssumption ==
    /\ PolicySpecs \subseteq PolicySpec
    /\ EvidenceSpecs \in [EvidenceName -> SUBSET EvidenceSpec]
    /\ DOMAIN DecisionName = Pod
    /\ None \notin Pod \cup Node \cup Int

VARIABLES
    now,        \* the clock all components share
    policies,   \* PolicyName -> policy spec, or None
    evidence,   \* EvidenceName -> evidence (spec and status), or None
    pods,       \* Pod -> [uid, ann, gated, node], or None
    decisions,  \* decision name -> AIPlacementDecision, or None
    ready,      \* schedulable nodes whose labels and taints admit the pods
    pc,         \* the step the worker is at
    pod,        \* the pod being scheduled: [name, uid]
    policy,     \* the policy PreFilter found: [name, spec], or None
    nodeList,   \* the nodes SchedulePod listed
    todo,       \* nodes this filter pass has not looked at yet
    candidates, \* {[node, name, ev]} this filter pass kept
    selected,   \* the candidate Score put first
    latestPod,  \* annotations of the pod as PreBind re-read it
    lastUID,    \* the last uid the API server gave to a pod
    churn       \* how many bounded events have happened

\* History variables: what the others wrote since PreBind re-read it, and when
\* PreBind looked at the evidence.  No guard reads them.
VARIABLES dirty, checkedAt

cluster == <<policies, evidence, pods, decisions, ready, lastUID>>
snapshots == <<pod, policy, nodeList, todo, candidates, selected, latestPod>>
history == <<dirty, checkedAt>>
vars == <<now, cluster, pc, snapshots, churn, history>>

-----------------------------------------------------------------------------
\* A digest determines its canonical preimage and is not that preimage.
CanonicalSHA256Hex(v) == [sha256 |-> v]

\* Mutant: the hash covers the spec only.
SpecOnlyHash(ev) == CanonicalSHA256Hex([ev EXCEPT !.verified = TRUE, !.lastVerified = None])

\* evidenceHashForPlacement covers the spec and the whole status.
evidenceHashForPlacement(ev) == CanonicalSHA256Hex(ev)

policyMatchesPod(spec, p) == p \in spec.selects

\* The first policy of the list that selects the pod.
FirstMatch(p) ==
    {i \in PolicyName :
        /\ policies[i] # None /\ policyMatchesPod(policies[i], p)
        /\ \A j \in PolicyName :
              policies[j] # None /\ policyMatchesPod(policies[j], p) => i <= j}

\* Mutant: one time unit of grace.
TooOldWithGrace(ev, maxAge, t) ==
    maxAge > 0 /\ ev.lastVerified # None /\ t - ev.lastVerified > maxAge + 1

TooOld(ev, maxAge, t) ==
    maxAge > 0 /\ ev.lastVerified # None /\ t - ev.lastVerified > maxAge

teeMatches(tee, required) == tee \in required

SatisfiesTEE(ev, pol) ==
    pol # None /\ pol.spec.requiredTEE # {} => teeMatches(ev.tee, pol.spec.requiredTEE)

\* Mutant: any evidence of the node that is not revoked.
UnverifiedEvidence(ev, n, pol, t) ==
    /\ ev # None
    /\ ev.node = n
    /\ ~ev.revoked
    /\ pol # None => ~TooOld(ev, pol.spec.maxAge, t)
    /\ SatisfiesTEE(ev, pol)

validEvidence(ev, n, pol, t) ==
    /\ ev # None
    /\ ev.node = n
    /\ ~ev.revoked
    /\ ev.verified
    /\ pol # None => ~TooOld(ev, pol.spec.maxAge, t)
    /\ SatisfiesTEE(ev, pol)

score(ev, pol, t) ==
    LET maxAge == IF pol = None THEN 0 ELSE pol.spec.maxAge
        left == maxAge - (t - ev.lastVerified)
        freshness == IF ev.lastVerified = None \/ maxAge = 0 \/ left < 0
                     THEN 0 ELSE (50 * left) \div maxAge
        tee == CASE ev.tee = "TDX" -> 10 [] ev.tee = "SEV-SNP" -> 5 [] OTHER -> 0
    IN  100 + freshness + (IF ev.simulated THEN 0 ELSE 20) + tee

-----------------------------------------------------------------------------
\* Evidence the verifier has accepted at time 0.
Appraised(spec) ==
    [node |-> spec.node, tee |-> spec.tee, simulated |-> spec.simulated,
     verified |-> TRUE, revoked |-> FALSE, lastVerified |-> 0]

\* Users have written policies and the verifier has appraised some nodes.
Init ==
    /\ now = 0 /\ churn = 0 /\ lastUID = 0
    /\ policies \in [PolicyName -> PolicySpecs \cup {None}]
    /\ \E have \in SUBSET EvidenceName :
       \E spec \in [have -> UNION {EvidenceSpecs[e] : e \in have}] :
          /\ \A e \in have : spec[e] \in EvidenceSpecs[e]
          /\ evidence = [e \in EvidenceName |->
                IF e \in have THEN Appraised(spec[e]) ELSE None]
    /\ pods = [p \in Pod |-> None]
    /\ decisions = [p \in {DecisionName[q] : q \in Pod} |-> None]
    /\ ready = Node
    /\ pc = "idle"
    /\ pod = None /\ policy = None /\ selected = None /\ latestPod = None
    /\ nodeList = {} /\ todo = {} /\ candidates = {}
    /\ dirty = {} /\ checkedAt = 0

\* SchedulePod returns, with or without an error: its locals are gone.  After
\* an error the workqueue hands the same pod to Reconcile again.
Return ==
    /\ pc' = "idle"
    /\ pod' = None /\ policy' = None /\ selected' = None /\ latestPod' = None
    /\ nodeList' = {} /\ todo' = {} /\ candidates' = {}
    /\ dirty' = {} /\ checkedAt' = 0

\* A fault or a write by another component: only MaxChurn of them happen.
Count == churn < MaxChurn /\ churn' = churn + 1

\* Reconcile: skip bound and gated pods, hand the others to SchedulePod.
Reconcile(p) ==
    /\ pc = "idle"
    /\ pods[p] # None
    /\ pods[p].node = None /\ ~pods[p].gated
    /\ pc' = "preFilter"
    /\ pod' = [name |-> p, uid |-> pods[p].uid]
    /\ UNCHANGED <<now, cluster, policy, nodeList, todo, candidates, selected,
                   latestPod, churn, history>>

preFilter ==
    /\ pc = "preFilter"
    /\ pc' = "listNodes"
    /\ \/ /\ FirstMatch(pod.name) = {}
          /\ policy' = None
       \/ \E i \in FirstMatch(pod.name) :
             policy' = [name |-> i, spec |-> policies[i]]
    /\ UNCHANGED <<now, cluster, pod, nodeList, todo, candidates, selected,
                   latestPod, churn, history>>

\* List the nodes; the ones filter skips for being unschedulable or for the
\* pod's constraints are judged on this list.
ListNodes ==
    /\ pc = "listNodes"
    /\ pc' = "filter"
    /\ nodeList' = ready /\ todo' = ready
    /\ UNCHANGED <<now, cluster, pod, policy, candidates, selected, latestPod,
                   churn, history>>

\* One round of filter's loop: list the evidence and look for the first valid
\* one of this node.
filterNode(n) ==
    LET valid == {e \in EvidenceName : validEvidence(evidence[e], n, policy, now)}
    IN  /\ pc \in {"filter", "permit"}
        /\ n \in todo
        /\ todo' = todo \ {n}
        /\ \/ valid = {} /\ UNCHANGED candidates
           \/ \E e \in valid :
                 /\ \A f \in valid : e <= f
                 /\ candidates' = candidates \cup
                        {[node |-> n, name |-> e, ev |-> evidence[e]]}
        /\ UNCHANGED <<now, cluster, pc, pod, policy, nodeList, selected,
                       latestPod, churn, history>>

\* Listing the evidence fails: the node is passed over.
filterListError(n) ==
    /\ pc \in {"filter", "permit"}
    /\ n \in todo
    /\ todo' = todo \ {n}
    /\ Count
    /\ UNCHANGED <<now, cluster, pc, pod, policy, nodeList, candidates, selected,
                   latestPod, history>>

FilterDone == pc \in {"filter", "permit"} /\ todo = {}

\* No candidate: filter the same node list again, now and every 250 ms.
permit ==
    /\ FilterDone /\ candidates = {}
    /\ pc' = "permit"
    /\ todo' = nodeList
    /\ UNCHANGED <<now, cluster, pod, policy, nodeList, candidates, selected,
                   latestPod, churn, history>>

\* Mutant: permit has no deadline.
NoTimeout == FALSE /\ Return /\ UNCHANGED <<now, cluster, churn>>

\* The 15 s are over after a pass of permit's own.
permitTimeout ==
    /\ FilterDone /\ candidates = {} /\ pc = "permit"
    /\ Return
    /\ UNCHANGED <<now, cluster, churn>>

\* Score every candidate and take the first after the sort; sort.Slice is not
\* stable, so any of the best.
Select ==
    /\ FilterDone
    /\ \E c \in candidates :
          /\ \A d \in candidates : score(c.ev, policy, now) >= score(d.ev, policy, now)
          /\ selected' = c
    /\ pc' = "reserve"
    /\ nodeList' = {} /\ candidates' = {}    \* not read again
    /\ UNCHANGED <<now, cluster, pod, policy, todo, latestPod, churn, history>>

-----------------------------------------------------------------------------
\* What the API server stores when an AIPlacementDecision is created or updated:
\* the status is a subresource, so the status of the written object is dropped.
Stored(old, new) ==
    [new EXCEPT !.status = IF old = None THEN None ELSE old.status]

\* Mutant: the pending and the deny decision keep the token annotation.
TokenLeftInPlace(tok, verdict) ==
    LET old == decisions[DecisionName[pod.name]]
        ref == IF policy # None THEN policy.name
               ELSE IF old # None THEN old.policyRef ELSE None
    IN  Stored(old, [policyRef |-> ref, evidenceRef |-> selected.name,
                     token |-> IF tok = None /\ old # None THEN old.token ELSE tok,
                     status |-> verdict])

\* createOrUpdatePlacementDecision with applyBaseDecision: a nil policy leaves
\* the policyRef of an existing decision alone.
Written(tok, verdict) ==
    LET old == decisions[DecisionName[pod.name]]
        ref == IF policy # None THEN policy.name
               ELSE IF old # None THEN old.policyRef ELSE None
    IN  Stored(old, [policyRef |-> ref, evidenceRef |-> selected.name,
                     token |-> tok, status |-> verdict])

\* The schema requires a policyRef with a name.
Admissible(d) == d.policyRef # None

\* The write of a decision, with its outcome: applied, refused (a conflict, an
\* unreachable server, a schema violation), or applied with the answer lost.
Upsert(d, outcome) ==
    /\ outcome = "applied" => Admissible(d) /\ UNCHANGED churn
    /\ outcome = "refused" => IF Admissible(d) THEN Count ELSE UNCHANGED churn
    /\ outcome = "lost" => Admissible(d) /\ Count
    /\ decisions' = IF outcome = "refused" THEN decisions
                    ELSE [decisions EXCEPT ![DecisionName[pod.name]] = d]

Outcome == {"applied", "refused", "lost"}

\* Reserve: upsert the pending decision, without a token.
reserve ==
    \E outcome \in Outcome :
        /\ pc = "reserve"
        /\ Upsert(Written(None, "pending"), outcome)
        /\ IF outcome = "applied"
           THEN /\ pc' = "recheckPod"
                /\ UNCHANGED <<snapshots, history>>
           ELSE Return
        /\ UNCHANGED <<now, policies, evidence, pods, ready, lastUID>>

\* PreBind, first read: the pod, by name.
preBindPod ==
    /\ pc = "recheckPod"
    /\ pc' = IF pods[pod.name] = None THEN "deny" ELSE "recheckPolicy"
    /\ latestPod' = IF pods[pod.name] = None THEN None ELSE pods[pod.name].ann
    /\ dirty' = {}
    /\ UNCHANGED <<now, cluster, pod, policy, nodeList, todo, candidates, selected,
                   churn, checkedAt>>

\* PreBind, second read: the policy the decision names must still be the one
\* whose hash admission wrote on the pod.
preBindPolicy ==
    LET ref == decisions[DecisionName[pod.name]].policyRef
    IN  /\ pc = "recheckPolicy"
        /\ pc' = IF /\ policies[ref] # None
                    /\ latestPod # None
                    /\ CanonicalSHA256Hex(policies[ref]) = latestPod.policyHash
                 THEN "recheckEvidence" ELSE "deny"
        /\ dirty' = dirty \ {"policy"}
        /\ UNCHANGED <<now, cluster, snapshots, churn, checkedAt>>

\* PreBind, third read: the evidence must be unrevoked, unchanged since filter
\* read it, and fresh enough for the age written on the pod.
preBindEvidence ==
    LET ev == evidence[selected.name]
    IN  /\ pc = "recheckEvidence"
        /\ pc' = IF /\ ev # None
                    /\ ~ev.revoked
                    /\ evidenceHashForPlacement(ev) = evidenceHashForPlacement(selected.ev)
                    /\ ~TooOld(ev, latestPod.maxAge, now)
                 THEN "finalize" ELSE "deny"
        /\ dirty' = dirty \ {"evidence"}
        /\ checkedAt' = now
        /\ UNCHANGED <<now, cluster, snapshots, churn>>

\* A failed PreBind: withdraw the decision; the outcome of the write is ignored.
deny ==
    \E outcome \in Outcome :
        /\ pc = "deny"
        /\ Upsert(Written(None, "deny"), outcome)
        /\ Return
        /\ UNCHANGED <<now, policies, evidence, pods, ready, lastUID>>

\* The signed payload: hashes of what SchedulePod read before PreBind.
Mint ==
    [uid |-> pod.uid,
     node |-> selected.node,
     evidenceHash |-> evidenceHashForPlacement(selected.ev),
     policyHash |-> IF policy = None THEN None ELSE CanonicalSHA256Hex(policy.spec)]

\* Mutant: the error of the last write is ignored, as deny ignores it.
finalizeIgnoringErrors ==
    \E outcome \in Outcome :
        /\ pc = "finalize"
        /\ Upsert(Written(Mint, "allow"), outcome)
        /\ pc' = "bind"
        /\ UNCHANGED <<snapshots, history>>
        /\ UNCHANGED <<now, policies, evidence, pods, ready, lastUID>>

\* Mutant: the decision is written without the annotation that holds the token.
finalizeUnsigned ==
    \E outcome \in Outcome :
        /\ pc = "finalize"
        /\ Upsert(Written(None, "allow"), outcome)
        /\ IF outcome = "applied"
           THEN /\ pc' = "bind"
                /\ UNCHANGED <<snapshots, history>>
           ELSE Return
        /\ UNCHANGED <<now, policies, evidence, pods, ready, lastUID>>

\* Mint the token and publish it on the decision.
finalize ==
    \E outcome \in Outcome :
        /\ pc = "finalize"
        /\ Upsert(Written(Mint, "allow"), outcome)
        /\ IF outcome = "applied"
           THEN /\ pc' = "bind"
                /\ UNCHANGED <<snapshots, history>>
           ELSE Return
        /\ UNCHANGED <<now, policies, evidence, pods, ready, lastUID>>

\* The API server takes a Binding, by pod name, for an unbound ungated pod.
Bindable(p) == pods[p] # None /\ pods[p].node = None /\ ~pods[p].gated

bind ==
    \E outcome \in Outcome :
        /\ pc = "bind"
        /\ outcome = "applied" => Bindable(pod.name) /\ UNCHANGED churn
        /\ outcome = "refused" => IF Bindable(pod.name) THEN Count ELSE UNCHANGED churn
        /\ outcome = "lost" => Bindable(pod.name) /\ Count
        /\ pods' = IF outcome = "refused" THEN pods
                   ELSE [pods EXCEPT ![pod.name].node = selected.node]
        /\ Return
        /\ UNCHANGED <<now, policies, evidence, decisions, ready, lastUID>>

\* A failed read: SchedulePod returns the error, PreBind denies.
readError ==
    /\ Count
    /\ \/ pc \in {"preFilter", "listNodes", "filter", "permit"} /\ Return
       \/ /\ pc \in {"recheckPod", "recheckPolicy", "recheckEvidence"}
          /\ pc' = "deny"
          /\ UNCHANGED <<snapshots, history>>
    /\ UNCHANGED <<now, cluster>>

\* The process dies and is restarted; only the cluster is left.
Crash ==
    /\ pc # "idle"
    /\ Count /\ Return
    /\ UNCHANGED <<now, cluster>>

-----------------------------------------------------------------------------
\* The other writers of the cluster.  They never touch the worker's locals.
Touch(kind) ==
    /\ dirty' = IF pc \in {"recheckPolicy", "recheckEvidence", "finalize", "bind"}
                THEN dirty \cup {kind} ELSE dirty
    /\ UNCHANGED <<now, pc, snapshots, checkedAt>>

\* The mutating webhook annotates the pod from the first matching policy and
\* gates it unless it names its evidence; failing open, it does neither.
CreatePod(p, hooked, gated) ==
    /\ pods[p] = None /\ lastUID < MaxUID
    /\ lastUID' = lastUID + 1
    /\ \/ /\ ~hooked \/ FirstMatch(p) = {}
          /\ ~gated
          /\ pods' = [pods EXCEPT ![p] =
                [uid |-> lastUID', ann |-> None, gated |-> FALSE, node |-> None]]
       \/ /\ hooked
          /\ \E i \in FirstMatch(p) :
                pods' = [pods EXCEPT ![p] =
                    [uid |-> lastUID',
                     ann |-> [policyHash |-> CanonicalSHA256Hex(policies[i]),
                              maxAge |-> policies[i].maxAge],
                     gated |-> gated, node |-> None]]
    /\ Touch("pod")
    /\ UNCHANGED <<policies, evidence, decisions, ready, churn>>

DeletePod(p) ==
    /\ pods[p] # None
    /\ pods' = [pods EXCEPT ![p] = None]
    /\ Touch("pod") /\ Count
    /\ UNCHANGED <<policies, evidence, decisions, ready, lastUID>>

\* Whoever attached the evidence removes the gate; no code of the operator does.
LiftGate(p) ==
    /\ pods[p] # None /\ pods[p].gated
    /\ pods' = [pods EXCEPT ![p].gated = FALSE]
    /\ Touch("pod")
    /\ UNCHANGED <<policies, evidence, decisions, ready, lastUID, churn>>

WritePolicy(i, spec) ==
    /\ policies[i] # spec
    /\ policies' = [policies EXCEPT ![i] = spec]
    /\ Touch("policy") /\ Count
    /\ UNCHANGED <<evidence, pods, decisions, ready, lastUID>>

EvidenceWrite(e, ev) ==
    /\ evidence[e] # ev
    /\ evidence' = [evidence EXCEPT ![e] = ev]
    /\ Touch("evidence")
    /\ UNCHANGED <<policies, pods, decisions, ready, lastUID>>

\* The verifier creates or rewrites the spec and keeps the status ...
WriteEvidenceSpec(e, spec) ==
    LET old == evidence[e]
    IN  /\ EvidenceWrite(e,
              [node |-> spec.node, tee |-> spec.tee, simulated |-> spec.simulated,
               verified |-> old # None /\ old.verified,
               revoked |-> old # None /\ old.revoked,
               lastVerified |-> IF old = None THEN None ELSE old.lastVerified])
        /\ Count

\* ... and writes the verdict in a second call.
WriteEvidenceStatus(e, verified) ==
    /\ evidence[e] # None
    /\ EvidenceWrite(e, [evidence[e] EXCEPT
            !.verified = verified,
            !.lastVerified = IF verified THEN now ELSE @])
    /\ Count

\* The manager's evidence reconciler, where it is enabled, writes the revocation and
\* a verdict of its own: a digest or signature in the spec, or simulation, is enough.
RefreshEvidence(e, revoked, signed) ==
    /\ evidence[e] # None
    /\ LET verified == ~revoked /\ (evidence[e].simulated \/ signed)
       IN  EvidenceWrite(e, [evidence[e] EXCEPT
               !.revoked = revoked, !.verified = verified,
               !.lastVerified = IF verified THEN now ELSE @])
    /\ Count

DeleteEvidence(e) == EvidenceWrite(e, None) /\ Count

\* The manager's reconciler writes the status, and only the status, of a decision.
WriteDecisionStatus(d, verdict) ==
    /\ decisions[d] # None /\ decisions[d].status # verdict
    /\ decisions' = [decisions EXCEPT ![d].status = verdict]
    /\ Count
    /\ UNCHANGED <<now, policies, evidence, pods, ready, lastUID, pc, snapshots, history>>

\* A node is cordoned, uncordoned, tainted or relabelled.
ChangeNode(n) ==
    /\ ready' = IF n \in ready THEN ready \ {n} ELSE ready \cup {n}
    /\ Count
    /\ UNCHANGED <<now, policies, evidence, pods, decisions, lastUID, pc, snapshots, history>>

Tick ==
    /\ now < MaxTime
    /\ now' = now + 1
    /\ UNCHANGED <<cluster, pc, snapshots, churn, history>>

-----------------------------------------------------------------------------
\* The steps of the worker after Reconcile, without faults of the surroundings.
SchedulePod ==
    \/ preFilter \/ ListNodes
    \/ \E n \in Node : filterNode(n)
    \/ permit \/ permitTimeout \/ Select
    \/ reserve \/ preBindPod \/ preBindPolicy \/ preBindEvidence
    \/ deny \/ finalize \/ bind

Fault ==
    \/ \E n \in Node : filterListError(n)
    \/ readError
    \/ Crash

Others ==
    \/ \E p \in Pod, hooked \in BOOLEAN, gated \in BOOLEAN : CreatePod(p, hooked, gated)
    \/ \E p \in Pod : DeletePod(p) \/ LiftGate(p)
    \/ \E i \in PolicyName, spec \in PolicySpecs \cup {None} : WritePolicy(i, spec)
    \/ \E e \in EvidenceName :
          \/ \E spec \in EvidenceSpecs[e] : WriteEvidenceSpec(e, spec)
          \/ \E verified \in BOOLEAN : WriteEvidenceStatus(e, verified)
          \/ \E revoked, signed \in BOOLEAN : RefreshEvidence(e, revoked, signed)
          \/ DeleteEvidence(e)
    \/ \E d \in DOMAIN decisions, verdict \in {"allow", "deny"} :
          WriteDecisionStatus(d, verdict)
    \/ \E n \in Node : ChangeNode(n)
    \/ Tick

Next == (\E p \in Pod : Reconcile(p)) \/ SchedulePod \/ Fault \/ Others

Spec == Init /\ [][Next]_vars

\* The worker keeps running and a permit that finds nothing runs into its
\* deadline; the workqueue holds every pod that is still to be scheduled and
\* gives each its turn.  Nothing is assumed of the other writers.
Fairness ==
    /\ WF_vars(SchedulePod)
    /\ SF_vars(permitTimeout)
    /\ \A p \in Pod : SF_vars(Reconcile(p))

FairSpec == Spec /\ Fairness

-----------------------------------------------------------------------------
Annotation == [policyHash : [sha256 : PolicySpecs], maxAge : Nat]
PodObject == [uid : UID, ann : Annotation \cup {None}, gated : BOOLEAN,
              node : Node \cup {None}]
EvidenceObject == [node : Node, tee : TEEs, simulated : BOOLEAN, verified : BOOLEAN,
                   revoked : BOOLEAN, lastVerified : Time \cup {None}]
Candidate == [node : Node, name : EvidenceName, ev : EvidenceObject]
Token == [uid : UID, node : Node, evidenceHash : [sha256 : EvidenceObject],
          policyHash : [sha256 : PolicySpecs] \cup {None}]
Decision == [policyRef : PolicyName, evidenceRef : EvidenceName,
             token : Token \cup {None}, status : {None, "pending", "deny", "allow"}]

\* None is none of the objects.
ASSUME NoneAssumption ==
    None \notin Annotation \cup PodObject \cup EvidenceObject \cup Candidate
                \cup Token \cup Decision \cup PolicySpecs \cup PolicyName
                \cup [sha256 : PolicySpecs] \cup [name : PolicyName, spec : PolicySpecs]

PCs == {"idle", "preFilter", "listNodes", "filter", "permit", "reserve", "recheckPod",
        "recheckPolicy", "recheckEvidence", "finalize", "bind", "deny"}

\* The cluster's objects have the shape of the CRDs, and the locals of SchedulePod
\* are set exactly in the steps that use them.
TypeOK ==
    /\ now \in Time /\ churn \in 0 .. MaxChurn /\ lastUID \in 0 .. MaxUID
    /\ policies \in [PolicyName -> PolicySpecs \cup {None}]
    /\ evidence \in [EvidenceName -> EvidenceObject \cup {None}]
    /\ pods \in [Pod -> PodObject \cup {None}]
    /\ decisions \in [{DecisionName[p] : p \in Pod} -> Decision \cup {None}]
    /\ ready \subseteq Node /\ nodeList \subseteq Node /\ todo \subseteq Node
    /\ pc \in PCs
    /\ IF pc = "idle" THEN pod = None ELSE pod \in [name : Pod, uid : UID]
    /\ policy \in [name : PolicyName, spec : PolicySpecs] \cup {None}
    /\ candidates \subseteq Candidate
    /\ IF pc \in {"idle", "preFilter", "listNodes", "filter", "permit"}
       THEN selected = None ELSE selected \in Candidate
    /\ latestPod \in Annotation \cup {None}
    /\ dirty \subseteq {"pod", "policy", "evidence"} /\ checkedAt \in Time

Published(d) == decisions[d] # None /\ decisions[d].token # None

\* A published placement token names a node and the hash of an evidence of that
\* very node that was verified and unrevoked when filter read it, with a TEE the
\* policy of the token's own policy hash asks for.
TokenAttested ==
    \A d \in DOMAIN decisions : Published(d) =>
        LET tok == decisions[d].token
            ev == tok.evidenceHash.sha256
        IN  /\ ev.node = tok.node /\ ev.verified /\ ~ev.revoked
            /\ tok.policyHash # None /\ tok.policyHash.sha256.requiredTEE # {} =>
                  ev.tee \in tok.policyHash.sha256.requiredTEE

\* From the pending decision until PreBind has passed, and after it has failed,
\* the decision carries no token, whatever an earlier attempt published.
NoTokenUnderReview ==
    pc \in {"recheckPod", "recheckPolicy", "recheckEvidence", "deny", "finalize"} =>
        ~Published(DecisionName[pod.name])

\* A pod is only ever bound to the node its decision's token names, also when
\* the pod was recreated, the answer of a write was lost or the process restarted.
BoundToTokenNode ==
    \A p \in Pod : pods[p] # None /\ pods[p].node # None =>
        /\ Published(DecisionName[p])
        /\ decisions[DecisionName[p]].token.node = pods[p].node

\* PreBind closes the window between selection and Bind: when the Binding is
\* sent, the selected evidence is stored as it was selected, hence unrevoked and
\* verified, and the policy the decision names is the one the pod was admitted
\* under, unless somebody wrote that object after PreBind re-read it.
BindReflectsCluster ==
    pc \in {"finalize", "bind"} =>
        /\ "evidence" \notin dirty =>
              /\ evidence[selected.name] = selected.ev
              /\ selected.ev.verified /\ ~selected.ev.revoked
              /\ selected.ev.node = selected.node
        /\ {"pod", "policy"} \cap dirty = {} =>
              LET current == policies[decisions[DecisionName[pod.name]].policyRef]
              IN  /\ current # None
                  /\ pods[pod.name].ann.policyHash = CanonicalSHA256Hex(current)

\* The evidence behind a Bind was fresh, when PreBind looked at it, for the policy
\* in force: the age admission copied to the pod is the current policy's.
FreshForCurrentPolicy ==
    pc \in {"finalize", "bind"} /\ "policy" \notin dirty =>
        LET current == policies[decisions[DecisionName[pod.name]].policyRef]
        IN  current.maxAge > 0 /\ selected.ev.lastVerified # None =>
                checkedAt - selected.ev.lastVerified <= current.maxAge

\* A published token is never replaced by another one: it is first withdrawn by
\* the pending decision of a new attempt.
TokenWithdrawnFirst ==
    [][\A d \in DOMAIN decisions :
          Published(d) /\ Published(d)' => decisions'[d].token = decisions[d].token]_vars

\* What the others see of a placement: the token of a pod's decision, and its node.
TokenOf == [p \in Pod |-> IF Published(DecisionName[p])
                          THEN decisions[DecisionName[p]].token ELSE None]
NodeOf == [p \in Pod |-> IF pods[p] = None THEN None ELSE pods[p].node]

\* Tokens whose evidence hash is that of verified, unrevoked evidence of their node.
AttestedTokens ==
    {t \in Token : LET ev == t.evidenceHash.sha256
                   IN  ev.node = t.node /\ ev.verified /\ ~ev.revoked}

P == INSTANCE Placement WITH token <- TokenOf, bound <- NodeOf

\* SchedulePod implements Placement: whatever the interleaving, the retries and the
\* restarts, a token is published or withdrawn only while its pod is unbound, never
\* replaced in place, and a pod is bound only to the node of its published token.
ImplementsPlacement == P!Spec

\* What SchedulePod needs to place a pod, were nothing else to change: an admitted
\* ungated pod whose policy is unchanged, and a node it may use with evidence
\* that satisfies the policy.
Placeable(p) ==
    /\ pods[p] # None
    /\ pods[p].node = None /\ ~pods[p].gated /\ pods[p].ann # None
    /\ \E i \in FirstMatch(p) :
          /\ CanonicalSHA256Hex(policies[i]) = pods[p].ann.policyHash
          /\ \E n \in ready, e \in EvidenceName :
                validEvidence(evidence[e], n, [name |-> i, spec |-> policies[i]], now)

\* No pod stays placeable for ever: failed attempts, conflicts, lost answers,
\* restarts and a permit that waits on an outdated node list are all retried
\* until the pod is bound.
NoPodLeftBehind == \A p \in Pod : []<>~Placeable(p)

-----------------------------------------------------------------------------
\* What the documentation says and the code does not do.

\* "revérifie que rien n'a changé depuis l'étape 2 (même empreinte de policy...)"
\* (README.md): the token carries the hash of the policy PreBind has just re-read.
TokenForCurrentPolicy ==
    pc = "bind" /\ {"pod", "policy"} \cap dirty = {} =>
        decisions[DecisionName[pod.name]].token.policyHash =
            CanonicalSHA256Hex(policies[decisions[DecisionName[pod.name]].policyRef])

\* "un jeton ... liant ensemble : l'UID du pod ..." and PreBind "relit ... le pod"
\* (README.md): a bound pod is the pod its token was minted for.
TokenNamesBoundPod ==
    \A p \in Pod : pods[p] # None /\ pods[p].node # None /\ Published(DecisionName[p]) =>
        decisions[DecisionName[p]].token.uid = pods[p].uid

=============================================================================
