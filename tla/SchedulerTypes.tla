---------------------------- MODULE SchedulerTypes ----------------------------
(***************************************************************************)
(* Type correctness of Scheduler, for every set of pods, nodes, policies   *)
(* and evidence and for every bound: the worker's steps, faults, the other *)
(* writers, and the theorem.                                               *)
(***************************************************************************)
EXTENDS Scheduler, TLAPS

-----------------------------------------------------------------------------
\* A counted event keeps within its bound.
LEMMA CountType == TypeOK /\ Count => churn' \in 0 .. MaxChurn
  <1> SUFFICES ASSUME churn \in 0 .. MaxChurn, Count PROVE churn' \in 0 .. MaxChurn
    BY DEF TypeOK
  <1> QED
    BY BoundsAssumption DEF Count

\* Type correctness is inductive as it stands.
LEMMA TypeInit == Init => TypeOK
  <1> SUFFICES ASSUME Init PROVE TypeOK
    OBVIOUS
  <1> USE BoundsAssumption, SpecsAssumption
  <1>1. evidence \in [EvidenceName -> EvidenceObject \cup {None}]
    <2>1. PICK have \in SUBSET EvidenceName :
          \E spec \in [have -> UNION {EvidenceSpecs[e] : e \in have}] :
             /\ \A e \in have : spec[e] \in EvidenceSpecs[e]
             /\ evidence = [e \in EvidenceName |->
                   IF e \in have THEN Appraised(spec[e]) ELSE None]
      BY DEF Init
    <2>2. PICK spec \in [have -> UNION {EvidenceSpecs[e] : e \in have}] :
             /\ \A e \in have : spec[e] \in EvidenceSpecs[e]
             /\ evidence = [e \in EvidenceName |->
                   IF e \in have THEN Appraised(spec[e]) ELSE None]
      BY <2>1
    <2>3. ASSUME NEW e \in have PROVE Appraised(spec[e]) \in EvidenceObject
      <3>1. spec[e] \in EvidenceSpec
        BY <2>2
      <3> QED
        BY <3>1 DEF Appraised, EvidenceSpec, EvidenceObject, Time
    <2> QED
      BY <2>2, <2>3
  <1> QED
    BY <1>1 DEF Init, TypeOK, Time, PCs

\* What Return leaves behind.
LEMMA ReturnType ==
    ASSUME Return
    PROVE  /\ pc' \in PCs /\ pc' = "idle" /\ pod' = None
           /\ policy' = None /\ nodeList' \subseteq Node /\ todo' \subseteq Node
           /\ candidates' \subseteq Candidate /\ selected' = None
           /\ latestPod' = None
           /\ dirty' \subseteq {"pod", "policy", "evidence"} /\ checkedAt' \in Time
  BY BoundsAssumption DEF Return, PCs, Time

\* What the worker writes is a decision of the right shape.
LEMMA WrittenType ==
    ASSUME TypeOK, NEW tok \in Token \cup {None}, NEW verdict \in {"pending", "deny", "allow"},
           pod \in [name : Pod, uid : UID], selected \in Candidate,
           Admissible(Written(tok, verdict))
    PROVE  Written(tok, verdict) \in Decision
  <1> DEFINE old == decisions[DecisionName[pod.name]]
  <1>1. pod.name \in Pod
    BY DEF TypeOK
  <1>2. old \in Decision \cup {None}
    BY <1>1 DEF TypeOK
  <1>3. selected.name \in EvidenceName
    BY DEF Candidate
  <1>4. Written(tok, verdict).status \in {None, "pending", "deny", "allow"}
    BY <1>2 DEF Written, Stored, Decision
  <1>5. Written(tok, verdict).policyRef \in PolicyName
    BY <1>2 DEF Written, Stored, Decision, Admissible, TypeOK
  <1> QED
    BY <1>3, <1>4, <1>5 DEF Written, Stored, Decision

LEMMA UpsertType ==
    ASSUME TypeOK, NEW tok \in Token \cup {None}, NEW verdict \in {"pending", "deny", "allow"},
           NEW outcome \in Outcome,
           pod \in [name : Pod, uid : UID], selected \in Candidate,
           Upsert(Written(tok, verdict), outcome)
    PROVE  /\ decisions' \in [{DecisionName[p] : p \in Pod} -> Decision \cup {None}]
           /\ churn' \in 0 .. MaxChurn
  <1>1. pod.name \in Pod
    BY DEF TypeOK
  <1>2. outcome # "refused" => Written(tok, verdict) \in Decision
    BY WrittenType DEF Upsert, Outcome
  <1>3. decisions' \in [{DecisionName[p] : p \in Pod} -> Decision \cup {None}]
    BY <1>1, <1>2 DEF Upsert, TypeOK
  <1>4. churn' \in 0 .. MaxChurn
    BY BoundsAssumption DEF Upsert, Outcome, Count, TypeOK
  <1> QED
    BY <1>3, <1>4

LEMMA MintType ==
    ASSUME TypeOK, pod \in [name : Pod, uid : UID], selected \in Candidate
    PROVE  Mint \in Token
  BY DEF TypeOK, Mint, Token, Candidate, evidenceHashForPlacement, CanonicalSHA256Hex

\* The steps of SchedulePod.
LEMMA TypeSchedulePod == TypeOK /\ SchedulePod => TypeOK'
  <1> SUFFICES ASSUME TypeOK, SchedulePod PROVE TypeOK'
    OBVIOUS
  <1> USE BoundsAssumption, SpecsAssumption
  <1>1. CASE preFilter
    <2>1. \A i \in FirstMatch(pod.name) : i \in PolicyName /\ policies[i] \in PolicySpecs
      BY DEF FirstMatch, TypeOK
    <2>2. policy' \in [name : PolicyName, spec : PolicySpecs] \cup {None}
      BY <1>1, <2>1 DEF preFilter
    <2> QED
      BY <1>1, <2>2 DEF preFilter, TypeOK, PCs, cluster, history
  <1>2. CASE ListNodes
    BY <1>2 DEF ListNodes, TypeOK, PCs, cluster, history
  <1>3. CASE \E n \in Node : filterNode(n)
    <2>1. PICK n \in Node : filterNode(n)
      BY <1>3
    <2>2. \A e \in EvidenceName : validEvidence(evidence[e], n, policy, now) =>
             [node |-> n, name |-> e, ev |-> evidence[e]] \in Candidate
      BY DEF TypeOK, validEvidence, Candidate
    <2>3. candidates' \subseteq Candidate
      BY <2>1, <2>2 DEF filterNode, TypeOK
    <2> QED
      BY <2>1, <2>3 DEF filterNode, TypeOK, cluster, history
  <1>4. CASE permit
    BY <1>4 DEF permit, TypeOK, PCs, FilterDone, cluster, history
  <1>5. CASE permitTimeout
    BY <1>5, ReturnType DEF permitTimeout, TypeOK, cluster
  <1>6. CASE Select
    <2>1. selected' \in Candidate
      BY <1>6 DEF Select, TypeOK
    <2> QED
      BY <1>6, <2>1 DEF Select, TypeOK, FilterDone, PCs, cluster, history
  <1>7. CASE reserve
    <2>1. PICK outcome \in Outcome :
             /\ pc = "reserve"
             /\ Upsert(Written(None, "pending"), outcome)
             /\ IF outcome = "applied"
                THEN pc' = "recheckPod" /\ UNCHANGED <<snapshots, history>>
                ELSE Return
             /\ UNCHANGED <<now, policies, evidence, pods, ready, lastUID>>
      BY <1>7 DEF reserve
    <2>2. pod \in [name : Pod, uid : UID] /\ selected \in Candidate
      BY <2>1 DEF TypeOK, PCs
    <2>3. /\ decisions' \in [{DecisionName[p] : p \in Pod} -> Decision \cup {None}]
          /\ churn' \in 0 .. MaxChurn
      BY <2>1, <2>2, UpsertType
    <2>4. CASE outcome = "applied"
      BY <2>1, <2>3, <2>4, Zenon DEF TypeOK, PCs, snapshots, history
    <2>5. CASE outcome # "applied"
      BY <2>1, <2>3, <2>5, ReturnType DEF TypeOK
    <2> QED
      BY <2>4, <2>5
  <1>8. CASE preBindPod
    <2>1. pod \in [name : Pod, uid : UID]
      BY <1>8 DEF preBindPod, TypeOK
    <2>2. latestPod' \in Annotation \cup {None}
      BY <1>8, <2>1 DEF preBindPod, TypeOK, PodObject
    <2> QED
      BY <1>8, <2>2 DEF preBindPod, TypeOK, PCs, cluster
  <1>9. CASE preBindPolicy
    BY <1>9 DEF preBindPolicy, TypeOK, PCs, cluster, snapshots
  <1>10. CASE preBindEvidence
    BY <1>10 DEF preBindEvidence, TypeOK, PCs, cluster, snapshots
  <1>11. CASE deny
    <2>1. PICK outcome \in Outcome :
             /\ pc = "deny"
             /\ Upsert(Written(None, "deny"), outcome)
             /\ Return
             /\ UNCHANGED <<now, policies, evidence, pods, ready, lastUID>>
      BY <1>11 DEF deny
    <2>2. pod \in [name : Pod, uid : UID] /\ selected \in Candidate
      BY <2>1 DEF TypeOK, PCs
    <2>3. /\ decisions' \in [{DecisionName[p] : p \in Pod} -> Decision \cup {None}]
          /\ churn' \in 0 .. MaxChurn
      BY <2>1, <2>2, UpsertType, Zenon
    <2> QED
      BY <2>1, <2>3, ReturnType DEF TypeOK
  <1>12. CASE finalize
    <2>1. PICK outcome \in Outcome :
             /\ pc = "finalize"
             /\ Upsert(Written(Mint, "allow"), outcome)
             /\ IF outcome = "applied"
                THEN pc' = "bind" /\ UNCHANGED <<snapshots, history>>
                ELSE Return
             /\ UNCHANGED <<now, policies, evidence, pods, ready, lastUID>>
      BY <1>12 DEF finalize
    <2>2. pod \in [name : Pod, uid : UID] /\ selected \in Candidate
      BY <2>1 DEF TypeOK, PCs
    <2>3. /\ decisions' \in [{DecisionName[p] : p \in Pod} -> Decision \cup {None}]
          /\ churn' \in 0 .. MaxChurn
      BY <2>1, <2>2, MintType, UpsertType
    <2>4. CASE outcome = "applied"
      BY <2>1, <2>3, <2>4, Zenon DEF TypeOK, PCs, snapshots, history
    <2>5. CASE outcome # "applied"
      BY <2>1, <2>3, <2>5, ReturnType DEF TypeOK
    <2> QED
      BY <2>4, <2>5
  <1>13. CASE bind
    <2>1. PICK outcome \in Outcome :
             /\ pc = "bind"
             /\ outcome = "applied" => Bindable(pod.name) /\ UNCHANGED churn
             /\ outcome = "refused" => IF Bindable(pod.name) THEN Count ELSE UNCHANGED churn
             /\ outcome = "lost" => Bindable(pod.name) /\ Count
             /\ pods' = IF outcome = "refused" THEN pods
                        ELSE [pods EXCEPT ![pod.name].node = selected.node]
             /\ Return
             /\ UNCHANGED <<now, policies, evidence, decisions, ready, lastUID>>
      BY <1>13 DEF bind
    <2>2. pod \in [name : Pod, uid : UID] /\ selected \in Candidate
      BY <2>1 DEF TypeOK, PCs
    <2>3. pods' \in [Pod -> PodObject \cup {None}]
      <3>1. CASE outcome = "refused"
        BY <2>1, <3>1 DEF TypeOK
      <3>2. CASE outcome # "refused"
        <4>1. pods[pod.name] \in PodObject
          BY <2>1, <2>2, <3>2 DEF TypeOK, Bindable, Outcome
        <4>2. [pods[pod.name] EXCEPT !.node = selected.node] \in PodObject
          BY <2>2, <4>1 DEF PodObject, Candidate
        <4> QED
          BY <2>1, <2>2, <3>2, <4>2 DEF TypeOK
      <3> QED
        BY <3>1, <3>2
    <2>4. churn' \in 0 .. MaxChurn
      BY <2>1 DEF Outcome, Count, TypeOK
    <2> QED
      BY <2>1, <2>3, <2>4, ReturnType DEF TypeOK
  <1> QED
    BY <1>1, <1>2, <1>3, <1>4, <1>5, <1>6, <1>7, <1>8, <1>9, <1>10, <1>11, <1>12, <1>13
    DEF SchedulePod

\* Reconcile, faults and the other writers.
LEMMA TypeReconcile == TypeOK /\ (\E p \in Pod : Reconcile(p)) => TypeOK'
  BY DEF Reconcile, TypeOK, PCs, PodObject, cluster, history

-----------------------------------------------------------------------------
LEMMA TypeFault == TypeOK /\ Fault => TypeOK'
  <1> SUFFICES ASSUME TypeOK, Fault PROVE TypeOK'
    OBVIOUS
  <1> USE BoundsAssumption
  <1>1. CASE \E n \in Node : filterListError(n)
    BY <1>1, CountType DEF filterListError, TypeOK, cluster, history
  <1>2. CASE readError
    <2>1. CASE Return
      BY <1>2, <2>1, ReturnType, CountType DEF readError, TypeOK, cluster
    <2>2. CASE /\ pc \in {"recheckPod", "recheckPolicy", "recheckEvidence"}
               /\ pc' = "deny"
               /\ UNCHANGED <<snapshots, history>>
      BY <1>2, <2>2, CountType DEF readError, TypeOK, PCs, cluster, snapshots, history
    <2> QED
      BY <1>2, <2>1, <2>2 DEF readError
  <1>3. CASE Crash
    BY <1>3, ReturnType, CountType DEF Crash, TypeOK, cluster
  <1> QED
    BY <1>1, <1>2, <1>3 DEF Fault

LEMMA TypeOthers == TypeOK /\ Others => TypeOK'
  <1> SUFFICES ASSUME TypeOK, Others PROVE TypeOK'
    OBVIOUS
  <1> USE BoundsAssumption, SpecsAssumption
  <1>1. ASSUME NEW kind \in {"pod", "policy", "evidence"}, Touch(kind),
               policies' \in [PolicyName -> PolicySpecs \cup {None}],
               evidence' \in [EvidenceName -> EvidenceObject \cup {None}],
               pods' \in [Pod -> PodObject \cup {None}],
               UNCHANGED <<decisions, ready>>,
               lastUID' \in 0 .. MaxUID, churn' \in 0 .. MaxChurn
        PROVE  TypeOK'
    BY <1>1 DEF Touch, TypeOK, snapshots
  <1>2. ASSUME NEW p \in Pod, NEW hooked \in BOOLEAN, NEW gated \in BOOLEAN,
               CreatePod(p, hooked, gated)
        PROVE  TypeOK'
    <2>1. lastUID' \in UID /\ lastUID' \in 0 .. MaxUID
      <3>1. lastUID < MaxUID /\ lastUID' = lastUID + 1
        BY <1>2 DEF CreatePod
      <3>2. lastUID \in 0 .. MaxUID
        BY DEF TypeOK
      <3> QED
        BY <3>1, <3>2 DEF UID
    <2>2. ASSUME NEW i \in FirstMatch(p)
          PROVE  [uid |-> lastUID',
                  ann |-> [policyHash |-> CanonicalSHA256Hex(policies[i]),
                           maxAge |-> policies[i].maxAge],
                  gated |-> gated, node |-> None] \in PodObject
      <3>1. policies[i] \in PolicySpecs
        BY <2>2 DEF FirstMatch, TypeOK
      <3>2. policies[i].maxAge \in Nat
        BY <3>1 DEF PolicySpec
      <3> QED
        BY <2>1, <3>1, <3>2 DEF PodObject, Annotation, CanonicalSHA256Hex
    <2>3. [uid |-> lastUID', ann |-> None, gated |-> FALSE, node |-> None] \in PodObject
      BY <2>1 DEF PodObject
    <2>4. \E obj \in PodObject : pods' = [pods EXCEPT ![p] = obj]
      BY <1>2, <2>2, <2>3, Zenon DEF CreatePod
    <2>5. pods' \in [Pod -> PodObject \cup {None}]
      BY <2>4 DEF TypeOK
    <2> QED
      BY <1>1, <1>2, <2>1, <2>5 DEF CreatePod, TypeOK
  <1>3. ASSUME NEW p \in Pod, DeletePod(p) PROVE TypeOK'
    <2>1. pods' \in [Pod -> PodObject \cup {None}]
      BY <1>3 DEF DeletePod, TypeOK
    <2>2. Touch("pod") /\ Count /\ UNCHANGED <<policies, evidence, decisions, ready, lastUID>>
      BY <1>3 DEF DeletePod
    <2> QED
      BY <1>1, <2>1, <2>2, CountType DEF TypeOK
  <1>4. ASSUME NEW p \in Pod, LiftGate(p) PROVE TypeOK'
    <2>0. pods[p] \in PodObject
      BY <1>4 DEF LiftGate, TypeOK
    <2>1. [pods[p] EXCEPT !.gated = FALSE] \in PodObject
      BY <2>0, Zenon DEF PodObject
    <2>2. pods' \in [Pod -> PodObject \cup {None}]
      BY <1>4, <2>1 DEF LiftGate, TypeOK
    <2> QED
      BY <1>1, <1>4, <2>2 DEF LiftGate, TypeOK
  <1>5. ASSUME NEW i \in PolicyName, NEW spec \in PolicySpecs \cup {None}, WritePolicy(i, spec)
        PROVE  TypeOK'
    <2>1. policies' \in [PolicyName -> PolicySpecs \cup {None}]
      BY <1>5 DEF WritePolicy, TypeOK
    <2>2. Touch("policy") /\ Count /\ UNCHANGED <<evidence, pods, decisions, ready, lastUID>>
      BY <1>5 DEF WritePolicy
    <2> QED
      BY <1>1, <2>1, <2>2, CountType DEF TypeOK
  <1>6. ASSUME NEW e \in EvidenceName, NEW ev \in EvidenceObject \cup {None},
               EvidenceWrite(e, ev), Count
        PROVE  TypeOK'
    <2>1. evidence' \in [EvidenceName -> EvidenceObject \cup {None}]
      BY <1>6 DEF EvidenceWrite, TypeOK
    <2>2. Touch("evidence") /\ UNCHANGED <<policies, pods, decisions, ready, lastUID>>
      BY <1>6 DEF EvidenceWrite
    <2> QED
      BY <1>1, <1>6, <2>1, <2>2, CountType DEF TypeOK
  <1>7. ASSUME NEW e \in EvidenceName, NEW spec \in EvidenceSpecs[e], WriteEvidenceSpec(e, spec)
        PROVE  TypeOK'
    <2>1. spec \in EvidenceSpec
      OBVIOUS
    <2>2. evidence[e] \in EvidenceObject \cup {None}
      BY DEF TypeOK
    <2>3. [node |-> spec.node, tee |-> spec.tee, simulated |-> spec.simulated,
           verified |-> evidence[e] # None /\ evidence[e].verified,
           revoked |-> evidence[e] # None /\ evidence[e].revoked,
           lastVerified |-> IF evidence[e] = None THEN None ELSE evidence[e].lastVerified]
             \in EvidenceObject
      BY <2>1, <2>2 DEF EvidenceSpec, EvidenceObject
    <2> QED
      BY <1>6, <1>7, <2>3 DEF WriteEvidenceSpec
  <1>8. ASSUME NEW e \in EvidenceName, NEW b \in BOOLEAN, WriteEvidenceStatus(e, b)
        PROVE  TypeOK'
    <2>1. evidence[e] \in EvidenceObject /\ now \in Time
      BY <1>8 DEF WriteEvidenceStatus, TypeOK
    <2>2. [evidence[e] EXCEPT !.verified = b,
                              !.lastVerified = IF b THEN now ELSE @] \in EvidenceObject
      BY <2>1, Zenon DEF EvidenceObject
    <2> QED
      BY <1>6, <1>8, <2>2 DEF WriteEvidenceStatus
  <1>9. ASSUME NEW e \in EvidenceName, NEW b \in BOOLEAN, NEW signed \in BOOLEAN,
               RefreshEvidence(e, b, signed)
        PROVE  TypeOK'
    <2> DEFINE verified == ~b /\ (evidence[e].simulated \/ signed)
    <2>1. evidence[e] \in EvidenceObject /\ now \in Time
      BY <1>9 DEF RefreshEvidence, TypeOK
    <2>2. verified \in BOOLEAN
      OBVIOUS
    <2>3. [evidence[e] EXCEPT !.revoked = b, !.verified = verified,
                              !.lastVerified = IF verified THEN now ELSE @] \in EvidenceObject
      <3> HIDE DEF verified
      <3> QED
        BY <2>1, <2>2, Zenon DEF EvidenceObject
    <2> QED
      BY <1>6, <1>9, <2>3 DEF RefreshEvidence
  <1>10. ASSUME NEW e \in EvidenceName, DeleteEvidence(e) PROVE TypeOK'
    BY <1>6, <1>10 DEF DeleteEvidence
  <1>11. ASSUME NEW d \in DOMAIN decisions, NEW verdict \in {"allow", "deny"},
                WriteDecisionStatus(d, verdict)
         PROVE  TypeOK'
    <2>1. decisions[d] \in Decision
      BY <1>11 DEF WriteDecisionStatus, TypeOK
    <2>2. [decisions[d] EXCEPT !.status = verdict] \in Decision
      BY <2>1 DEF Decision
    <2>3. decisions' \in [{DecisionName[p] : p \in Pod} -> Decision \cup {None}]
      BY <1>11, <2>2 DEF WriteDecisionStatus, TypeOK
    <2> QED
      BY <1>11, <2>3, CountType DEF WriteDecisionStatus, TypeOK, snapshots, history
  <1>12. ASSUME NEW n \in Node, ChangeNode(n) PROVE TypeOK'
    BY <1>12, CountType DEF ChangeNode, TypeOK, snapshots, history
  <1>13. CASE Tick
    <2>1. now < MaxTime /\ now' = now + 1 /\ now \in Time
      BY <1>13 DEF Tick, TypeOK
    <2>2. now' \in Time
      BY <2>1 DEF Time
    <2> QED
      BY <1>13, <2>2 DEF Tick, TypeOK, cluster, snapshots, history
  <1> QED
    BY <1>2, <1>3, <1>4, <1>5, <1>7, <1>8, <1>9, <1>10, <1>11, <1>12, <1>13 DEF Others

LEMMA TypeStep == TypeOK /\ [Next]_vars => TypeOK'
  <1>1. TypeOK /\ UNCHANGED vars => TypeOK'
    BY DEF TypeOK, vars, cluster, snapshots, history
  <1> QED
    BY <1>1, TypeReconcile, TypeSchedulePod, TypeFault, TypeOthers DEF Next

\* The cluster's objects and the worker's locals keep their shape in every
\* behaviour of the scheduler and of the other writers.
THEOREM TypeCorrect == Spec => []TypeOK
  BY TypeInit, TypeStep, PTL DEF Spec
=============================================================================
