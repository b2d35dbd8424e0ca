--------------------------- MODULE SchedulerProofs --------------------------
(***************************************************************************)
(* What Scheduler publishes and binds: tokens rest on valid evidence and   *)
(* are gone under review, the node of a pod is that of its token, and      *)
(* Scheduler implements Placement; all that also beside the manager's      *)
(* reconciler of placement decisions.                                      *)
(***************************************************************************)
EXTENDS PlacementDecision, SchedulerTypes

-----------------------------------------------------------------------------
\* The strengthenings.  AfterSelect and AfterReserve are the steps at which a
\* node is selected and at which the decision has been written.
AfterReserve == {"recheckPod", "recheckPolicy", "recheckEvidence", "deny", "finalize", "bind"}
AfterSelect == {"reserve"} \cup AfterReserve

\* What filter establishes of an evidence for the policy PreFilter read.
Attested(ev, n) == ev.node = n /\ ev.verified /\ ~ev.revoked /\ SatisfiesTEE(ev, policy)

SelectionInv ==
    /\ pc \in {"idle", "preFilter", "listNodes"} => candidates = {}
    /\ \A c \in candidates : Attested(c.ev, c.node)
    /\ pc \in AfterSelect => Attested(selected.ev, selected.node)

\* What the others may do to the cluster while the worker is between two calls.
OthersFrame ==
    /\ UNCHANGED <<pc, snapshots, checkedAt>>
    /\ DOMAIN decisions' = DOMAIN decisions
    /\ \A d \in DOMAIN decisions :
          /\ decisions'[d] = None <=> decisions[d] = None
          /\ decisions[d] # None =>
                /\ decisions'[d].token = decisions[d].token
                /\ decisions'[d].policyRef = decisions[d].policyRef
    /\ \A p \in Pod : \/ pods'[p] = None
                      \/ pods'[p].node = None
                      \/ pods[p] # None /\ pods'[p].node = pods[p].node
    /\ dirty \subseteq dirty'
    /\ pc \in {"recheckPolicy", "recheckEvidence", "finalize", "bind"} =>
          /\ pods' # pods => "pod" \in dirty'
          /\ policies' # policies => "policy" \in dirty'
          /\ evidence' # evidence => "evidence" \in dirty'

LEMMA OthersFrameHolds == TypeOK /\ Others => OthersFrame
  <1> SUFFICES ASSUME TypeOK, Others PROVE OthersFrame
    OBVIOUS
  <1>1. ASSUME NEW p \in Pod, NEW hooked \in BOOLEAN, NEW gated \in BOOLEAN,
               CreatePod(p, hooked, gated)
        PROVE  OthersFrame
    <2>2. \A q \in Pod : pods'[q] = pods[q] \/ pods'[q].node = None
      <3>1. CASE pods' = [pods EXCEPT ![p] =
                [uid |-> lastUID', ann |-> None, gated |-> FALSE, node |-> None]]
        BY <3>1 DEF TypeOK
      <3>2. ASSUME NEW i \in FirstMatch(p),
                   pods' = [pods EXCEPT ![p] =
                       [uid |-> lastUID',
                        ann |-> [policyHash |-> CanonicalSHA256Hex(policies[i]),
                                 maxAge |-> policies[i].maxAge],
                        gated |-> gated, node |-> None]]
            PROVE  \A q \in Pod : pods'[q] = pods[q] \/ pods'[q].node = None
        BY <3>2 DEF TypeOK
      <3> QED
        BY <1>1, <3>1, <3>2, Zenon DEF CreatePod
    <2>3. \A q \in Pod : pods[q] = None \/ pods[q] # None
      OBVIOUS
    <2> QED
      BY <1>1, <2>2, <2>3 DEF CreatePod, Touch, OthersFrame
  <1>2. ASSUME NEW p \in Pod, DeletePod(p) PROVE OthersFrame
    BY <1>2 DEF DeletePod, Touch, OthersFrame, TypeOK
  <1>3. ASSUME NEW p \in Pod, LiftGate(p) PROVE OthersFrame
    <2>1. pods[p] \in PodObject
      BY <1>3 DEF LiftGate, TypeOK
    <2>2. [pods[p] EXCEPT !.gated = FALSE].node = pods[p].node
      BY <2>1 DEF PodObject
    <2>3. \A q \in Pod : \/ pods'[q] = None
                         \/ pods[q] # None /\ pods'[q].node = pods[q].node
      BY <1>3, <2>2 DEF LiftGate, TypeOK
    <2> QED
      BY <1>3, <2>3 DEF LiftGate, Touch, OthersFrame
  <1>4. ASSUME NEW i \in PolicyName, NEW spec \in PolicySpecs \cup {None}, WritePolicy(i, spec)
        PROVE  OthersFrame
    BY <1>4 DEF WritePolicy, Touch, OthersFrame
  <1>5. ASSUME NEW e \in EvidenceName, NEW ev, EvidenceWrite(e, ev) PROVE OthersFrame
    BY <1>5 DEF EvidenceWrite, Touch, OthersFrame
  <1>6. ASSUME NEW d \in DOMAIN decisions, NEW verdict \in {"allow", "deny"},
               WriteDecisionStatus(d, verdict)
        PROVE  OthersFrame
    <2>1. decisions[d] \in Decision
      BY <1>6 DEF WriteDecisionStatus, TypeOK
    <2>2. /\ [decisions[d] EXCEPT !.status = verdict].token = decisions[d].token
          /\ [decisions[d] EXCEPT !.status = verdict].policyRef = decisions[d].policyRef
          /\ [decisions[d] EXCEPT !.status = verdict] \in Decision
      BY <2>1 DEF Decision
    <2>3. decisions' = [decisions EXCEPT ![d] = [decisions[d] EXCEPT !.status = verdict]]
      BY <1>6 DEF WriteDecisionStatus
    <2>4. \A c \in DOMAIN decisions :
             /\ decisions'[c] = None <=> decisions[c] = None
             /\ decisions[c] # None => /\ decisions'[c].token = decisions[c].token
                                       /\ decisions'[c].policyRef = decisions[c].policyRef
      BY <2>1, <2>2, <2>3, NoneAssumption
    <2> QED
      BY <1>6, <2>3, <2>4 DEF WriteDecisionStatus, history, OthersFrame
  <1>7. ASSUME NEW n \in Node, ChangeNode(n) PROVE OthersFrame
    BY <1>7 DEF ChangeNode, history, OthersFrame
  <1>8. CASE Tick
    BY <1>8 DEF Tick, cluster, history, OthersFrame
  <1> QED
    BY <1>1, <1>2, <1>3, <1>4, <1>5, <1>6, <1>7, <1>8, Zenon
    DEF Others, WriteEvidenceSpec, WriteEvidenceStatus, RefreshEvidence, DeleteEvidence

\* The policy a written decision names: a nil policy leaves the old reference.
RefWritten ==
    LET old == decisions[DecisionName[pod.name]]
    IN  IF policy # None THEN policy.name
        ELSE IF old # None THEN old.policyRef ELSE None

\* A write of the decision changes that decision or nothing.
LEMMA UpsertEffect ==
    ASSUME TypeOK, NEW tok \in Token \cup {None}, NEW verdict \in {"pending", "deny", "allow"},
           NEW outcome \in Outcome,
           pod \in [name : Pod, uid : UID], selected \in Candidate,
           Upsert(Written(tok, verdict), outcome)
    PROVE  /\ outcome = "refused" => decisions' = decisions
           /\ outcome # "refused" => \E w \in Decision :
                 /\ w.token = tok /\ w.policyRef = RefWritten
                 /\ decisions' = [decisions EXCEPT ![DecisionName[pod.name]] = w]
  <1>1. CASE outcome = "refused"
    BY <1>1 DEF Upsert
  <1>2. CASE outcome # "refused"
    <2>1. Written(tok, verdict) \in Decision
      BY <1>2, WrittenType DEF Upsert, Outcome
    <2>2. Written(tok, verdict).token = tok /\ Written(tok, verdict).policyRef = RefWritten
      BY DEF Written, Stored, RefWritten
    <2> QED
      BY <1>2, <2>1, <2>2, Zenon DEF Upsert
  <1> QED
    BY <1>1, <1>2

\* Only reserve, deny and finalize write decisions, and only finalize a token.
LEMMA WorkerDecisions ==
    ASSUME TypeOK, (\E p \in Pod : Reconcile(p)) \/ SchedulePod \/ Fault,
           decisions' # decisions
    PROVE  /\ pc \in {"reserve", "deny", "finalize"}
           /\ pod \in [name : Pod, uid : UID] /\ selected \in Candidate
           /\ UNCHANGED <<policies, evidence, pods>>
           /\ \E w \in Decision :
                 /\ decisions' = [decisions EXCEPT ![DecisionName[pod.name]] = w]
                 /\ w.token = IF pc = "finalize" THEN Mint ELSE None
           /\ \/ pc' = "idle"
              \/ pc = "reserve" /\ pc' = "recheckPod" /\ UNCHANGED <<snapshots, history>>
              \/ pc = "finalize" /\ pc' = "bind" /\ UNCHANGED <<snapshots, history>>
  <1>1. CASE reserve
    <2>1. PICK outcome \in Outcome :
             /\ pc = "reserve"
             /\ Upsert(Written(None, "pending"), outcome)
             /\ IF outcome = "applied"
                THEN pc' = "recheckPod" /\ UNCHANGED <<snapshots, history>>
                ELSE Return
             /\ UNCHANGED <<now, policies, evidence, pods, ready, lastUID>>
      BY <1>1 DEF reserve
    <2>2. pod \in [name : Pod, uid : UID] /\ selected \in Candidate
      BY <2>1 DEF TypeOK, PCs
    <2>3. \E w \in Decision :
             w.token = None /\ decisions' = [decisions EXCEPT ![DecisionName[pod.name]] = w]
      BY <2>1, <2>2, UpsertEffect
    <2> QED
      BY <2>1, <2>2, <2>3, Zenon DEF Return
  <1>2. CASE deny
    <2>1. PICK outcome \in Outcome :
             /\ pc = "deny"
             /\ Upsert(Written(None, "deny"), outcome)
             /\ Return
             /\ UNCHANGED <<now, policies, evidence, pods, ready, lastUID>>
      BY <1>2 DEF deny
    <2>2. pod \in [name : Pod, uid : UID] /\ selected \in Candidate
      BY <2>1 DEF TypeOK, PCs
    <2>3. \E w \in Decision :
             w.token = None /\ decisions' = [decisions EXCEPT ![DecisionName[pod.name]] = w]
      BY <2>1, <2>2, UpsertEffect
    <2> QED
      BY <2>1, <2>2, <2>3, Zenon DEF Return
  <1>3. CASE finalize
    <2>1. PICK outcome \in Outcome :
             /\ pc = "finalize"
             /\ Upsert(Written(Mint, "allow"), outcome)
             /\ IF outcome = "applied"
                THEN pc' = "bind" /\ UNCHANGED <<snapshots, history>>
                ELSE Return
             /\ UNCHANGED <<now, policies, evidence, pods, ready, lastUID>>
      BY <1>3 DEF finalize
    <2>2. pod \in [name : Pod, uid : UID] /\ selected \in Candidate
      BY <2>1 DEF TypeOK, PCs
    <2>3. \E w \in Decision :
             w.token = Mint /\ decisions' = [decisions EXCEPT ![DecisionName[pod.name]] = w]
      BY <2>1, <2>2, MintType, UpsertEffect
    <2> QED
      BY <2>1, <2>2, <2>3, Zenon DEF Return
  <1>4. CASE preFilter \/ ListNodes \/ (\E n \in Node : filterNode(n)) \/ permit
             \/ permitTimeout \/ Select
    BY <1>4 DEF preFilter, ListNodes, filterNode, permit, permitTimeout, Select, cluster
  <1>5. CASE preBindPod \/ preBindPolicy \/ preBindEvidence \/ bind
    BY <1>5 DEF preBindPod, preBindPolicy, preBindEvidence, bind, cluster
  <1>6. CASE (\E p \in Pod : Reconcile(p)) \/ Fault
    BY <1>6 DEF Reconcile, Fault, filterListError, readError, Crash, cluster
  <1> QED
    BY <1>1, <1>2, <1>3, <1>4, <1>5, <1>6 DEF SchedulePod

-----------------------------------------------------------------------------
LEMMA SelectionStep == TypeOK /\ SelectionInv /\ [Next]_vars => SelectionInv'
  <1> SUFFICES ASSUME TypeOK, SelectionInv, [Next]_vars PROVE SelectionInv'
    OBVIOUS
  <1> USE DEF AfterReserve, AfterSelect
  <1>1. CASE UNCHANGED <<pc, policy, candidates, selected>>
    BY <1>1 DEF SelectionInv, Attested, SatisfiesTEE
  <1>2. CASE Return
    BY <1>2 DEF Return, SelectionInv
  <1>3. CASE UNCHANGED vars \/ Others
    BY <1>1, <1>3, OthersFrameHolds DEF vars, snapshots, OthersFrame
  <1>4. CASE \E p \in Pod : Reconcile(p)
    BY <1>4 DEF Reconcile, SelectionInv
  <1>5. CASE preFilter \/ ListNodes
    BY <1>5 DEF preFilter, ListNodes, SelectionInv
  <1>6. CASE \E n \in Node : filterNode(n)
    <2>1. PICK n \in Node : filterNode(n)
      BY <1>6
    <2>2. \A e \in EvidenceName : validEvidence(evidence[e], n, policy, now) =>
             Attested(evidence[e], n)
      BY DEF validEvidence, Attested
    <2>3. \A c \in candidates' : Attested(c.ev, c.node)
      <3>1. \A c \in candidates : Attested(c.ev, c.node)
        BY <2>1 DEF filterNode, SelectionInv
      <3>2. CASE UNCHANGED candidates
        BY <3>1, <3>2
      <3>3. ASSUME NEW e \in EvidenceName, validEvidence(evidence[e], n, policy, now),
                   candidates' = candidates \cup {[node |-> n, name |-> e, ev |-> evidence[e]]}
            PROVE  \A c \in candidates' : Attested(c.ev, c.node)
        BY <2>2, <3>1, <3>3
      <3> QED
        BY <2>1, <3>2, <3>3 DEF filterNode
    <2>4. UNCHANGED policy
      BY <2>1 DEF filterNode
    <2>5. \A c \in candidates' : Attested(c.ev, c.node)'
      BY <2>3, <2>4 DEF Attested, SatisfiesTEE
    <2> QED
      BY <2>1, <2>5 DEF filterNode, SelectionInv
  <1>7. CASE permit
    BY <1>7 DEF permit, FilterDone, SelectionInv, Attested, SatisfiesTEE
  <1>8. CASE Select
    BY <1>8 DEF Select, SelectionInv, Attested, SatisfiesTEE
  <1>9. CASE reserve \/ finalize
    <2>1. CASE UNCHANGED snapshots /\ pc' \in AfterSelect /\ pc \in AfterSelect
      BY <2>1 DEF snapshots, SelectionInv, Attested, SatisfiesTEE
    <2> QED
      BY <1>2, <1>9, <2>1 DEF reserve, finalize
  <1>10. CASE preBindPod
    BY <1>10 DEF preBindPod, SelectionInv, Attested, SatisfiesTEE
  <1>11. CASE preBindPolicy \/ preBindEvidence
    BY <1>11 DEF preBindPolicy, preBindEvidence, snapshots, SelectionInv, Attested,
                 SatisfiesTEE
  <1>12. CASE permitTimeout \/ deny \/ bind \/ Crash
    BY <1>2, <1>12 DEF permitTimeout, deny, bind, Crash
  <1>13. CASE \E n \in Node : filterListError(n)
    BY <1>1, <1>13 DEF filterListError
  <1>14. CASE readError
    BY <1>2, <1>14 DEF readError, snapshots, SelectionInv, Attested, SatisfiesTEE
  <1> QED
    BY <1>3, <1>4, <1>5, <1>6, <1>7, <1>8, <1>9, <1>10, <1>11, <1>12, <1>13, <1>14
    DEF Next, SchedulePod, Fault

LEMMA TokenAttestedStep ==
    TypeOK /\ SelectionInv /\ TokenAttested /\ [Next]_vars => TokenAttested'
  <1> SUFFICES ASSUME TypeOK, SelectionInv, TokenAttested, [Next]_vars
               PROVE  TokenAttested'
    OBVIOUS
  <1>1. CASE UNCHANGED decisions
    BY <1>1 DEF TokenAttested, Published
  <1>2. CASE Others
    BY <1>2, OthersFrameHolds DEF OthersFrame, TokenAttested, Published
  <1>3. CASE /\ (\E p \in Pod : Reconcile(p)) \/ SchedulePod \/ Fault
             /\ decisions' # decisions
    <2>1. /\ pc \in {"reserve", "deny", "finalize"}
          /\ pod \in [name : Pod, uid : UID] /\ selected \in Candidate
      BY <1>3, WorkerDecisions
    <2>2. PICK w \in Decision :
             /\ decisions' = [decisions EXCEPT ![DecisionName[pod.name]] = w]
             /\ w.token = IF pc = "finalize" THEN Mint ELSE None
      BY <1>3, WorkerDecisions
    <2>3. pc = "finalize" => Attested(selected.ev, selected.node)
      BY DEF SelectionInv, AfterSelect, AfterReserve
    <2>4. pc = "finalize" =>
             LET ev == Mint.evidenceHash.sha256
             IN  /\ ev.node = Mint.node /\ ev.verified /\ ~ev.revoked
                 /\ Mint.policyHash # None /\ Mint.policyHash.sha256.requiredTEE # {} =>
                       ev.tee \in Mint.policyHash.sha256.requiredTEE
      BY <2>3 DEF Attested, SatisfiesTEE, teeMatches, Mint, evidenceHashForPlacement,
                  CanonicalSHA256Hex
    <2>5. DOMAIN decisions' = DOMAIN decisions
      BY <2>2
    <2>6. ASSUME NEW d \in DOMAIN decisions', Published(d)'
          PROVE  LET tok == decisions'[d].token
                     ev == tok.evidenceHash.sha256
                 IN  /\ ev.node = tok.node /\ ev.verified /\ ~ev.revoked
                     /\ tok.policyHash # None /\ tok.policyHash.sha256.requiredTEE # {} =>
                           ev.tee \in tok.policyHash.sha256.requiredTEE
      <3>1. CASE d = DecisionName[pod.name]
        <4>1. decisions'[d] = w
          BY <2>2, <2>5, <3>1
        <4>2. pc = "finalize" /\ decisions'[d].token = Mint
          BY <2>2, <2>6, <4>1 DEF Published
        <4> QED
          BY <2>4, <4>2
      <3>2. CASE d # DecisionName[pod.name]
        <4>1. decisions'[d] = decisions[d] /\ d \in DOMAIN decisions
          BY <2>2, <2>5, <3>2
        <4> QED
          BY <2>6, <4>1 DEF TokenAttested, Published
      <3> QED
        BY <3>1, <3>2
    <2> QED
      BY <2>6 DEF TokenAttested
  <1> QED
    BY <1>1, <1>2, <1>3 DEF Next, vars, cluster

\* A published token names a node and evidence of that node that was verified,
\* unrevoked and of a TEE the token's own policy asks for, when filter read it.
THEOREM TokensAttested == Spec => []TokenAttested
  <1>1. Init => SelectionInv /\ TokenAttested
    BY DEF Init, SelectionInv, TokenAttested, Published, AfterSelect, AfterReserve
  <1>2. TypeOK /\ SelectionInv /\ TokenAttested /\ [Next]_vars =>
           (SelectionInv /\ TokenAttested)'
    BY SelectionStep, TokenAttestedStep
  <1> QED
    BY <1>1, <1>2, TypeCorrect, PTL DEF Spec

-----------------------------------------------------------------------------
\* The decision exists from Reserve on and names the policy PreFilter found.
DecisionExists ==
    pc \in AfterReserve =>
        /\ decisions[DecisionName[pod.name]] # None
        /\ policy # None => decisions[DecisionName[pod.name]].policyRef = policy.name

Rechecks == {"recheckPod", "recheckPolicy", "recheckEvidence"}

\* A write of the worker that was applied, with the token it carried.
Wrote(tok) ==
    /\ \E w \in Decision :
          /\ w.token = tok /\ w.policyRef = RefWritten
          /\ decisions' = [decisions EXCEPT ![DecisionName[pod.name]] = w]
    /\ UNCHANGED <<policies, evidence, pods, snapshots, history>>

\* How the worker gets from one step to the next.
LEMMA WorkerSteps ==
    ASSUME TypeOK, (\E p \in Pod : Reconcile(p)) \/ SchedulePod \/ Fault
    PROVE  \/ pc' = "idle"
           \/ /\ pc' \in {"preFilter", "listNodes", "filter", "permit", "reserve"}
              /\ UNCHANGED decisions
           \/ pc = "reserve" /\ pc' = "recheckPod" /\ Wrote(None)
           \/ pc = "finalize" /\ pc' = "bind" /\ Wrote(Mint)
           \/ /\ pc \in Rechecks
              /\ pc' \in {"recheckPolicy", "recheckEvidence", "finalize", "deny"}
              /\ UNCHANGED <<cluster, pod, policy, selected>>
  <1>1. CASE reserve
    <2>1. PICK outcome \in Outcome :
             /\ pc = "reserve"
             /\ Upsert(Written(None, "pending"), outcome)
             /\ IF outcome = "applied"
                THEN pc' = "recheckPod" /\ UNCHANGED <<snapshots, history>>
                ELSE Return
             /\ UNCHANGED <<now, policies, evidence, pods, ready, lastUID>>
      BY <1>1 DEF reserve
    <2>2. pod \in [name : Pod, uid : UID] /\ selected \in Candidate
      BY <2>1 DEF TypeOK, PCs
    <2>3. outcome = "applied" => Wrote(None)
      BY <2>1, <2>2, UpsertEffect DEF Wrote
    <2> QED
      BY <2>1, <2>3 DEF Return
  <1>2. CASE finalize
    <2>1. PICK outcome \in Outcome :
             /\ pc = "finalize"
             /\ Upsert(Written(Mint, "allow"), outcome)
             /\ IF outcome = "applied"
                THEN pc' = "bind" /\ UNCHANGED <<snapshots, history>>
                ELSE Return
             /\ UNCHANGED <<now, policies, evidence, pods, ready, lastUID>>
      BY <1>2 DEF finalize
    <2>2. pod \in [name : Pod, uid : UID] /\ selected \in Candidate
      BY <2>1 DEF TypeOK, PCs
    <2>3. outcome = "applied" => Wrote(Mint)
      BY <2>1, <2>2, MintType, UpsertEffect DEF Wrote
    <2> QED
      BY <2>1, <2>3 DEF Return
  <1>3. CASE (\E p \in Pod : Reconcile(p)) \/ preFilter \/ ListNodes
             \/ (\E n \in Node : filterNode(n)) \/ permit \/ Select
             \/ (\E n \in Node : filterListError(n))
    BY <1>3 DEF Reconcile, preFilter, ListNodes, filterNode, permit, Select,
                filterListError, cluster
  <1>4. CASE permitTimeout \/ deny \/ bind \/ Crash
    BY <1>4 DEF permitTimeout, deny, bind, Crash, Return
  <1>5. CASE preBindPod \/ preBindPolicy \/ preBindEvidence \/ readError
    BY <1>5, Zenon DEF preBindPod, preBindPolicy, preBindEvidence, readError, Return, Rechecks,
                snapshots
  <1> QED
    BY <1>1, <1>2, <1>3, <1>4, <1>5 DEF SchedulePod, Fault

ReviewInv == DecisionExists /\ NoTokenUnderReview

LEMMA ReviewStep == TypeOK /\ ReviewInv /\ [Next]_vars => ReviewInv'
  <1> SUFFICES ASSUME TypeOK, ReviewInv, [Next]_vars PROVE ReviewInv'
    OBVIOUS
  <1> USE DEF ReviewInv, DecisionExists, NoTokenUnderReview, Published, AfterReserve
  <1>0. pc # "idle" => /\ pod \in [name : Pod, uid : UID]
                       /\ DecisionName[pod.name] \in DOMAIN decisions
    BY DEF TypeOK
  <1>1. CASE UNCHANGED vars
    BY <1>1 DEF vars, cluster, snapshots
  <1>2. CASE Others
    <2>1. UNCHANGED <<pc, pod, policy>>
      BY <1>2, OthersFrameHolds DEF OthersFrame, snapshots
    <2>2. CASE pc \in AfterReserve
      BY <1>0, <1>2, <2>1, <2>2, OthersFrameHolds DEF OthersFrame
    <2>3. CASE pc \notin AfterReserve
      BY <2>1, <2>3
    <2> QED
      BY <2>2, <2>3
  <1>3. CASE pc' \in {"idle", "preFilter", "listNodes", "filter", "permit", "reserve"}
    BY <1>3
  <1>4. CASE pc = "reserve" /\ pc' = "recheckPod" /\ Wrote(None)
    BY <1>0, <1>4, NoneAssumption DEF Wrote, RefWritten, snapshots
  <1>5. CASE pc = "finalize" /\ pc' = "bind" /\ Wrote(Mint)
    BY <1>0, <1>5, NoneAssumption DEF Wrote, RefWritten, snapshots
  <1>6. CASE /\ pc \in Rechecks
             /\ pc' \in {"recheckPolicy", "recheckEvidence", "finalize", "deny"}
             /\ UNCHANGED <<cluster, pod, policy, selected>>
    BY <1>6 DEF Rechecks, cluster
  <1> QED
    BY <1>1, <1>2, <1>3, <1>4, <1>5, <1>6, WorkerSteps DEF Next

LEMMA ReviewInvariant == Spec => []ReviewInv
  <1>1. Init => ReviewInv
    BY DEF Init, ReviewInv, DecisionExists, NoTokenUnderReview, AfterReserve
  <1> QED
    BY <1>1, ReviewStep, TypeCorrect, PTL DEF Spec

\* A decision under review carries no token.
THEOREM NoTokensUnderReview == Spec => []NoTokenUnderReview
  BY ReviewInvariant, PTL DEF ReviewInv

\* A published token is withdrawn before another one is published.
THEOREM TokensWithdrawnFirst == Spec => TokenWithdrawnFirst
  <1> DEFINE Kept == \A d \in DOMAIN decisions :
                Published(d) /\ Published(d)' => decisions'[d].token = decisions[d].token
  <1>1. TypeOK /\ ReviewInv /\ [Next]_vars => [Kept]_vars
    <2> SUFFICES ASSUME TypeOK, ReviewInv, Next PROVE Kept
      OBVIOUS
    <2>1. CASE UNCHANGED decisions
      BY <2>1 DEF Published
    <2>2. CASE Others
      BY <2>2, OthersFrameHolds DEF OthersFrame, Published
    <2>3. CASE /\ (\E p \in Pod : Reconcile(p)) \/ SchedulePod \/ Fault
               /\ decisions' # decisions
      <3>1. pc \in {"reserve", "deny", "finalize"}
        BY <2>3, WorkerDecisions
      <3>2. PICK w \in Decision :
               /\ decisions' = [decisions EXCEPT ![DecisionName[pod.name]] = w]
               /\ w.token = IF pc = "finalize" THEN Mint ELSE None
        BY <2>3, WorkerDecisions
      <3>3. pc = "finalize" => ~Published(DecisionName[pod.name])
        BY DEF ReviewInv, NoTokenUnderReview
      <3> QED
        BY <3>1, <3>2, <3>3 DEF Published
    <2> QED
      BY <2>1, <2>2, <2>3 DEF Next
  <1> QED
    BY <1>1, TypeCorrect, ReviewInvariant, PTL DEF Spec, TokenWithdrawnFirst

-----------------------------------------------------------------------------
\* Binding: the pod being scheduled is unbound, and at Bind its decision carries
\* the token of the selected node.
DistinctNames == \A p, q \in Pod : DecisionName[p] = DecisionName[q] => p = q

BindingInv ==
    /\ pc # "idle" => pods[pod.name] = None \/ pods[pod.name].node = None
    /\ pc = "bind" => /\ Published(DecisionName[pod.name])
                      /\ decisions[DecisionName[pod.name]].token.node = selected.node
    /\ BoundToTokenNode

LEMMA BindingStep ==
    ASSUME DistinctNames PROVE TypeOK /\ BindingInv /\ [Next]_vars => BindingInv'
  <1> SUFFICES ASSUME TypeOK, BindingInv, [Next]_vars PROVE BindingInv'
    OBVIOUS
  <1>0. pc # "idle" => /\ pod \in [name : Pod, uid : UID]
                       /\ DecisionName[pod.name] \in DOMAIN decisions
    BY DEF TypeOK
  <1>00. \A p \in Pod : DecisionName[p] \in DOMAIN decisions
    BY DEF TypeOK
  <1>1. CASE UNCHANGED vars
    BY <1>1 DEF vars, cluster, snapshots, BindingInv, BoundToTokenNode, Published
  <1>2. CASE Others
    <2>1. OthersFrame
      BY <1>2, OthersFrameHolds
    <2>2. UNCHANGED <<pc, pod, selected>>
      BY <2>1 DEF OthersFrame, snapshots
    <2>3. \A d \in DOMAIN decisions :
             Published(d) => Published(d)' /\ decisions'[d].token = decisions[d].token
      BY <2>1 DEF OthersFrame, Published
    <2>4. \A p \in Pod : pods'[p] # None /\ pods'[p].node # None =>
             pods[p] # None /\ pods[p].node = pods'[p].node
      BY <2>1 DEF OthersFrame
    <2>5. BoundToTokenNode'
      BY <1>00, <2>3, <2>4 DEF BindingInv, BoundToTokenNode
    <2>6. pc' # "idle" => pods'[pod'.name] = None \/ pods'[pod'.name].node = None
      BY <1>0, <2>2, <2>4 DEF BindingInv
    <2>7. pc' = "bind" => /\ Published(DecisionName[pod.name])'
                          /\ decisions'[DecisionName[pod.name]].token.node = selected.node
      BY <1>0, <2>2, <2>3 DEF BindingInv
    <2> QED
      BY <2>2, <2>5, <2>6, <2>7 DEF BindingInv
  <1>3. CASE \E p \in Pod : Reconcile(p)
    <2>1. UNCHANGED <<pods, decisions>> /\ pc' = "preFilter"
      BY <1>3 DEF Reconcile, cluster
    <2>2. BoundToTokenNode'
      BY <2>1 DEF BindingInv, BoundToTokenNode, Published
    <2>3. pods'[pod'.name].node = None
      BY <1>3 DEF Reconcile, cluster
    <2> QED
      BY <2>1, <2>2, <2>3 DEF BindingInv
  <1>4. CASE bind
    <2>1. PICK outcome \in Outcome :
             /\ pc = "bind"
             /\ outcome # "refused" => Bindable(pod.name)
             /\ pods' = IF outcome = "refused" THEN pods
                        ELSE [pods EXCEPT ![pod.name].node = selected.node]
             /\ pc' = "idle"
             /\ UNCHANGED decisions
      BY <1>4 DEF bind, Return, Outcome
    <2>2. ASSUME NEW p \in Pod, pods'[p] # None, pods'[p].node # None
          PROVE  /\ Published(DecisionName[p])
                 /\ decisions[DecisionName[p]].token.node = pods'[p].node
      <3>1. CASE pods'[p] = pods[p]
        BY <2>2, <3>1 DEF BindingInv, BoundToTokenNode
      <3>2. CASE pods'[p] # pods[p]
        <4>1. p = pod.name /\ outcome # "refused"
          BY <1>0, <2>1, <3>2 DEF TypeOK
        <4>2. pods[p] \in PodObject
          BY <2>1, <4>1 DEF Bindable, TypeOK
        <4>3. pods'[p] = [pods[p] EXCEPT !.node = selected.node]
          BY <2>1, <4>1 DEF TypeOK
        <4>4. pods'[p].node = selected.node
          BY <4>2, <4>3 DEF PodObject
        <4> QED
          BY <2>1, <4>1, <4>4 DEF BindingInv
      <3> QED
        BY <3>1, <3>2
    <2> QED
      BY <2>1, <2>2 DEF BindingInv, BoundToTokenNode, Published
  <1>5. CASE (SchedulePod /\ ~bind) \/ Fault
    <2>0. UNCHANGED pods /\ pc # "idle"
      BY <1>5, Zenon DEF SchedulePod, Fault, preFilter, ListNodes, filterNode, permit, permitTimeout,
             FilterDone, Select, reserve, preBindPod, preBindPolicy, preBindEvidence, deny,
             finalize, filterListError, readError, Crash, cluster
    <2>1. pc' # "idle" => UNCHANGED pod
      BY <1>5, Zenon DEF SchedulePod, Fault, preFilter, ListNodes, filterNode, permit, permitTimeout,
             Select, reserve, preBindPod, preBindPolicy, preBindEvidence, deny,
             finalize, filterListError, readError, Crash, Return, snapshots
    <2>2. pc' # "idle" => pods'[pod'.name] = None \/ pods'[pod'.name].node = None
      BY <2>0, <2>1 DEF BindingInv
    <2>3. BoundToTokenNode'
      <3>1. CASE UNCHANGED decisions
        BY <2>0, <3>1 DEF BindingInv, BoundToTokenNode, Published
      <3>2. CASE decisions' # decisions
        <4>1. PICK w : decisions' = [decisions EXCEPT ![DecisionName[pod.name]] = w]
          BY <1>5, <3>2, WorkerDecisions
        <4>2. ASSUME NEW p \in Pod, pods[p] # None, pods[p].node # None
              PROVE  decisions'[DecisionName[p]] = decisions[DecisionName[p]]
          <5>1. p # pod.name
            BY <2>0, <4>2 DEF BindingInv
          <5>2. DecisionName[p] # DecisionName[pod.name]
            BY <1>0, <2>0, <5>1 DEF DistinctNames
          <5> QED
            BY <1>00, <4>1, <5>2
        <4> QED
          BY <2>0, <4>2 DEF BindingInv, BoundToTokenNode, Published
      <3> QED
        BY <3>1, <3>2
    <2>4. pc' = "bind" => /\ Published(DecisionName[pod.name])'
                          /\ decisions'[DecisionName[pod.name]].token.node = selected'.node
      <3>1. SUFFICES ASSUME pc' = "bind" PROVE
                /\ Published(DecisionName[pod.name])'
                /\ decisions'[DecisionName[pod.name]].token.node = selected'.node
        OBVIOUS
      <3>2. pc = "finalize" /\ Wrote(Mint)
        BY <1>5, <3>1, WorkerSteps
      <3>3. selected \in Candidate /\ Mint \in Token
        BY <1>0, <3>2, MintType DEF TypeOK, PCs
      <3>4. Mint.node = selected.node
        BY DEF Mint
      <3> QED
        BY <1>0, <3>2, <3>3, <3>4, NoneAssumption DEF Wrote, Published, snapshots
    <2> QED
      BY <2>1, <2>2, <2>3, <2>4 DEF BindingInv
  <1> QED
    BY <1>1, <1>2, <1>3, <1>4, <1>5 DEF Next, SchedulePod

\* Where no two pods share a decision name, a bound pod is on the node its
\* decision's token names.
THEOREM PodsBoundToTokenNode ==
    ASSUME DistinctNames PROVE Spec => []BoundToTokenNode
  <1>1. Init => BindingInv
    BY DEF Init, BindingInv, BoundToTokenNode
  <1>2. TypeOK /\ BindingInv /\ [Next]_vars => BindingInv'
    BY BindingStep
  <1>3. BindingInv => BoundToTokenNode
    BY DEF BindingInv
  <1> QED
    BY <1>1, <1>2, <1>3, TypeCorrect, PTL DEF Spec

-----------------------------------------------------------------------------
\* PreBind: what each re-read has established, until somebody writes the object.
ConsistentAnn(a) == a # None => a.maxAge = a.policyHash.sha256.maxAge

Current == policies[decisions[DecisionName[pod.name]].policyRef]

PreBindInv ==
    /\ \A p \in Pod : pods[p] # None => ConsistentAnn(pods[p].ann)
    /\ ConsistentAnn(latestPod)
    /\ pc \in {"recheckPolicy", "recheckEvidence", "finalize", "bind"} /\ "pod" \notin dirty =>
          pods[pod.name] # None /\ pods[pod.name].ann = latestPod
    /\ pc \in {"recheckEvidence", "finalize", "bind"} =>
          /\ latestPod # None
          /\ "policy" \notin dirty =>
                Current # None /\ CanonicalSHA256Hex(Current) = latestPod.policyHash
    /\ pc \in {"finalize", "bind"} =>
          /\ "evidence" \notin dirty => evidence[selected.name] = selected.ev
          /\ ~TooOld(selected.ev, latestPod.maxAge, checkedAt)

\* Admission writes the hash and the age of the same policy on a pod.
LEMMA AnnotationsConsistent ==
    ASSUME TypeOK, Others, \A p \in Pod : pods[p] # None => ConsistentAnn(pods[p].ann)
    PROVE  \A p \in Pod : pods'[p] # None => ConsistentAnn(pods'[p].ann)
  <1>1. CASE UNCHANGED pods
    BY <1>1
  <1>2. ASSUME NEW p \in Pod, NEW hooked \in BOOLEAN, NEW gated \in BOOLEAN,
               CreatePod(p, hooked, gated)
        PROVE  \A q \in Pod : pods'[q] # None => ConsistentAnn(pods'[q].ann)
    <2>1. CASE pods' = [pods EXCEPT ![p] =
              [uid |-> lastUID', ann |-> None, gated |-> FALSE, node |-> None]]
      BY <2>1 DEF TypeOK, ConsistentAnn
    <2>2. ASSUME NEW i \in FirstMatch(p),
                 pods' = [pods EXCEPT ![p] =
                     [uid |-> lastUID',
                      ann |-> [policyHash |-> CanonicalSHA256Hex(policies[i]),
                               maxAge |-> policies[i].maxAge],
                      gated |-> gated, node |-> None]]
          PROVE  \A q \in Pod : pods'[q] # None => ConsistentAnn(pods'[q].ann)
      BY <2>2 DEF TypeOK, ConsistentAnn, CanonicalSHA256Hex
    <2> QED
      BY <1>2, <2>1, <2>2, Zenon DEF CreatePod
  <1>3. ASSUME NEW p \in Pod, DeletePod(p)
        PROVE  \A q \in Pod : pods'[q] # None => ConsistentAnn(pods'[q].ann)
    BY <1>3 DEF DeletePod, TypeOK
  <1>4. ASSUME NEW p \in Pod, LiftGate(p)
        PROVE  \A q \in Pod : pods'[q] # None => ConsistentAnn(pods'[q].ann)
    <2>1. pods[p] \in PodObject
      BY <1>4 DEF LiftGate, TypeOK
    <2>2. [pods[p] EXCEPT !.gated = FALSE].ann = pods[p].ann
      BY <2>1 DEF PodObject
    <2>3. \A q \in Pod : pods'[q] # None => pods[q] # None /\ pods'[q].ann = pods[q].ann
      BY <1>4, <2>2 DEF LiftGate, TypeOK
    <2> QED
      BY <2>3
  <1> QED
    BY <1>1, <1>2, <1>3, <1>4, Zenon
    DEF Others, WritePolicy, WriteEvidenceSpec, WriteEvidenceStatus, RefreshEvidence,
        DeleteEvidence, EvidenceWrite, WriteDecisionStatus, ChangeNode, Tick, cluster

LEMMA PreBindStep == TypeOK /\ ReviewInv /\ PreBindInv /\ [Next]_vars => PreBindInv'
  <1> SUFFICES ASSUME TypeOK, ReviewInv, PreBindInv, [Next]_vars PROVE PreBindInv'
    OBVIOUS
  <1>0. pc # "idle" => /\ pod \in [name : Pod, uid : UID]
                       /\ DecisionName[pod.name] \in DOMAIN decisions
    BY DEF TypeOK
  <1>1. CASE UNCHANGED vars
    BY <1>1 DEF vars, cluster, snapshots, history, PreBindInv, Current
  <1>2. CASE Others
    <2>1. OthersFrame
      BY <1>2, OthersFrameHolds
    <2>2. \A p \in Pod : pods'[p] # None => ConsistentAnn(pods'[p].ann)
      BY <1>2, AnnotationsConsistent DEF PreBindInv
    <2>3. UNCHANGED <<pc, pod, latestPod, selected, checkedAt>> /\ dirty \subseteq dirty'
      BY <2>1 DEF OthersFrame, snapshots
    <2>4. pc \in {"recheckEvidence", "finalize", "bind"} =>
             decisions'[DecisionName[pod.name]].policyRef =
                decisions[DecisionName[pod.name]].policyRef
      BY <1>0, <2>1 DEF OthersFrame, ReviewInv, DecisionExists, AfterReserve
    <2>5. pc \in {"recheckPolicy", "recheckEvidence", "finalize", "bind"} =>
             /\ "pod" \notin dirty' => pods' = pods
             /\ "policy" \notin dirty' => policies' = policies
             /\ "evidence" \notin dirty' => evidence' = evidence
      BY <2>1 DEF OthersFrame
    <2> QED
      BY <2>2, <2>3, <2>4, <2>5 DEF PreBindInv, Current
  <1>3. CASE pc' \in {"idle", "preFilter", "listNodes", "filter", "permit", "reserve",
                      "recheckPod", "deny"}
             /\ UNCHANGED <<pods, latestPod>>
    BY <1>3 DEF PreBindInv
  <1>4. CASE Return /\ ((\E p \in Pod : Reconcile(p)) \/ SchedulePod \/ Fault)
    <2>1. \A p \in Pod : pods'[p] # None => pods[p] # None /\ pods'[p].ann = pods[p].ann
      <3>1. CASE UNCHANGED pods
        BY <3>1
      <3>2. CASE bind
        <4>1. PICK outcome \in Outcome :
                 /\ outcome # "refused" => Bindable(pod.name)
                 /\ pods' = IF outcome = "refused" THEN pods
                            ELSE [pods EXCEPT ![pod.name].node = selected.node]
          BY <3>2 DEF bind, Outcome
        <4>2. pc # "idle"
          BY <3>2 DEF bind
        <4>3. outcome # "refused" => pods[pod.name] \in PodObject
          BY <1>0, <4>1, <4>2 DEF Bindable, TypeOK
        <4>4. outcome # "refused" =>
                 [pods[pod.name] EXCEPT !.node = selected.node].ann = pods[pod.name].ann
          BY <4>3 DEF PodObject
        <4> QED
          BY <1>0, <4>1, <4>2, <4>3, <4>4, NoneAssumption DEF TypeOK
      <3> QED
        BY <1>4, <3>1, <3>2, Zenon DEF SchedulePod, Fault, Reconcile, preFilter, ListNodes, filterNode,
             permit, permitTimeout, Select, reserve, preBindPod, preBindPolicy, preBindEvidence,
             deny, finalize, filterListError, readError, Crash, cluster
    <2> QED
      BY <1>4, <2>1 DEF Return, PreBindInv, ConsistentAnn
  <1>5. CASE reserve \/ deny \/ bind \/ permitTimeout \/ Crash
    BY <1>3, <1>4, <1>5 DEF reserve, deny, bind, permitTimeout, Crash, SchedulePod, Fault,
                            snapshots
  <1>6. CASE (\E p \in Pod : Reconcile(p)) \/ preFilter \/ ListNodes
             \/ (\E n \in Node : filterNode(n)) \/ permit \/ Select
             \/ (\E n \in Node : filterListError(n))
    BY <1>3, <1>6, Zenon DEF Reconcile, preFilter, ListNodes, filterNode, permit, Select,
                      filterListError, cluster
  <1>7. CASE readError
    BY <1>3, <1>4, <1>7 DEF readError, Fault, cluster, snapshots
  <1>8. CASE finalize
    <2>1. CASE Return
      BY <1>4, <1>8, <2>1 DEF SchedulePod
    <2>2. CASE pc' = "bind" /\ UNCHANGED <<snapshots, history>>
      <3>1. pc = "finalize" /\ UNCHANGED <<policies, evidence, pods>>
        BY <1>8 DEF finalize
      <3>2. Wrote(Mint)
        BY <1>8, <2>2, WorkerSteps DEF SchedulePod, Rechecks
      <3>3. decisions'[DecisionName[pod.name]].policyRef =
               decisions[DecisionName[pod.name]].policyRef
        BY <1>0, <3>1, <3>2 DEF Wrote, RefWritten, ReviewInv, DecisionExists, AfterReserve
      <3> QED
        BY <2>2, <3>1, <3>3, Zenon DEF PreBindInv, Current, snapshots, history
    <2> QED
      BY <1>8, <2>1, <2>2 DEF finalize
  <1>9. CASE preBindPod
    <2>1. pc = "recheckPod" /\ UNCHANGED <<cluster, pod, selected, checkedAt>>
      BY <1>9 DEF preBindPod
    <2>2. CASE pods[pod.name] = None
      BY <1>9, <2>1, <2>2 DEF preBindPod, PreBindInv, ConsistentAnn, cluster
    <2>3. CASE pods[pod.name] # None
      BY <1>0, <1>9, <2>1, <2>3 DEF preBindPod, PreBindInv, cluster
    <2> QED
      BY <2>2, <2>3
  <1>10. CASE preBindPolicy
    <2>1. CASE pc' = "deny"
      BY <1>3, <1>10, <2>1 DEF preBindPolicy, cluster, snapshots
    <2>2. CASE pc' = "recheckEvidence"
      BY <1>10, <2>2 DEF preBindPolicy, PreBindInv, Current, cluster, snapshots
    <2> QED
      BY <1>10, <2>1, <2>2 DEF preBindPolicy
  <1>11. CASE preBindEvidence
    <2>1. CASE pc' = "deny"
      BY <1>3, <1>11, <2>1 DEF preBindEvidence, cluster, snapshots
    <2>2. CASE pc' = "finalize"
      <3>1. evidence[selected.name] = selected.ev
        BY <1>11, <2>2 DEF preBindEvidence, evidenceHashForPlacement, CanonicalSHA256Hex
      <3> QED
        BY <1>11, <2>2, <3>1 DEF preBindEvidence, PreBindInv, Current, TooOld, cluster, snapshots
    <2> QED
      BY <1>11, <2>1, <2>2 DEF preBindEvidence
  <1> QED
    BY <1>1, <1>2, <1>5, <1>6, <1>7, <1>8, <1>9, <1>10, <1>11 DEF Next, SchedulePod, Fault

LEMMA PreBindInvariant == Spec => []PreBindInv
  <1>1. Init => PreBindInv
    BY DEF Init, PreBindInv, ConsistentAnn
  <1> QED
    BY <1>1, PreBindStep, TypeCorrect, ReviewInvariant, PTL DEF Spec

\* When the Binding is sent, the selected evidence and the policy are as PreBind
\* re-read them, unless somebody wrote them since.
THEOREM BindsReflectCluster == Spec => []BindReflectsCluster
  <1>1. TypeOK /\ SelectionInv /\ PreBindInv => BindReflectsCluster
    BY DEF SelectionInv, Attested, AfterSelect, AfterReserve, PreBindInv, Current,
           BindReflectsCluster
  <1>2. Init => SelectionInv
    BY DEF Init, SelectionInv, AfterSelect, AfterReserve
  <1> QED
    BY <1>1, <1>2, SelectionStep, PreBindInvariant, TypeCorrect, PTL DEF Spec

\* The evidence behind a Bind was fresh for the policy in force when PreBind
\* looked at it.
THEOREM BindsFresh == Spec => []FreshForCurrentPolicy
  <1>1. TypeOK /\ ReviewInv /\ PreBindInv => FreshForCurrentPolicy
    <2> SUFFICES ASSUME TypeOK, ReviewInv, PreBindInv, pc \in {"finalize", "bind"},
                        "policy" \notin dirty,
                        Current.maxAge > 0, selected.ev.lastVerified # None
                 PROVE  checkedAt - selected.ev.lastVerified <= Current.maxAge
      BY DEF FreshForCurrentPolicy, Current
    <2>1. latestPod \in Annotation /\ Current \in PolicySpecs
      <3>1. latestPod # None /\ Current # None
        BY DEF PreBindInv
      <3>2. pod \in [name : Pod, uid : UID]
        BY DEF TypeOK
      <3>3. decisions[DecisionName[pod.name]] \in Decision
        BY <3>2 DEF TypeOK, ReviewInv, DecisionExists, AfterReserve
      <3> QED
        BY <3>1, <3>3 DEF TypeOK, Decision, Current
    <2>2. latestPod.maxAge = Current.maxAge
      BY DEF PreBindInv, ConsistentAnn, CanonicalSHA256Hex
    <2>3. Current.maxAge \in Nat
      BY <2>1, SpecsAssumption DEF PolicySpec
    <2>4. selected.ev.lastVerified \in Time /\ checkedAt \in Time
      BY DEF TypeOK, PCs, Candidate, EvidenceObject
    <2>5. ~TooOld(selected.ev, Current.maxAge, checkedAt)
      BY <2>2 DEF PreBindInv
    <2>6. selected.ev.lastVerified \in Int /\ checkedAt \in Int
      BY <2>4, BoundsAssumption DEF Time
    <2>7. ~(checkedAt - selected.ev.lastVerified > Current.maxAge)
      BY <2>5 DEF TooOld
    <2>8. \A age, limit \in Int : ~(age > limit) => age <= limit
      OBVIOUS
    <2>9. checkedAt - selected.ev.lastVerified \in Int /\ Current.maxAge \in Int
      BY <2>3, <2>6
    <2> QED
      BY <2>7, <2>8, <2>9, Zenon
  <1> QED
    BY <1>1, TypeCorrect, ReviewInvariant, PreBindInvariant, PTL DEF Spec

-----------------------------------------------------------------------------
\* The others write at most one pod at a time.
LEMMA OthersWriteOnePod ==
    ASSUME TypeOK, Others
    PROVE  UNCHANGED pods \/ \E p \in Pod : \A q \in Pod : q # p => pods'[q] = pods[q]
  <1>1. ASSUME NEW p \in Pod, NEW w, pods' = [pods EXCEPT ![p] = w]
        PROVE  \E r \in Pod : \A q \in Pod : q # r => pods'[q] = pods[q]
    BY <1>1 DEF TypeOK
  <1>2. ASSUME NEW p \in Pod, NEW hooked \in BOOLEAN, NEW gated \in BOOLEAN,
               CreatePod(p, hooked, gated)
        PROVE  \E r \in Pod : \A q \in Pod : q # r => pods'[q] = pods[q]
    BY <1>1, <1>2, Zenon DEF CreatePod
  <1>3. ASSUME NEW p \in Pod, DeletePod(p) \/ LiftGate(p)
        PROVE  \E r \in Pod : \A q \in Pod : q # r => pods'[q] = pods[q]
    BY <1>1, <1>3, Zenon DEF DeletePod, LiftGate
  <1> QED
    BY <1>2, <1>3, Zenon
    DEF Others, WritePolicy, WriteEvidenceSpec, WriteEvidenceStatus, RefreshEvidence,
        DeleteEvidence, EvidenceWrite, WriteDecisionStatus, ChangeNode, Tick, cluster

\* The token of a pod depends on its decision alone, and its node on the pod alone.
LEMMA TokenOfDecision ==
    ASSUME TypeOK, DOMAIN decisions' = DOMAIN decisions,
           \A d \in DOMAIN decisions :
              /\ decisions'[d] = None <=> decisions[d] = None
              /\ decisions[d] # None => decisions'[d].token = decisions[d].token
    PROVE  TokenOf' = TokenOf
  <1>1. \A p \in Pod : DecisionName[p] \in DOMAIN decisions
    BY DEF TypeOK
  <1> QED
    BY <1>1 DEF TokenOf, Published

\* What the others do to a placement is at most to delete the pod.
LEMMA OthersMap == ASSUME TypeOK, Others PROVE P!Next \/ UNCHANGED <<TokenOf, NodeOf>>
  <1>1. OthersFrame
    BY OthersFrameHolds
  <1>2. TokenOf' = TokenOf
    BY <1>1, TokenOfDecision DEF OthersFrame
  <1>3. CASE UNCHANGED pods
    BY <1>2, <1>3 DEF NodeOf
  <1>4. ASSUME NEW p \in Pod, \A q \in Pod : q # p => pods'[q] = pods[q]
        PROVE  P!Next \/ UNCHANGED NodeOf
    <2>1. NodeOf'[p] = None \/ NodeOf'[p] = NodeOf[p]
      BY <1>1 DEF OthersFrame, NodeOf
    <2>2. \A q \in Pod : q # p => NodeOf'[q] = NodeOf[q]
      BY <1>4 DEF NodeOf
    <2>3. CASE NodeOf'[p] = NodeOf[p]
      <3>1. \A q \in Pod : NodeOf'[q] = NodeOf[q]
        BY <2>2, <2>3
      <3> QED
        BY <3>1 DEF NodeOf
    <2>4. CASE NodeOf'[p] = None
      <3>1. NodeOf' = [NodeOf EXCEPT ![p] = None]
        BY <2>2, <2>4 DEF NodeOf
      <3> QED
        BY <1>2, <3>1 DEF P!Next, P!Unbind
    <2> QED
      BY <2>1, <2>3, <2>4
  <1> QED
    BY <1>2, <1>3, <1>4, OthersWriteOnePod

\* A Binding that the API server takes is a Bind.
LEMMA BindMaps ==
    ASSUME TypeOK, BindingInv, bind PROVE P!Next \/ UNCHANGED <<TokenOf, NodeOf>>
  <1>1. PICK outcome \in Outcome :
           /\ pc = "bind"
           /\ outcome # "refused" => Bindable(pod.name)
           /\ pods' = IF outcome = "refused" THEN pods
                      ELSE [pods EXCEPT ![pod.name].node = selected.node]
           /\ UNCHANGED decisions
    BY DEF bind, Outcome
  <1>2. TokenOf' = TokenOf
    BY <1>1 DEF TokenOf, Published
  <1>3. CASE outcome = "refused"
    BY <1>1, <1>2, <1>3 DEF NodeOf
  <1>4. CASE outcome # "refused"
    <2>1. pod.name \in Pod
      BY <1>1 DEF TypeOK
    <2>2. pods[pod.name] \in PodObject /\ pods[pod.name].node = None
      BY <1>1, <1>4, <2>1 DEF Bindable, TypeOK
    <2>3. pods' = [pods EXCEPT ![pod.name] = [pods[pod.name] EXCEPT !.node = selected.node]]
      BY <1>1, <1>4
    <2>4. /\ [pods[pod.name] EXCEPT !.node = selected.node] \in PodObject
          /\ [pods[pod.name] EXCEPT !.node = selected.node].node = selected.node
      <3>1. selected \in Candidate
        BY <1>1 DEF TypeOK
      <3> QED
        BY <2>2, <3>1 DEF PodObject, Candidate
    <2>5. NodeOf' = [NodeOf EXCEPT ![pod.name] = selected.node]
      BY <2>1, <2>3, <2>4, NoneAssumption DEF NodeOf, TypeOK
    <2>6. NodeOf[pod.name] = None
      BY <2>1, <2>2 DEF NodeOf
    <2>7. /\ Published(DecisionName[pod.name])
          /\ decisions[DecisionName[pod.name]].token.node = selected.node
      BY <1>1 DEF BindingInv
    <2>8. TokenOf[pod.name] # None /\ TokenOf[pod.name].node = selected.node
      BY <2>1, <2>7 DEF TokenOf, Published
    <2> QED
      BY <1>2, <2>1, <2>5, <2>6, <2>8 DEF P!Next, P!Bind
  <1> QED
    BY <1>3, <1>4

\* A write of a decision is a Publish or a Withdraw.
LEMMA WriteMaps ==
    ASSUME DistinctNames, TypeOK, SelectionInv, ReviewInv, BindingInv,
           (\E p \in Pod : Reconcile(p)) \/ SchedulePod \/ Fault, decisions' # decisions
    PROVE  P!Next
  <1>1. /\ pc \in {"reserve", "deny", "finalize"}
        /\ pod \in [name : Pod, uid : UID] /\ selected \in Candidate
        /\ UNCHANGED pods
    BY WorkerDecisions
  <1>2. PICK w \in Decision :
           /\ decisions' = [decisions EXCEPT ![DecisionName[pod.name]] = w]
           /\ w.token = IF pc = "finalize" THEN Mint ELSE None
    BY WorkerDecisions
  <1>3. NodeOf' = NodeOf /\ NodeOf[pod.name] = None
    BY <1>1 DEF NodeOf, BindingInv
  <1>4. \A p \in Pod : DecisionName[p] \in DOMAIN decisions
    BY DEF TypeOK
  <1>5. TokenOf' = [TokenOf EXCEPT ![pod.name] = w.token]
    <2>1. ASSUME NEW p \in Pod
          PROVE  TokenOf'[p] = IF p = pod.name THEN w.token ELSE TokenOf[p]
      <3>1. CASE p = pod.name
        BY <1>1, <1>2, <1>4, <3>1, NoneAssumption DEF TokenOf, Published
      <3>2. CASE p # pod.name
        <4>1. DecisionName[p] # DecisionName[pod.name]
          BY <1>1, <3>2 DEF DistinctNames
        <4>2. decisions'[DecisionName[p]] = decisions[DecisionName[p]]
          BY <1>2, <1>4, <4>1
        <4> QED
          BY <3>2, <4>2 DEF TokenOf, Published
      <3> QED
        BY <3>1, <3>2
    <2> QED
      BY <1>1, <2>1 DEF TokenOf
  <1>6. CASE pc = "finalize"
    <2>1. TokenOf[pod.name] = None
      BY <1>1, <1>6 DEF ReviewInv, NoTokenUnderReview, TokenOf
    <2>2. Mint \in Token
      BY <1>1, MintType DEF TypeOK
    <2>3. Attested(selected.ev, selected.node)
      BY <1>6 DEF SelectionInv, AfterSelect, AfterReserve
    <2>4. Mint \in AttestedTokens
      BY <2>2, <2>3 DEF AttestedTokens, Attested, Mint, evidenceHashForPlacement,
                        CanonicalSHA256Hex
    <2>5. TokenOf'[pod.name] = Mint
      BY <1>1, <1>2, <1>5, <1>6 DEF TokenOf
    <2>6. TokenOf' = [TokenOf EXCEPT ![pod.name] = TokenOf'[pod.name]]
      BY <1>2, <1>5, <1>6, <2>5
    <2>7. P!Publish(pod.name)
      BY <1>3, <2>1, <2>4, <2>5, <2>6 DEF P!Publish
    <2> QED
      BY <1>1, <2>7 DEF P!Next
  <1>7. CASE pc # "finalize"
    <2>1. P!Withdraw(pod.name)
      BY <1>2, <1>3, <1>5, <1>7 DEF P!Withdraw
    <2> QED
      BY <1>1, <2>1 DEF P!Next
  <1> QED
    BY <1>6, <1>7

\* Where no two pods share a decision name, the scheduler implements Placement:
\* tokens come and go only while their pod is unbound, and a pod is bound only to
\* the node of its published, attested token.
THEOREM SchedulerImplementsPlacement ==
    ASSUME DistinctNames PROVE Spec => ImplementsPlacement
  <1>1. Init => P!Init
    BY DEF Init, P!Init, TokenOf, NodeOf, Published
  <1>2. TypeOK /\ SelectionInv /\ ReviewInv /\ BindingInv /\ [Next]_vars =>
           [P!Next]_<<TokenOf, NodeOf>>
    <2> SUFFICES ASSUME TypeOK, SelectionInv, ReviewInv, BindingInv, [Next]_vars
                 PROVE  P!Next \/ UNCHANGED <<TokenOf, NodeOf>>
      OBVIOUS
    <2>1. CASE UNCHANGED <<pods, decisions>>
      BY <2>1 DEF TokenOf, NodeOf, Published
    <2>2. CASE Others
      BY <2>2, OthersMap
    <2>3. CASE bind
      BY <2>3, BindMaps
    <2>4. CASE /\ (\E p \in Pod : Reconcile(p)) \/ SchedulePod \/ Fault
               /\ decisions' # decisions
      BY <2>4, WriteMaps
    <2>5. CASE /\ (\E p \in Pod : Reconcile(p)) \/ (SchedulePod /\ ~bind) \/ Fault
               /\ decisions' = decisions
      <3>1. UNCHANGED pods
        BY <2>5, Zenon DEF SchedulePod, Fault, Reconcile, preFilter, ListNodes, filterNode,
             permit, permitTimeout, Select, reserve, preBindPod, preBindPolicy,
             preBindEvidence, deny, finalize, filterListError, readError, Crash, cluster
      <3> QED
        BY <2>1, <2>5, <3>1
    <2> QED
      BY <2>1, <2>2, <2>3, <2>4, <2>5 DEF Next, vars, cluster
  <1>3. Init => SelectionInv /\ BindingInv
    BY DEF Init, SelectionInv, AfterSelect, AfterReserve, BindingInv, BoundToTokenNode
  <1>4. DistinctNames
    OBVIOUS
  <1>5. TypeOK /\ BindingInv /\ [Next]_vars => BindingInv'
    BY <1>4, BindingStep
  <1> QED
    BY <1>1, <1>2, <1>3, <1>5, SelectionStep, TypeCorrect, ReviewInvariant, PTL
    DEF Spec, ImplementsPlacement, P!Spec

-----------------------------------------------------------------------------
(***************************************************************************)
(* PlacementDecision: the manager's reconciler beside the scheduler.       *)
(***************************************************************************)

\* Nothing is decided before the policy has been read, and versions only grow.
ManagerType ==
    /\ versions \in [DOMAIN decisions -> Nat] /\ queue \subseteq DOMAIN decisions
    /\ work # None => work \in Work /\ work.version <= versions[work.name]

\* A decision without a verdict is one the reconciler still has before it.
Pending(d) == d \in queue \/ (work # None /\ work.name = d)

JudgedInv ==
    \A d \in DOMAIN decisions :
        decisions[d] # None => Pending(d) \/ decisions[d].status \in {"allow", "deny"}

\* The resourceVersion tells whether the decision is still the one Get returned.
VersionInv ==
    work # None /\ versions[work.name] = work.version => decisions[work.name] = work.decision

ManagerInv == ManagerType /\ JudgedInv /\ VersionInv

LEMMA DecisionNames == ASSUME TypeOK PROVE DOMAIN decisions = {DecisionName[p] : p \in Pod}
  BY DEF TypeOK

\* Every step of the composition is one of the scheduler and the other writers, or
\* leaves them alone: the status write is the one Scheduler knows.
LEMMA SchedulerStep ==
    ASSUME TypeOK, ManagerType, [PNext]_allVars PROVE [Next]_vars
  <1>1. CASE Elsewhere
    BY <1>1 DEF Elsewhere, Next
  <1>2. CASE UpdateStatus
    <2>1. work.name \in DOMAIN decisions /\ work.verdict \in {"allow", "deny"}
      BY <1>2, DecisionNames DEF UpdateStatus, ManagerType, Work
    <2>2. CASE UNCHANGED vars
      BY <2>2
    <2>3. CASE WriteDecisionStatus(work.name, work.verdict)
      BY <2>1, <2>3 DEF Next, Others
    <2> QED
      BY <1>2, <2>2, <2>3 DEF UpdateStatus
  <1>3. CASE UNCHANGED vars
    BY <1>3
  <1> QED
    BY <1>1, <1>2, <1>3
    DEF PNext, Reconciler, Get, fetchConfidentialPolicy, fetchAttestationEvidence,
        ManagerFault, ManagerRestart, allVars

\* A write by anybody else makes a new version and an event of the decision.
LEMMA ElsewhereKeeps ==
    ASSUME TypeOK, TypeOK', ManagerInv, Events, UNCHANGED work PROVE ManagerInv'
  <1> DEFINE written == {d \in DOMAIN decisions : decisions'[d] # decisions[d]}
  <1>1. DOMAIN decisions' = DOMAIN decisions
    BY DEF TypeOK
  <1>2. /\ versions' = [d \in DOMAIN decisions |->
                           IF d \in written THEN versions[d] + 1 ELSE versions[d]]
        /\ queue' = queue \cup written
    BY DEF Events
  <1> HIDE DEF written
  <1>3. \A d \in DOMAIN decisions : /\ versions'[d] \in Nat /\ versions[d] \in Nat
                                    /\ versions'[d] >= versions[d]
                                    /\ versions'[d] = versions[d] => d \notin written
    BY <1>2 DEF ManagerInv, ManagerType
  <1>4. ManagerType'
    <2>1. versions' \in [DOMAIN decisions' -> Nat]
      BY <1>1, <1>2, <1>3
    <2>2. queue' \subseteq DOMAIN decisions'
      BY <1>1, <1>2 DEF ManagerInv, ManagerType, written
    <2>3. ASSUME work' # None
          PROVE  work' \in Work /\ work'.version <= versions'[work'.name]
      <3>1. work \in Work /\ work.version <= versions[work.name] /\ work' = work
        BY <2>3 DEF ManagerInv, ManagerType
      <3>2. work.name \in DOMAIN decisions /\ work.version \in Nat
        BY <3>1, DecisionNames DEF Work
      <3> QED
        BY <1>3, <3>1, <3>2
    <2> QED
      BY <2>1, <2>2, <2>3 DEF ManagerType
  <1>5. JudgedInv'
    <2> SUFFICES ASSUME NEW d \in DOMAIN decisions, decisions'[d] # None, ~Pending(d)'
                 PROVE  decisions'[d].status \in {"allow", "deny"}
      BY <1>1 DEF JudgedInv
    <2>1. d \notin written /\ ~Pending(d)
      BY <1>2 DEF Pending
    <2> QED
      BY <2>1 DEF written, ManagerInv, JudgedInv
  <1>6. VersionInv'
    <2> SUFFICES ASSUME work # None, versions'[work.name] = work.version
                 PROVE  decisions'[work.name] = work.decision
      BY DEF VersionInv
    <2>1. work \in Work /\ work.version <= versions[work.name]
      BY DEF ManagerInv, ManagerType
    <2>2. work.name \in DOMAIN decisions /\ work.version \in Nat
      BY <2>1, DecisionNames DEF Work
    <2>3. versions[work.name] = work.version /\ work.name \notin written
      BY <1>3, <2>1, <2>2
    <2> QED
      BY <2>2, <2>3 DEF written, ManagerInv, VersionInv
  <1> QED
    BY <1>4, <1>5, <1>6 DEF ManagerInv

\* A step of the reconciler that leaves the cluster alone, and drops or keeps its
\* decision: what it drops is queued, or has a verdict.
LEMMA DropKeeps ==
    ASSUME ManagerInv, UNCHANGED <<vars, versions>>, work' = None,
           queue' \subseteq DOMAIN decisions,
           \A d \in DOMAIN decisions : Pending(d) /\ decisions[d] # None =>
              d \in queue' \/ decisions[d].status \in {"allow", "deny"}
    PROVE  ManagerInv'
  <1>1. decisions' = decisions /\ versions' = versions
    BY DEF vars, cluster
  <1> QED
    BY <1>1 DEF ManagerInv, ManagerType, JudgedInv, VersionInv, Pending

LEMMA AdvanceKeeps ==
    ASSUME ManagerInv, UNCHANGED <<vars, queue, versions>>, work # None, work' \in Work,
           work'.name = work.name, work'.version = work.version,
           work'.decision = work.decision
    PROVE  ManagerInv'
  <1>1. decisions' = decisions /\ versions' = versions
    BY DEF vars, cluster
  <1>2. work' # None
    BY DeclaredAssumption
  <1> QED
    BY <1>1, <1>2 DEF ManagerInv, ManagerType, JudgedInv, VersionInv, Pending

\* Retry puts the decision back.
LEMMA RetryKeeps ==
    ASSUME TypeOK, ManagerInv, UNCHANGED <<vars, versions>>, work # None, Retry
    PROVE  ManagerInv'
  <1>1. work.name \in DOMAIN decisions
    BY DecisionNames DEF ManagerInv, ManagerType, Work
  <1>2. queue' \subseteq DOMAIN decisions
    BY <1>1 DEF Retry, ManagerInv, ManagerType
  <1>3. \A d \in DOMAIN decisions : Pending(d) => d \in queue'
    BY DEF Retry, Pending
  <1> QED
    BY <1>2, <1>3, DropKeeps DEF Retry

LEMMA ReconcilerKeeps ==
    ASSUME TypeOK, TypeOK', ManagerInv, Reconciler PROVE ManagerInv'
  <1>1. ASSUME NEW d \in DOMAIN decisions, Get(d) PROVE ManagerInv'
    <2>1. CASE decisions[d] = None
      <3>1. queue' \subseteq DOMAIN decisions
        BY <1>1 DEF Get, ManagerInv, ManagerType
      <3>2. \A c \in DOMAIN decisions : Pending(c) /\ decisions[c] # None => c \in queue'
        BY <1>1, <2>1 DEF Get, Pending
      <3> QED
        BY <1>1, <2>1, <3>1, <3>2, DropKeeps DEF Get
    <2>2. CASE decisions[d] # None
      <3>1. /\ decisions[d] \in Decision /\ versions[d] \in Nat
            /\ d \in {DecisionName[p] : p \in Pod}
        BY <2>2, DecisionNames DEF TypeOK, ManagerInv, ManagerType
      <3>2. /\ work' = [name |-> d, version |-> versions[d], decision |-> decisions[d],
                        policy |-> None, verdict |-> None]
            /\ decisions' = decisions /\ versions' = versions
        BY <1>1, <2>2 DEF Get, vars, cluster
      <3>3. work' \in Work /\ work' # None
        BY <3>1, <3>2, DeclaredAssumption DEF Work
      <3>4. /\ work'.name = d /\ work'.version = versions[d]
            /\ work'.decision = decisions[d]
        BY <3>2
      <3>5. ManagerType'
        BY <1>1, <3>1, <3>2, <3>3, <3>4 DEF Get, ManagerInv, ManagerType
      <3>6. \A c \in DOMAIN decisions : Pending(c) => Pending(c)'
        BY <1>1, <3>3, <3>4 DEF Get, Pending
      <3>7. JudgedInv'
        BY <3>2, <3>6 DEF ManagerInv, JudgedInv
      <3>8. VersionInv'
        BY <3>2, <3>4 DEF VersionInv
      <3> QED
        BY <3>5, <3>7, <3>8 DEF ManagerInv
    <2> QED
      BY <2>1, <2>2
  <1>2. CASE fetchConfidentialPolicy
    <2> DEFINE spec == policies[work.decision.policyRef]
    <2>1. work \in Work /\ work # None
      BY <1>2 DEF fetchConfidentialPolicy, ManagerInv, ManagerType
    <2>2. spec \in PolicySpecs \cup {None}
      BY <2>1 DEF Work, Decision, TypeOK
    <2>3. CASE spec = None
      BY <1>2, <2>3, RetryKeeps DEF fetchConfidentialPolicy
    <2>4. CASE spec # None
      <3>1. work' = [work EXCEPT !.policy = spec] /\ UNCHANGED <<vars, queue, versions>>
        BY <1>2, <2>4 DEF fetchConfidentialPolicy
      <3> HIDE DEF spec
      <3>2. /\ work' \in Work /\ work'.name = work.name
            /\ work'.version = work.version /\ work'.decision = work.decision
        BY <2>1, <2>2, <3>1 DEF Work
      <3> QED
        BY <2>1, <3>1, <3>2, AdvanceKeeps
    <2> QED
      BY <2>3, <2>4
  <1>3. CASE fetchAttestationEvidence
    <2> DEFINE e == work.decision.evidenceRef
               verdict == Evaluate(work.policy, e, evidence[e])
    <2>1. work \in Work /\ work # None
      BY <1>3 DEF fetchAttestationEvidence, ManagerInv, ManagerType
    <2>2. verdict \in {"allow", "deny"}
      BY DEF Evaluate
    <2>3. CASE evidence[e] = None
      BY <1>3, <2>3, RetryKeeps DEF fetchAttestationEvidence
    <2>4. CASE evidence[e] # None
      <3>1. work' = [work EXCEPT !.verdict = verdict] /\ UNCHANGED <<vars, queue, versions>>
        BY <1>3, <2>4 DEF fetchAttestationEvidence
      <3> HIDE DEF verdict
      <3>2. /\ work' \in Work /\ work'.name = work.name
            /\ work'.version = work.version /\ work'.decision = work.decision
        BY <2>1, <2>2, <3>1 DEF Work
      <3> QED
        BY <2>1, <3>1, <3>2, AdvanceKeeps
    <2> QED
      BY <2>3, <2>4
  <1>4. CASE UpdateStatus
    <2> DEFINE d == work.name
    <2>1. /\ work # None /\ d \in DOMAIN decisions
          /\ work.verdict \in {"allow", "deny"}
      BY <1>4, DecisionNames DEF UpdateStatus, ManagerInv, ManagerType, Work
    <2>2. CASE versions[d] # work.version /\ Retry /\ UNCHANGED <<vars, versions>>
      BY <2>1, <2>2, RetryKeeps
    <2>3. CASE /\ work' = None /\ decisions[d].status = work.verdict
               /\ UNCHANGED <<vars, queue, versions>>
      BY <2>1, <2>3, DropKeeps DEF ManagerInv, ManagerType, Pending
    <2>4. CASE /\ work' = None
               /\ WriteDecisionStatus(d, work.verdict) /\ Events
      <3>1. DOMAIN decisions' = DOMAIN decisions
        BY DEF TypeOK
      <3>2. d \in queue' /\ queue \subseteq queue'
        <4>1. decisions[d] \in Decision
          BY <2>1, <2>4 DEF WriteDecisionStatus, TypeOK
        <4>2. decisions'[d].status = work.verdict /\ decisions[d].status # work.verdict
          BY <2>1, <2>4, <4>1 DEF WriteDecisionStatus, Decision
        <4> QED
          BY <2>1, <2>4, <4>2 DEF Events
      <3>3. versions' \in [DOMAIN decisions -> Nat] /\ queue' \subseteq DOMAIN decisions
        BY <2>4 DEF Events, ManagerInv, ManagerType
      <3>4. \A c \in DOMAIN decisions : c # d => decisions'[c] = decisions[c]
        BY <2>4 DEF WriteDecisionStatus
      <3>5. JudgedInv'
        BY <2>1, <2>4, <3>1, <3>2, <3>4 DEF ManagerInv, JudgedInv, Pending
      <3> QED
        BY <2>4, <3>1, <3>3, <3>5 DEF ManagerInv, ManagerType, VersionInv
    <2> QED
      BY <1>4, <2>2, <2>3, <2>4 DEF UpdateStatus
  <1>5. CASE ManagerFault
    BY <1>5, RetryKeeps DEF ManagerFault
  <1>6. CASE ManagerRestart
    BY <1>6, DropKeeps DEF ManagerRestart
  <1> QED
    BY <1>1, <1>2, <1>3, <1>4, <1>5, <1>6 DEF Reconciler

LEMMA ManagerStep ==
    TypeOK /\ ManagerInv /\ [PNext]_allVars => [Next]_vars /\ (TypeOK /\ ManagerInv)'
  <1> SUFFICES ASSUME TypeOK, ManagerInv, [PNext]_allVars
               PROVE  [Next]_vars /\ (TypeOK /\ ManagerInv)'
    OBVIOUS
  <1>1. [Next]_vars
    BY SchedulerStep DEF ManagerInv
  <1>2. TypeOK'
    BY <1>1, TypeStep
  <1>3. ASSUME UNCHANGED allVars PROVE ManagerInv'
    BY <1>3
    DEF allVars, manager, vars, cluster, ManagerInv, ManagerType, JudgedInv, VersionInv, Pending
  <1>4. ASSUME Elsewhere PROVE ManagerInv'
    BY <1>2, <1>4, ElsewhereKeeps DEF Elsewhere
  <1> QED
    BY <1>1, <1>2, <1>3, <1>4, ReconcilerKeeps DEF PNext

LEMMA ManagerInvariant == PSpec => [](TypeOK /\ ManagerInv)
  <1>1. PInit => TypeOK /\ ManagerInv
    <2> SUFFICES ASSUME PInit PROVE TypeOK /\ ManagerInv
      OBVIOUS
    <2>1. TypeOK
      BY TypeInit DEF PInit
    <2>2. \A d \in DOMAIN decisions : decisions[d] = None
      BY DEF PInit, Init
    <2> QED
      BY <2>1, <2>2 DEF PInit, ManagerInv, ManagerType, JudgedInv, VersionInv
  <1> QED
    BY <1>1, ManagerStep, PTL DEF PSpec

\* However the reconciler's reads and its write interleave with the scheduler's, all
\* it does to a decision is one write of the status: with it beside the scheduler,
\* what is shown of Scheduler holds.
THEOREM ReconcilerImplementsScheduler == PSpec => ImplementsScheduler
  <1>1. PInit => Init
    BY DEF PInit
  <1> QED
    BY <1>1, ManagerInvariant, ManagerStep, PTL DEF PSpec, ImplementsScheduler, Spec

\* When the reconciler has nothing more to do, every decision says allow or deny.
THEOREM DecisionsJudged == PSpec => []EveryDecisionJudged
  <1>1. ManagerInv => EveryDecisionJudged
    BY DEF ManagerInv, JudgedInv, Pending, EveryDecisionJudged, Quiet
  <1> QED
    BY <1>1, ManagerInvariant, PTL

\* The status is written on the very decision that was judged: while the version is
\* the one Get returned, so are the references and the token.
THEOREM JudgedAsRead == PSpec => []VersionInv
  BY ManagerInvariant, PTL DEF ManagerInv

\* With the reconciler beside the scheduler, tokens still rest on valid evidence and are
\* gone while a placement is under review, and Bind still goes by what PreBind re-read.
COROLLARY TokensBesideReconciler ==
    PSpec => [](/\ TokenAttested /\ NoTokenUnderReview
                /\ BindReflectsCluster /\ FreshForCurrentPolicy)
  BY ReconcilerImplementsScheduler, TokensAttested, NoTokensUnderReview,
     BindsReflectCluster, BindsFresh, PTL
  DEF ImplementsScheduler

=============================================================================
