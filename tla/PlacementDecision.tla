-------------------------- MODULE PlacementDecision --------------------------
(***************************************************************************)
(* The manager's reconciler of AIPlacementDecisions                        *)
(* (internal/controller/aiplacementdecision_controller.go and              *)
(* internal/placement), running beside the scheduler.  The scheduler writes*)
(* the decision and its token, the reconciler its status: one object, two  *)
(* processes, kept apart by the resourceVersion only.                      *)
(*                                                                         *)
(* Module Scheduler stands for the reconciler by one atomic action,        *)
(* WriteDecisionStatus.  Here it takes that action's place with its reads  *)
(* one by one, and ImplementsScheduler says that nothing more comes of it. *)
(***************************************************************************)
EXTENDS Scheduler

CONSTANT Declared   \* EvidenceName -> spec.freshness.maxAgeSeconds of its evidence

\* What Reconcile holds between two calls.
Work == [name : {DecisionName[p] : p \in Pod}, version : Nat, decision : Decision,
         policy : PolicySpecs \cup {None}, verdict : {"allow", "deny", None}]

ASSUME DeclaredAssumption == Declared \in [EvidenceName -> Nat] /\ None \notin Work

VARIABLES
    queue,      \* decisions the workqueue holds
    work,       \* the Reconcile under way, or None
    versions    \* decision name -> its resourceVersion

manager == <<queue, work, versions>>
allVars == <<vars, manager>>

PInit ==
    /\ Init
    /\ queue = {} /\ work = None /\ versions = [d \in DOMAIN decisions |-> 0]

\* Every write that changes a decision gives it a new version and an event.
Events ==
    LET written == {d \in DOMAIN decisions : decisions'[d] # decisions[d]}
    IN  /\ versions' = [d \in DOMAIN decisions |->
                           IF d \in written THEN versions[d] + 1 ELSE versions[d]]
        /\ queue' = queue \cup written

-----------------------------------------------------------------------------
\* placement.Evaluate, for the policy and evidence the decision names.  The required
\* runtime class is the evidence's own, so that it never differs.
Evaluate(spec, e, ev) ==
    IF \/ ev.revoked
       \/ spec.maxAge > 0 /\ Declared[e] > spec.maxAge
       \/ spec.requiredTEE # {} /\ ev.tee \notin spec.requiredTEE
    THEN "deny" ELSE "allow"

Get(d) ==
    /\ work = None /\ d \in queue
    /\ queue' = queue \ {d}
    /\ work' = IF decisions[d] = None THEN None
               ELSE [name |-> d, version |-> versions[d], decision |-> decisions[d],
                     policy |-> None, verdict |-> None]
    /\ UNCHANGED <<vars, versions>>

\* Reconcile returns an error: the queue hands it the decision again.
Retry == work' = None /\ queue' = queue \cup {work.name}

\* Mutant: the error is logged and dropped.
FetchPolicyQuietly ==
    /\ work # None /\ work.policy = None
    /\ LET spec == policies[work.decision.policyRef]
       IN  IF spec = None THEN work' = None /\ UNCHANGED queue
           ELSE work' = [work EXCEPT !.policy = spec] /\ UNCHANGED queue
    /\ UNCHANGED <<vars, versions>>

fetchConfidentialPolicy ==
    /\ work # None /\ work.policy = None
    /\ LET spec == policies[work.decision.policyRef]
       IN  IF spec = None THEN Retry
           ELSE work' = [work EXCEPT !.policy = spec] /\ UNCHANGED queue
    /\ UNCHANGED <<vars, versions>>

fetchAttestationEvidence ==
    /\ work # None /\ work.policy # None /\ work.verdict = None
    /\ LET e == work.decision.evidenceRef
       IN  IF evidence[e] = None THEN Retry
           ELSE /\ work' = [work EXCEPT !.verdict = Evaluate(work.policy, e, evidence[e])]
                /\ UNCHANGED queue
    /\ UNCHANGED <<vars, versions>>

\* Mutant: the decision is written as a whole, over whatever it is by then.
WriteWhole ==
    /\ work # None /\ work.verdict # None
    /\ LET d == work.name
           new == [work.decision EXCEPT !.status = work.verdict]
       IN  /\ decisions' = [decisions EXCEPT ![d] = new]
           /\ IF decisions[d] = new THEN UNCHANGED churn ELSE Count
           /\ Events
    /\ work' = None
    /\ UNCHANGED <<now, policies, evidence, pods, ready, lastUID, pc, snapshots, history>>

\* The status is written if the decision is still the one Get returned.
UpdateStatus ==
    /\ work # None /\ work.verdict # None
    /\ LET d == work.name
       IN  \/ versions[d] # work.version /\ Retry /\ UNCHANGED <<vars, versions>>
           \/ /\ versions[d] = work.version /\ work' = None
              /\ IF decisions[d].status = work.verdict
                 THEN UNCHANGED <<vars, queue, versions>>
                 ELSE WriteDecisionStatus(d, work.verdict) /\ Events

\* A read or the write fails.
ManagerFault ==
    /\ work # None /\ Retry
    /\ UNCHANGED <<vars, versions>>

\* The manager starts again and lists every decision.
ManagerRestart ==
    /\ work' = None /\ queue' = {d \in DOMAIN decisions : decisions[d] # None}
    /\ UNCHANGED <<vars, versions>>

Reconciler ==
    \/ \E d \in DOMAIN decisions : Get(d)
    \/ fetchConfidentialPolicy \/ fetchAttestationEvidence \/ UpdateStatus
    \/ ManagerFault \/ ManagerRestart

\* The scheduler and everybody else: the steps of Next other than the status write,
\* which alone of Others changes a decision.
Elsewhere ==
    /\ \/ (\E p \in Pod : Reconcile(p)) \/ SchedulePod \/ Fault
       \/ UNCHANGED decisions /\ Others
    /\ Events
    /\ UNCHANGED work

PNext == Reconciler \/ Elsewhere

PSpec == PInit /\ [][PNext]_allVars

-----------------------------------------------------------------------------
Quiet == queue = {} /\ work = None

\* Beside the scheduler, the reconciler that reads and writes in several steps does
\* what one atomic write of the status does: it never brings back a token that the
\* scheduler has withdrawn, nor undoes another write of the decision, so that all
\* that is shown of Scheduler holds with it.
ImplementsScheduler == Spec

\* No decision is left without a verdict: when the reconciler has nothing more to do,
\* every decision says allow or deny, whatever errors and conflicts it met.
EveryDecisionJudged ==
    Quiet => \A d \in DOMAIN decisions :
        decisions[d] # None => decisions[d].status \in {"allow", "deny"}

-----------------------------------------------------------------------------
\* What the documentation says and the code does not do.

\* "Un seul écart -> status.decision = deny, et AUCUN jeton n'est émis" (README.md):
\* when scheduler and reconciler are done, a decision that says allow has its token.
AllowMeansToken ==
    Quiet /\ pc = "idle" =>
        \A d \in DOMAIN decisions :
            decisions[d] # None /\ decisions[d].status = "allow" => Published(d)

\* "L'AIPlacementDecision passe à status.decision = allow, le jeton est stocké dans une
\* annotation" (README.md): a decision with a token does not say deny.
TokenMeansAllow ==
    Quiet /\ pc = "idle" =>
        \A d \in DOMAIN decisions : Published(d) => decisions[d].status = "allow"

=============================================================================
