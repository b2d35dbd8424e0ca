# Formal model of the AI confidential operator

TLA+ modules that model the operator's controllers, scheduler, webhooks and services;
TLC configurations that check them on small instances; abstract specifications of what
placements and evidence promise, with refinements; and TLAPS proofs, for every value of
the constants, of all safety properties the runs check. Paths below are relative to
`src/`.

## 1. The system

Seven custom resources carry all the state; the components meet only at the API server.

| Component | State it owns | Operations | Module |
|---|---|---|---|
| node-attestation-agent (`cmd/node-attestation-agent`) | RawAttestationReports | choose a token source, create a report with a token and a nonce | `Verifier` |
| central-verifier (`internal/controller/rawattestationreport_controller.go`, `pkg/attestation/maa`) | AttestationEvidence spec, status; report status | fetch keys, verify, write spec, write status, mark processed, refresh | `Verifier` |
| revocation reconcilers (`airevocationpolicy_controller.go`, `attestationevidence_controller.go`) | status of AIRevocationPolicy, of evidence | date, expire, revoke, refresh | `Revocation` |
| admission webhooks (`internal/webhook/podinjector`) | the pod being admitted | mutate, validate | `Admission` |
| webhook bootstrap (`internal/webhook/bootstrap`) | webhook configurations, CA, runtime classes | make a CA, register, serve | `Bootstrap` (runtime classes in `Admission`) |
| attestation-scheduler (`internal/scheduler`, `cmd/attestation-scheduler`) | AIPlacementDecision, token, Binding | PreFilter, Filter, Permit, Score, Reserve, PreBind, Mint, Bind | `Scheduler` |
| placement reconciler (`aiplacementdecision_controller.go`, `internal/placement`) | AIPlacementDecision status | judge a decision | `PlacementDecision` |
| key release decision (`internal/keyrelease`, `pkg/token`) | none | Evaluate, Verify, VerifyForPod | `KeyRelease` |
| key-release-gateway (`cmd/key-release-gateway`) | its public key | release or refuse a key | `KeyGateway` |
| key release reconciler (`aikeyreleasepolicy_controller.go`) | AIKeyReleasePolicy status | resolve evidence, decide | `KeyReleasePolicy` |
| audit chain reconciler (`aievidencerecord_controller.go`) | AIEvidenceRecord status | digest a record | `EvidenceRecord` |
| console (`internal/console`, `ui/console`) | any custom resource | open, save, create, delete | `Console` |
| approvals and signed ConfigMaps (`internal/approval`, `internal/evidence`, `pkg/crypto`) | none | sign, verify, key lists | `Approvals` |

How they interact: the verifier turns reports into evidence; revocation marks evidence;
admission copies policy hash and age limit onto a pod; the scheduler selects a node by
evidence, re-checks pod, policy and evidence, publishes a token on a decision and binds;
the manager writes the same decision's status; the gateway releases keys on that token.

What makes it hard: every component reads and writes in several calls with all others in
between; writes are refused, or applied with the answer lost; processes restart; the
status is a subresource that plain writes leave alone; times are compared at the edge.
The hazards are listed, with their lines, in `PROJECT.json`.

## 2. Modelling conventions

* One action per call to the API server, the code around the call included. A write has
  three outcomes where the code can tell them apart: applied, refused, lost answer.
* A status update carries the version last read. Modules keep a `stale` flag (set by any
  other write) or a version number, and refuse the update when it is out of date.
* A workqueue is a set: it holds a key once, gives keys out in any order, and takes a key
  again after an error. A status write that changes an object enqueues it again.
* `CanonicalSHA256Hex(v)` is a record around `v`: it determines `v` and is not `v`. A
  signature is the key's name. Text is reduced to the words the code searches for.
* `None` is nil, NotFound and the empty string (`Absent` in Bootstrap and `Null` in Console,
  whose proofs share a module with those of EvidenceRecord). Every bound is a constant
  `Max...`.
* A definition under a comment `Mutant:` is a plausible bug. It is not used by the
  specification; `PROJECT.json` pairs it with the property that detects it.
* Externals (API server, kubelet, users, controller-runtime) are modelled from how the
  code uses them, and are marked external in the map.

## 3. Modules

**Scheduler.** `policies`, `evidence`, `pods`, `decisions`, `ready` are the cluster; `pc`
and the snapshot variables are the locals of `SchedulePod`. `preFilter`, `ListNodes`,
`filterNode` (one node of the loop), `permit`, `permitTimeout`, `Select`, `reserve`,
`preBindPod`, `preBindPolicy`, `preBindEvidence`, `deny`, `finalize` and `bind` follow
`scheduler.go` call by call. `Fault` is a failed read or a crash, `Others` everybody else.
`dirty` and `checkedAt` are history: what was written since PreBind read it, and when it
looked at the evidence. Taints, selectors and affinity are the set `ready`.

**Placement** is what scheduling promises the key gateway, the kubelet and an auditor, in
two variables: the token on each pod's decision and the node each pod is bound to. Tokens
rest on attested evidence, come and go only while the pod is unbound, and a pod is bound
to the node of its token. `Scheduler` refines it (`ImplementsPlacement`): `TokenOf` and
`NodeOf` map decisions and pods, `finalize` is a `Publish`, `reserve` and `deny` a
`Withdraw` or invisible, `bind` a `Bind`, the deletion of a bound pod an `Unbind`.

**PlacementDecision** extends Scheduler with the manager's reconciler, its reads one by
one. `ImplementsScheduler` says the composition is a Scheduler behaviour: the reconciler
refines the atomic action `WriteDecisionStatus`.

**Verifier.** An agent has token sources (`readToken` picks the first configured of file,
helper, endpoint and environment; only the helper is told the nonce) and the kind of token
it gets. `Reconcile` takes a report from the queue and verifies its token against what the
issuer's key endpoint answers just then (`VerifyMAAToken`); `upsertEvidence`,
`updateEvidenceStatus` and `markProcessed` are the three writes. `fetchJWKS` and `keyFunc`
are the code's map of usable keys by kid, the last of a kid winning, and its fallback for
tokens without one. `claimsFromMap` counts the layers of base64 left on the nonce: it may be
a claim of its own, or in the runtime claims as a map, as JSON text or as bare text.

**Attestations** is what the readers of AttestationEvidence rely on: a verdict is dated by
the clock of its write, the last date is kept as long as the object exists, a new spec
keeps the status, and a refresh never leaves evidence revoked and verified. `Verifier` and `Revocation`, the two that
write evidence, both refine it (`ImplementsAttestations`), each with the other's writes as
actions of its environment.

**Revocation.** Two workers with queue and timers. `RequeueAfter` at or below zero
requeues nothing, as in controller-runtime. It models a manager started with
`AIOPS_ENABLE_LEGACY_EVIDENCE_RECONCILER`; without it nobody sets `status.revoked`.

**KeyRelease**, **KeyGateway**, **KeyReleasePolicy.** `KeyRelease` holds pure operators;
errors are sets of words because the code classifies them by searching their text.
`KeyGateway` serves any request of a small alphabet against any minted or garbled token.
`KeyReleasePolicy` applies the same operators in a reconciler.

**Admission.** The mutating and the validating webhook, in one admission at a time;
policies, namespace and platform mode change between the reads. Sidecars, gates, token
volumes and proxy variables are counted; GOV-AR settings are complete or not.

**Bootstrap.** `Start(r)` takes a replica through its steps: CA, mutating configuration,
validating configuration, serving.

**Console.** Browser forms send no version, scripts send the one they read. A form opens
only if both the CRD's schema and the object can be read.

**EvidenceRecord.** Records name the digest of a predecessor; the reconciler digests.

**Approvals** holds pure operators: Ed25519 signatures of approvals and of evidence
ConfigMaps, and the list of trusted keys with ids. `ApprovalsBind`, `RotationTakesEffect`
and `EvidenceBinds` are statements about them without behaviour: `MCEvidenceRecord`
evaluates them on a small instance as an assumption, and `ManagerProofs` proves them.

`MC*` modules give constants their values. The proofs are in eight modules:
`SchedulerTypes`, extended by `SchedulerProofs` (Scheduler, PlacementDecision);
`VerifierTypes`, extended by `VerifierProofs`; `RevocationProofs`; `KeyReleaseProofs`
(KeyGateway, KeyReleasePolicy); `AdmissionProofs`; and `ManagerProofs` (EvidenceRecord,
Approvals, Bootstrap, Console). Where one module proves things of two specifications, the
second has names of its own: `PolicySpec`, `BootSpec`, `ConsoleSpec`.

## 4. Runs

| Run | Shows | Bounds and why they are enough |
|---|---|---|
| `scheduler` | five invariants and an action property of placement (below), `ImplementsPlacement` | one pod name with two lives, two nodes, a policy that is edited between two specs, two evidences, three time units, three disturbances: an edit, a crash and a lost answer fit into one attempt |
| `scheduler_live` | `NoPodLeftBehind` | two pods compete for the worker, one disturbance |
| `verifier` | `RealIsAttested`, `GenuineNotFailed`, `AppraisedTogether`, `RevocationSurvives`, `ReportsProcessed`, `ImplementsAttestations` | two reports of one node by five setups of agents (simulated; a token that ages; one without kid and with encoded JSON text; one signed by a stranger; one from a file), four answers of the key endpoint (none, no usable key, one key, a list with an unusable key and two of the same kid), one fault: enough for an appraisal interrupted by another report or writer |
| `revocation` | `ExpiryScheduled`, `RevokedNotVerified`, `LiftedOnlyAtExpiry`, `ImplementsAttestations` | two interchangeable revocations of one evidence (symmetry; no liveness is checked), two lifetimes, three edits |
| `key_gateway` | `ReleasedOnGenuineToken`, `GenuineTokenHonoured`, `OfflineAgrees` | two workloads, two signing keys, one token at a time, clock past its expiry |
| `key_release_policy` | `SettledIsObserved`, `AllowWasEarned`, `SpecDecided` | two policies on one evidence, three edits |
| `admission` | `MutationIdempotent`, `MutationNeutral`, `HashNamesSchedulersPolicy` | two policies out of five specs, five pods, three platform modes, two edits |
| `placement_decision` | `EveryDecisionJudged`, `ImplementsScheduler` | one pod, node, policy, evidence; three disturbances |
| `console` | `RoundTripLosesNothing`, `NeverRecreates` | one form, one script, two fields, three writes |
| `bootstrap` | `LastStarterTrusted`, `OperatorRestarts` | two replicas, four faults |
| `evidence_record` | `DigestsCurrent`, `ChainHolds` | three records, one edit |
| `placement_allow` | a violation: `AllowMeansToken` | see section 7 |

The runs of Admission, Console, EvidenceRecord, KeyGateway and KeyReleasePolicy also check
a type invariant, which says more than types where the code couples values (a pod's
annotations come from one policy). All type invariants are proved.

The scheduler's properties: a token rests on verified evidence of its own node
(`TokenAttested`); no token is about while a placement is re-checked or denied
(`NoTokenUnderReview`), and none is replaced unwithdrawn (`TokenWithdrawnFirst`); a pod is
bound to its token's node (`BoundToTokenNode`); PreBind makes selection and cluster agree
up to later writes (`BindReflectsCluster`, `FreshForCurrentPolicy`). That "up to" is the
window the code leaves: a revocation after PreBind's read is not seen.

Deadlock is checked in `admission`, `console`, `evidence_record` and `key_gateway`. In the
others the bounds let the system come to rest when all work is done.

## 5. Fairness

* Scheduler: the worker runs (weak fairness of `SchedulePod`); a permit that finds nothing
  meets its 15 s deadline (strong fairness of `permitTimeout`, whose guard alternates with
  filter passes); the workqueue keeps every unscheduled pod and retries with back-off
  (strong fairness of `Reconcile(p)`, which other pods disable while they are scheduled).
* Verifier and key release reconciler: the worker runs, the queue gives each key its turn.
* Bootstrap: the kubelet starts a replica's process again.
* Nothing is assumed of users, of the verifier's writes as the scheduler sees them, or of
  the gate being lifted. Faults are finite by their bound: the properties say what happens
  when disturbances cease.

## 6. Proofs

All are for every set of pods, nodes, policies, evidence, agents, keys, requests, records,
replicas, clients and revocations, and for all bounds. Every invariant, action property
and refinement that a run checks is a theorem; what is left to TLC is liveness.

| Theorem | States | Rests on |
|---|---|---|
| `SchedulerTypes!TypeCorrect` | `[]TypeOK` | inductive as it stands |
| `SchedulerProofs!TokensAttested` | `[]TokenAttested` | `SelectionInv`: candidates and the selected one were valid for the policy PreFilter found |
| `SchedulerProofs!NoTokensUnderReview` | `[]NoTokenUnderReview` | `ReviewInv`: from Reserve on, the decision exists and names the policy PreFilter found |
| `SchedulerProofs!TokensWithdrawnFirst` | `TokenWithdrawnFirst` | `ReviewInv`: only `finalize` writes a token, onto a decision that has none |
| `SchedulerProofs!PodsBoundToTokenNode` | `[]BoundToTokenNode` | `BindingInv`: at Bind the decision's token names the selected node; an attempt under way has found its pod unbound |
| `SchedulerProofs!BindsReflectCluster` | `[]BindReflectsCluster` | `PreBindInv`: what each of PreBind's reads has established, unless dirty |
| `SchedulerProofs!BindsFresh` | `[]FreshForCurrentPolicy` | `PreBindInv`: an annotation's age is that of the policy it hashes |
| `SchedulerProofs!SchedulerImplementsPlacement` | `ImplementsPlacement` | types, `SelectionInv`, `ReviewInv` and `BindingInv` together; decisions are written only in `reserve`, `deny` and `finalize` |
| `SchedulerProofs!ReconcilerImplementsScheduler` | `ImplementsScheduler` | `ManagerType`: the worker holds the name of a decision and a verdict; every step of the composition is a step of Scheduler or invisible to it |
| `SchedulerProofs!DecisionsJudged` | `[]EveryDecisionJudged` | `JudgedInv`: a decision without a verdict is in the queue or with the worker |
| `SchedulerProofs!JudgedAsRead` | `[]VersionInv` | versions only grow; while the version is the one Get returned, so is the decision |
| `VerifierTypes!TypeCorrect` | `[]TypeOK` | inductive as it stands |
| `VerifierProofs!RealEvidenceAttested` | `[]RealIsAttested` | `AInv`: real evidence, and the verdict the worker holds, rest on a report that passed every check at the time recorded |
| `VerifierProofs!GenuineTokensNotFailed` | `[]GenuineNotFailed` | `GInv`: a Failed verdict about a genuine token, in the worker's hands or stored, means the token was not fresh, and it does not get fresh again |
| `VerifierProofs!WritesStayTogether` | `[]AppraisedTogether` | `TInv`: spec and status of a node agree, or the worker or the queue holds a report of that node (while no report is deleted); between its two writes the worker's spec stands |
| `VerifierTypes!RevocationsSurvive` | `RevocationSurvives` | types; the status update is computed from the object it replaces |
| `VerifierProofs!VerifierImplementsAttestations` | `ImplementsAttestations` | types |
| `RevocationProofs!TypeCorrect` | `[]TypeOK` | inductive as it stands |
| `RevocationProofs!NeverRevokedAndVerified` | `[]RevokedNotVerified` | `EInv`: the worker's copy is the stored evidence unless `stale` says otherwise |
| `RevocationProofs!LiftsOnlyAtExpiry` | `LiftedOnlyAtExpiry` | types |
| `RevocationProofs!ExpiryIsScheduled` | `[]ExpiryScheduled` | `RInv`: the worker's copy is active unless its expiry has been reached; after the update it is the stored policy, unless that was written since and is queued |
| `RevocationProofs!RevocationImplementsAttestations` | `ImplementsAttestations` | `EInv` |
| `KeyReleaseProofs!TypeCorrect` | `[]TypeOK` | `GatewayInv` |
| `KeyReleaseProofs!KeysReleasedOnGenuineTokens` | `[]ReleasedOnGenuineToken` | `GatewayInv`: the answer is that of `Evaluate` on the state it was given in; `EvaluateGrants` says when that allows, without the order of its checks |
| `KeyReleaseProofs!GenuineTokensHonoured` | `[]GenuineTokenHonoured` | the same |
| `KeyReleaseProofs!OfflineVerifierAgrees` | `[]OfflineAgrees` | the same |
| `KeyReleaseProofs!PolicyTypeCorrect` | `[]PolicyTypeOK` | inductive as it stands |
| `KeyReleaseProofs!SettledStatusObserved` | `[]SettledIsObserved` | types; a spec not yet observed is in the queue or with the worker |
| `KeyReleaseProofs!AllowsEarned` | `[]AllowWasEarned` | `EarnedInv`: evidence the worker has read as good counts for the policy unless its spec was written since, and then the write is refused |
| `AdmissionProofs!AdmissionTypeCorrect` | `[]TypeOK` | `AdmissionInv`: what TypeOK says of the admitted pod holds of the one under way |
| `AdmissionProofs!HandleIdempotent` | `[]MutationIdempotent` | `HandleStays`: a fitted pod stays as it is (`FittedStays`), and nothing that follows unfits it |
| `AdmissionProofs!FittingNeutral` | `[]MutationNeutral` | `AppliedClass`: the class applied is accepted exactly when the one it stands for is |
| `AdmissionProofs!HashOfSchedulersPolicy` | `[]HashNamesSchedulersPolicy` | `AdmissionInv`: what the webhooks have read is still so, at each of their steps, unless somebody has edited since |
| `ManagerProofs!RecordTypeCorrect` | `[]TypeOK` | `RecordType`: digest and anchoring are of one version of the spec; the worker's copy is the stored spec unless `stale` |
| `ManagerProofs!StatusCatchesUp` | `[]DigestsCurrent` | `DigestInv`: a record without the digest of its spec is in the queue or with the worker |
| `ManagerProofs!ChainUnbroken` | `[]ChainHolds` | `ChainInv`: while nobody edits, a digest is set once, to that of its spec |
| `ManagerProofs!LastStarterServes` | `[]LastStarterTrusted` | `AloneInv`: the replica that counts as last starter is the only one that writes, and has written the configurations it is past |
| `ManagerProofs!ConsoleTypeCorrect` | `[]ConsoleTypeOK` | `ConsoleInv`: versions are numbers of writes; a form whose version is the stored one holds the stored object |
| `ManagerProofs!RoundTripsKeepOthersWrites` | `RoundTripLosesNothing` | `ConsoleInv`: a script's request carries the version its form was opened with |
| `ManagerProofs!UpdateNeverRecreates` | `NeverRecreates` | `OnlyUpdateApplies`: 200 to a request under way is `handleUpdate`'s, for the version that is stored |
| `ManagerProofs!ApprovalsAreBound` | `ApprovalsBind` | lemmas `AcceptedSignature` and `CandidatesAreListed` |
| `ManagerProofs!RotationHolds` | `RotationTakesEffect` | lemma `LastEntryWins` |
| `ManagerProofs!EvidenceIsBound` | `EvidenceBinds` | lemma `OmittedMaps` |

Most of these are not inductive alone, because the step that would break them comes
several calls after the one that established their reason: the strengthening says what
the worker holds in its hands meanwhile, and until which write that stands.
`OthersFrameHolds` says once what other writers leave alone of the scheduler's state;
`WorkerSteps` and `WorkerDecisions` say which step precedes which and how a step changes
decisions. The other proofs go action by action.

The two refinements compose: with `ReconcilerImplementsScheduler`, what is proved of
Scheduler holds with the manager's reconciler beside it (corollary
`TokensBesideReconciler`), `ImplementsPlacement` included.

The proofs about Admission read a pod as a function from field names to values
(`PodShape`): what `Confidential`, `Governed` and `WithSidecar` change is one lemma each, by
field. `Smallest` gives the loops that stop at the first match their meaning; it comes from
the well-foundedness of the naturals.

Assumptions: the bounds are naturals, specs, agents, pods, requests and key lists are
well-formed and `None`, `Absent` and `Null` are no objects (the `ASSUME`s of the modules,
which TLC evaluates in the runs). Further:

* `PodsBoundToTokenNode` and `SchedulerImplementsPlacement` assume `DistinctNames`: decision
  names are distinct. The code cuts them to 63 characters
  (`internal/scheduler/scheduler.go:452`), so it is a hypothesis of the theorems and not an
  assumption of the model.
* The theorems about EvidenceRecord assume `NoneIsNoObject`. A digest contains the record it
  is of, whose link is a digest again, so that there is no set of all digests an `ASSUME`
  could range over and TLC evaluate.
* `PlainPods` (Admission): pods are created without the webhook's annotations and with one
  setting of each proxy variable. `AdmissionTypeCorrect` and `HashOfSchedulersPolicy` need
  it: the webhook keeps what a user puts there if no policy matches.

Only model-checked, because fairness and ENABLED are outside the prover's reach: the
liveness properties `NoPodLeftBehind`, `ReportsProcessed`, `SpecDecided` and
`OperatorRestarts`.

## 7. Where documents and code disagree

`placement_allow` is a run. The scheduler's "deny" is written with a plain Update, and the
status subresource drops it; the manager's "allow" stays although PreBind denied and no
token exists. README.md:299-300: « Un seul écart → status.decision = "deny", et AUCUN
jeton n'est émis ».

The modules state further sentences of documents and comments that the code does not
keep. They belong to no run; listing one in the module's cfg shows its counterexample.

| Property | Says | Against |
|---|---|---|
| `Scheduler!TokenForCurrentPolicy` | the token's policy hash is the one PreBind re-read | README.md:295-299 |
| `Scheduler!TokenNamesBoundPod` | a bound pod is the one its token was minted for | README.md:295-297, 304 |
| `Verifier!SimulatedNeverReal` | verified evidence not marked simulated is real | README.md:66-68 |
| `Verifier!TEEIsAttested` | `tee` is the attested TEE | docs/attestationevidence.md:14 |
| `Revocation!RevocationTakesEffect`, `RevocationEnds` | a revocation acts, and ends, in time | README.md:60-61 |
| `Revocation!RealNotRefreshed` | real evidence is left alone | internal/controller/attestationevidence_controller.go:59-62 |
| `KeyGateway!ExactlyBound`, `ExpiredTokenRefused` | only the bound image and model, only before expiry | README.md:227-228, 307 |
| `KeyReleasePolicy!AllowHasEvidence`, `AllowInWindow` | an allow has evidence, and ends | docs/aikeyreleasepolicy.md:13, 16 |
| `Admission!CoveredHasRuntime`, `SchedulerCorrected`, `ChosenClassAccepted`, `OnlyEnforceRejects`, `SimulatedClassExists` | runtime class, scheduler and mode as documented (the last with `Environments = {"dev"}`) | docs/confidentialinferencepolicy.md:13, 17; README.md:64-65, 234-235 |
| `PlacementDecision!TokenMeansAllow` | a token's decision says allow (with `Declared <- DeclaredLong`, `MaxChurn = 1`) | README.md:308-309 |
| `Console!NothingClobbered` | saving undoes nobody's write | internal/console/server.go:224-225 |
| `Bootstrap!EveryReplicaTrusted` | every serving replica is trusted | charts/ai-confidential-operator/values.yaml:24 |
| `EvidenceRecord!ChainIntact` | every link names an existing digest | README.md:212-213 |

## 8. Not modelled

* Metrics, static files and listings of the console, deployment scripts, the C++ helper,
  flag parsing and the two signing command lines change no state the properties speak of.
* Cryptographic primitives are ideal; the bytes of canonical JSON and of digests are not
  modelled. `internal/evidence` leaves annotations out of what it signs, and so does
  `Canonicalize`.
* The score of `internal/placement` enters only a digest nobody compares. Its product is an
  int32, which TLC's own 32-bit integers cannot exceed to show an overflow.
* Node taints, selectors and affinity, and what a sidecar contains, are reduced to sets and
  counts: no property tells their details apart.
* The reconciler that turns revocations into `status.revoked` is off by default
  (`cmd/confidential-manager/main.go:126`); Revocation models the deployment that turns it
  on.

## 9. Plan

1. Done: the modules and runs above; the abstract specifications Placement and
   Attestations with their refinements; the proofs of section 6.
2. Extend: Verifier and Revocation composed with Scheduler; evidence read by the scheduler
   as Attestations instead of its own `Others`.
3. Prove: that Verifier and Revocation together implement Attestations; the safety part of
   the liveness properties (no queue loses a key) where no invariant says so yet.
