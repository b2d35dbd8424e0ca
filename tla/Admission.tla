------------------------------ MODULE Admission ------------------------------
(***************************************************************************)
(* The admission webhooks of the manager (internal/webhook/podinjector):   *)
(* the mutating one fits a new pod to the first ConfidentialInferencePolicy*)
(* that matches it and injects the sidecar; the validating one then checks *)
(* the pod against every policy that matches.  Both read the policies and  *)
(* the namespace from the API server each time, so that users can change   *)
(* them in between.                                                        *)
(*                                                                         *)
(* The API server calls the mutating webhook for creations and goes on     *)
(* without it when it cannot be reached (failurePolicy Ignore); it calls   *)
(* the validating one for creations and updates, and refuses the request   *)
(* when it cannot be reached (Fail).                                       *)
(***************************************************************************)
EXTENDS Integers, Sequences, FiniteSets

CONSTANTS
    None,           \* "", nil and absent
    PolicyCount,    \* policies are named 1 .. PolicyCount, in the order of their names
    Specs,          \* the specs users write into policies
    Label,          \* workload labels
    NewPods,        \* the pods users create
    Environments,   \* the values of AIOPS_PLATFORM_MODE the manager is started with
    Labelled,       \* RuntimeClasses that users label ai.sovereign.io/simulated
    SidecarPinned,  \* the manager's own image reference has a digest
    MaxEdits        \* bound: edits of policies and of the namespace

Name == 1 .. PolicyCount
Scheduler == "ai-attestation-scheduler"

\* The classes mapRuntimeClass knows, with their simulated counterparts.
SimulatedClass ==
    [c \in {"kata-qemu-tdx", "kata-qemu-snp"} |->
        IF c = "kata-qemu-tdx" THEN "simulated-kata-qemu-tdx" ELSE "simulated-kata-qemu-snp"]
RuntimeClass ==
    {"runc"} \cup DOMAIN SimulatedClass \cup {SimulatedClass[c] : c \in DOMAIN SimulatedClass}

Spec0 == [selects : SUBSET Label, namespaces : BOOLEAN, confidential : BOOLEAN,
          allowed : Seq(RuntimeClass \cup {None}), imageDigest : BOOLEAN,
          modelDigest : BOOLEAN, gpu : BOOLEAN, maxAge : Nat,
          untimed : BOOLEAN, mode : {"warn", "audit", "enforce"}]

Annotations == [hash : Specs, expected : RuntimeClass \cup {None},
                applied : RuntimeClass \cup {None}, age : Nat, simulated : BOOLEAN]

PodObject == [label : Label, runtime : RuntimeClass \cup {None},
              scheduler : {None, "default-scheduler", Scheduler}, gates : Nat,
              evidence : BOOLEAN, pinned : BOOLEAN, model : BOOLEAN,
              inject : {None, "on", "off"}, govar : {"off", "incomplete", "complete"},
              sidecars : Nat, injected : BOOLEAN, proxies : Nat, tokenVolumes : Nat,
              restricted : BOOLEAN, native : BOOLEAN, ann : Annotations \cup {None}]

ASSUME AdmissionConstants ==
    /\ PolicyCount \in Nat /\ MaxEdits \in Nat /\ SidecarPinned \in BOOLEAN
    /\ Labelled \subseteq RuntimeClass
    /\ \A spec \in Specs : spec \in Spec0
    /\ \A pod \in NewPods : pod \in PodObject
    /\ None \notin RuntimeClass \cup Annotations \cup {Scheduler}

\* Pods are created without annotations of the webhook and with every counted thing at
\* most once; the API server refuses containers, volumes or gates of the same name.
ASSUME PlainPods ==
    \A p \in NewPods :
        /\ p.ann = None
        /\ \A field \in {"sidecars", "gates", "tokenVolumes", "proxies"} : p[field] <= 1

VARIABLES
    env,            \* AIOPS_PLATFORM_MODE of the running manager
    classes,        \* the RuntimeClasses labelled simulated
    policies,       \* Name -> spec, or None
    namespace,      \* [matches, inject, govar]: what its labels and annotations say
    request,        \* the admission under way, or None
    pod,            \* the admitted pod, or None
    edits

vars == <<env, classes, policies, namespace, request, pod, edits>>

Namespaces == [matches : BOOLEAN, inject : BOOLEAN, govar : BOOLEAN]

\* platformMode() of package bootstrap, which creates the simulated classes.
KindMode(e) == e \in {"", "kind", "simulated-kind"}

EnsureSimulatedRuntimeClasses(e) ==
    IF KindMode(e) THEN {SimulatedClass[c] : c \in DOMAIN SimulatedClass} ELSE {}

Init ==
    /\ env \in Environments /\ classes = Labelled \cup EnsureSimulatedRuntimeClasses(env)
    /\ policies = [i \in Name |-> None]
    /\ namespace = [matches |-> TRUE, inject |-> FALSE, govar |-> FALSE]
    /\ request = None /\ pod = None /\ edits = 0

-----------------------------------------------------------------------------
\* Matching.

policyMatches(spec, ns, p) ==
    /\ spec.namespaces => ns.matches
    /\ p.label \in spec.selects

matchingPolicies(ns, p) ==
    {i \in Name : policies[i] # None /\ policyMatches(policies[i], ns, p)}

-----------------------------------------------------------------------------
\* The mutating webhook, as functions of what it has read.

\* A value with "aks" or "prod" inside another word also counts as production; none of
\* the Environments is one.
platformMode ==
    CASE env \in {"production", "prod", "aks", "aks-private", "aks-real-sevsnp"} -> "production"
      [] env \in {"", "kind", "simulated-kind", "simulated", "dev", "development", "local"} ->
            "simulated-kind"
      [] OTHER -> env

First(indices) == CHOOSE i \in indices : \A j \in indices : i <= j

\* The first entry that is not blank.
firstAllowedRuntime(spec) ==
    LET given == {i \in DOMAIN spec.allowed : spec.allowed[i] # None}
    IN  IF given = {} THEN None ELSE spec.allowed[First(given)]

Simulates(class) == platformMode = "simulated-kind" /\ class \in DOMAIN SimulatedClass

mapRuntimeClass(class) == IF Simulates(class) THEN SimulatedClass[class] ELSE class

\* Mutant: the policy that comes last in the list.
LastPolicy(ns, p) ==
    LET matching == matchingPolicies(ns, p)
    IN  IF matching = {} THEN None
        ELSE policies[CHOOSE i \in matching : \A j \in matching : j <= i]

\* The spec a new pod is fitted to: that of the first policy that matches.
mutateForConfidentialPolicy(ns, p) ==
    LET matching == matchingPolicies(ns, p)
    IN  IF matching = {} THEN None ELSE policies[First(matching)]

annotateConfidentialPod(p, spec) ==
    LET expected == firstAllowedRuntime(spec)
    IN  [p EXCEPT !.ann =
            [hash |-> spec, expected |-> expected,
             applied |-> IF spec.confidential THEN mapRuntimeClass(expected) ELSE expected,
             age |-> spec.maxAge,
             simulated |-> spec.confidential /\ Simulates(expected)]]

\* Mutant: the gate is appended without a look at those there are.
AppendGate(gates) == gates + 1

ensureSchedulingGate(gates) == IF gates = 0 THEN 1 ELSE gates

\* Runtime class and scheduler where the pod has none, and the gate until there is
\* evidence.
Confidential(p, spec) ==
    IF spec = None THEN p
    ELSE LET a == annotateConfidentialPod(p, spec)
         IN  [a EXCEPT !.runtime = IF @ = None THEN a.ann.applied ELSE @,
                       !.scheduler = IF @ = None THEN Scheduler ELSE @,
                       !.gates = IF a.evidence THEN @ ELSE ensureSchedulingGate(@)]

Governed(p, required) ==
    IF required THEN [p EXCEPT !.restricted = TRUE, !.native = TRUE] ELSE p

hasContainer(p) == p.sidecars > 0

\* Whether the annotations of the pod ask for GOV-AR.
resolveGOVARConfig(p) == p.govar # "off"

\* The settings the annotations give are not all there.
BadGOVAR(p) == ~hasContainer(p) /\ resolveGOVARConfig(p) /\ p.govar = "incomplete"

\* A token volume the pod brings is kept, a proxy variable is overwritten in its place.
ensureGOVARTokenVolume(volumes) == IF volumes = 0 THEN 1 ELSE volumes
injectProxyEnv(proxies) == IF proxies = 0 THEN 1 ELSE proxies

\* Mutant: a pod that has the sidecar gets another one.
SidecarAppended(p) ==
    [p EXCEPT !.sidecars = @ + 1, !.injected = TRUE, !.proxies = injectProxyEnv(@),
              !.tokenVolumes = IF resolveGOVARConfig(p) THEN ensureGOVARTokenVolume(@) ELSE @,
              !.restricted = @ \/ resolveGOVARConfig(p)]

\* The sidecar, its proxy settings and, for GOV-AR, the token volume.
WithSidecar(p) ==
    IF hasContainer(p) THEN [p EXCEPT !.injected = TRUE]
    ELSE [p EXCEPT !.sidecars = 1, !.injected = TRUE, !.proxies = injectProxyEnv(@),
                   !.tokenVolumes = IF resolveGOVARConfig(p) THEN ensureGOVARTokenVolume(@) ELSE @,
                   !.restricted = @ \/ resolveGOVARConfig(p)]

\* The pod Handle answers with, or None if it refuses.  An annotation is all that
\* WithSidecar adds to a pod with a sidecar: not a change worth a patch.
Handle(p, spec, enabled, required) ==
    LET governed == Governed(Confidential(p, spec), required)
        sidecar == WithSidecar(governed)
    IN  IF ~enabled \/ required THEN governed
        ELSE IF BadGOVAR(governed) THEN None
        ELSE IF hasContainer(p) /\ governed = p THEN p
        ELSE sidecar

shouldInject(p) == p.inject = "on" \/ namespace.inject \/ namespace.govar

namespaceRequiresGOVAR == namespace.govar

-----------------------------------------------------------------------------
\* The validating webhook.

TrimSimulated(class) ==
    IF \E c \in DOMAIN SimulatedClass : SimulatedClass[c] = class
    THEN CHOOSE c \in DOMAIN SimulatedClass : SimulatedClass[c] = class
    ELSE class

Entries(spec) == {spec.allowed[i] : i \in DOMAIN spec.allowed}

\* Mutant: a simulated class has to be listed itself.
RuntimeListed(spec, class) == ~spec.confidential \/ class \in Entries(spec)

runtimeAllowed(spec, class) ==
    \/ ~spec.confidential
    \/ class \in Entries(spec) \/ TrimSimulated(class) \in Entries(spec)

\* No error from validatePodAgainstPolicy.  Spec.Validate wants an allowed class for
\* confidential containers and a TTL for key release (untimed: there is none), and
\* confidential GPUs are refused altogether.
validatePodAgainstPolicy(spec, p) ==
    LET class == IF p.runtime # None THEN p.runtime ELSE firstAllowedRuntime(spec)
    IN  /\ spec.imageDigest => p.pinned /\ (p.sidecars > 0 => SidecarPinned)
        /\ spec.modelDigest => p.model
        /\ ~spec.gpu /\ ~spec.untimed
        /\ spec.confidential =>
              /\ spec.allowed # <<>>
              /\ class # None /\ runtimeAllowed(spec, class)
              /\ platformMode = "production" =>
                    class = TrimSimulated(class) /\ class \notin classes

Valid(ns, p) == \A i \in matchingPolicies(ns, p) : validatePodAgainstPolicy(policies[i], p)

-----------------------------------------------------------------------------
\* Admission, one step per read.

\* The API server's defaults, set before any webhook is called.
SetDefaults(p) == [p EXCEPT !.scheduler = IF @ = None THEN "default-scheduler" ELSE @]

Admit(at, p) ==
    [at |-> at, new |-> p, ns |-> None, spec |-> None, enabled |-> FALSE,
     mutated |-> FALSE, edits |-> edits]

\* A user creates the pod; pods are admitted independently, so one is followed.
Submit(p) ==
    /\ request = None /\ pod = None
    /\ request' = Admit("mutate", SetDefaults(p))
    /\ UNCHANGED <<env, classes, policies, namespace, pod, edits>>

\* matchingPolicies, in either webhook, reads the namespace and then the policies.
ReadLabels ==
    /\ request # None /\ request.at \in {"mutate", "validate"} /\ request.ns = None
    /\ request' = [request EXCEPT !.ns = namespace,
                                  !.edits = IF request.at = "mutate" THEN edits ELSE @]
    /\ UNCHANGED <<env, classes, policies, namespace, pod, edits>>

ReadPolicies ==
    /\ request # None /\ request.at = "mutate" /\ request.ns # None
    /\ request' = [request EXCEPT !.at = "inject", !.ns = None,
                                  !.spec = mutateForConfidentialPolicy(request.ns, request.new)]
    /\ UNCHANGED <<env, classes, policies, namespace, pod, edits>>

ReadInjection ==
    /\ request # None /\ request.at = "inject"
    /\ request' = [request EXCEPT !.at = "govar", !.enabled = shouldInject(request.new)]
    /\ UNCHANGED <<env, classes, policies, namespace, pod, edits>>

\* Read the namespace a third time, then answer.
Answer ==
    LET new == Handle(request.new, request.spec, request.enabled, namespaceRequiresGOVAR)
    IN  /\ request # None /\ request.at = "govar"
        /\ request' = IF new = None THEN None
                      ELSE [request EXCEPT !.at = "validate", !.new = new, !.mutated = TRUE]
        /\ UNCHANGED <<env, classes, policies, namespace, pod, edits>>

\* A read of either webhook fails, or the validating one cannot be reached: the
\* request is refused.
Refused ==
    /\ request # None
    /\ request' = None
    /\ UNCHANGED <<env, classes, policies, namespace, pod, edits>>

\* The mutating webhook cannot be reached, or does not answer in time.
MutatingUnavailable ==
    /\ request # None /\ request.at \in {"mutate", "inject", "govar"}
    /\ request' = Admit("validate", request.new)
    /\ UNCHANGED <<env, classes, policies, namespace, pod, edits>>

\* A user updates the admitted pod.
Update(p) ==
    /\ request = None /\ p # pod.object
    /\ request' = Admit("validate", p)
    /\ UNCHANGED <<env, classes, policies, namespace, pod, edits>>

\* The validating webhook answers, and the API server stores the pod or refuses it.
Validate ==
    LET matching == matchingPolicies(request.ns, request.new)
    IN  /\ request # None /\ request.at = "validate" /\ request.ns # None
        /\ pod' = IF Valid(request.ns, request.new)
                  THEN [object |-> request.new, mutated |-> request.mutated,
                        edits |-> request.edits, specs |-> {policies[i] : i \in matching}]
                  ELSE pod
        /\ request' = None
        /\ UNCHANGED <<env, classes, policies, namespace, edits>>

EditPolicy(i, spec) ==
    /\ edits < MaxEdits /\ policies[i] # spec
    /\ policies' = [policies EXCEPT ![i] = spec] /\ edits' = edits + 1
    /\ UNCHANGED <<env, classes, namespace, request, pod>>

EditNamespace(ns) ==
    /\ edits < MaxEdits /\ namespace # ns
    /\ namespace' = ns /\ edits' = edits + 1
    /\ UNCHANGED <<env, classes, policies, request, pod>>

\* The manager starts again, perhaps in another mode; the request under way fails.
StartManager(e) ==
    /\ edits < MaxEdits /\ env # e
    /\ env' = e /\ classes' = classes \cup EnsureSimulatedRuntimeClasses(e)
    /\ request' = None /\ edits' = edits + 1
    /\ UNCHANGED <<policies, namespace, pod>>

Next ==
    \/ \E p \in NewPods : Submit(p)
    \/ ReadLabels \/ ReadPolicies \/ ReadInjection \/ Answer \/ Refused
    \/ MutatingUnavailable \/ Validate
    \/ pod # None /\ \E l \in Label : Update([pod.object EXCEPT !.label = l])
    \/ pod # None /\ Update([pod.object EXCEPT !.gates = 0])
    \/ \E i \in Name, spec \in Specs \cup {None} : EditPolicy(i, spec)
    \/ \E ns \in Namespaces : EditNamespace(ns)
    \/ \E e \in Environments : StartManager(e)

Spec == Init /\ [][Next]_vars

-----------------------------------------------------------------------------
\* Properties.

Requests ==
    [at : {"mutate", "inject", "govar", "validate"}, new : PodObject,
     ns : Namespaces \cup {None}, spec : Specs \cup {None}, enabled : BOOLEAN,
     mutated : BOOLEAN, edits : 0 .. MaxEdits]

\* Types, with two facts of the code: no pod ever has two sidecars, attestation gates,
\* token volumes or settings of a proxy variable, and a pod whose annotations name a
\* policy was fitted to it (the annotations of annotateConfidentialPod come together, from
\* one version of one policy: preBind of the scheduler compares the hash and takes the
\* age from them).
TypeOK ==
    /\ env \in Environments /\ classes \subseteq RuntimeClass
    /\ policies \in [Name -> Specs \cup {None}]
    /\ namespace \in Namespaces
    /\ request = None \/ request \in Requests
    /\ pod = None \/
          /\ pod.object \in PodObject
          /\ \A field \in {"sidecars", "gates", "tokenVolumes", "proxies"} : pod.object[field] <= 1
          /\ pod.specs \subseteq Specs
          /\ pod.object.ann # None => pod.object.ann.age = pod.object.ann.hash.maxAge
    /\ edits \in 0 .. MaxEdits

Mutated(p) ==
    Handle(p, mutateForConfidentialPolicy(namespace, p), shouldInject(p), namespaceRequiresGOVAR)

\* A pod made from the manifest of an admitted one is admitted unchanged: whatever the
\* policies and the namespace are, Handle adds no second sidecar, gate or volume to its
\* own answer, and never refuses a pod it has fitted itself.
MutationIdempotent ==
    \A p \in {SetDefaults(q) : q \in NewPods} \cup NewPods :
        Mutated(p) # None => Mutated(Mutated(p)) = Mutated(p)

\* What the mutating webhook does to a pod that one policy covers never decides over
\* its admission: with no sidecar added, the validating webhook accepts the fitted pod
\* exactly when it would have accepted the pod as submitted.  In particular the
\* simulated class that mapRuntimeClass applies is one that runtimeAllowed accepts,
\* in every platform mode.
MutationNeutral ==
    \A p \in NewPods :
        LET new == Mutated(p)
        IN  /\ Cardinality(matchingPolicies(namespace, p)) <= 1
            /\ new # None /\ new.sidecars = p.sidecars
            => (Valid(namespace, new) <=> Valid(namespace, p))

\* A pod admitted through both webhooks, while nobody edits policies or the namespace,
\* carries the hash of the policy the scheduler will pick for it (the first that
\* matches, see FirstMatch of module Scheduler), and of no other; PreBind denies it
\* otherwise, for good.
HashNamesSchedulersPolicy ==
    pod # None /\ pod.mutated /\ pod.edits = edits =>
        LET matching == matchingPolicies(namespace, pod.object)
            ann == pod.object.ann
        IN  IF matching = {} THEN ann = None
            ELSE ann # None /\ \E i \in matching :
                    policies[i] = ann.hash /\ \A j \in matching : i <= j

-----------------------------------------------------------------------------
\* What the documentation says and the code does not do.

\* docs/confidentialinferencepolicy.md: requireConfidentialContainers "Exige une runtime
\* class confidentielle".  A pod admitted under such a policy has an allowed class.
CoveredHasRuntime ==
    pod # None =>
        \A spec \in pod.specs :
            spec.confidential => pod.object.runtime # None /\ runtimeAllowed(spec, pod.object.runtime)

\* README.md: a covered pod is "annoté/corrigé automatiquement (runtime class,
\* scheduler)".  A pod that names no scheduler and is fitted to a policy gets the
\* attestation scheduler.
SchedulerCorrected ==
    \A p \in NewPods :
        LET new == Mutated(SetDefaults(p))
        IN  p.scheduler = None /\ new # None /\ new.ann # None => new.scheduler = Scheduler

\* README.md: "choix de la bonne runtime class".  The class the webhook chooses for a
\* pod that has none is one its validating counterpart accepts, if any is.
ChosenClassAccepted ==
    \A p \in NewPods :
        LET new == Mutated(p)
        IN  /\ p.runtime = None /\ new # None /\ new.sidecars = p.sidecars
            /\ \E c \in RuntimeClass : Valid(namespace, [new EXCEPT !.runtime = c])
            => Valid(namespace, new)

\* docs/confidentialinferencepolicy.md: "`enforce` fait rejeter les pods non conformes
\* par le webhook de validation".  Policies in another mode reject no pod.
OnlyEnforceRejects ==
    \A p \in NewPods :
        ~Valid(namespace, p) =>
            \E i \in matchingPolicies(namespace, p) : policies[i].mode = "enforce"

\* The simulated class the webhook puts on a pod exists and is labelled as such, so
\* that a manager in production refuses it: EnsureSimulatedRuntimeClasses "creates
\* kind-safe runtime classes for local simulation mode".
SimulatedClassExists ==
    \A p \in NewPods :
        LET new == Mutated(p)
        IN  new # None /\ new.ann # None /\ new.ann.simulated => new.ann.applied \in classes

=============================================================================
