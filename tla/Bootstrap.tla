------------------------------ MODULE Bootstrap ------------------------------
(***************************************************************************)
(* How the manager registers its webhooks when it starts                   *)
(* (internal/webhook/bootstrap, cmd/confidential-manager).  Every replica  *)
(* makes a certificate authority of its own, writes it into the mutating   *)
(* and then into the validating webhook configuration, both shared, and    *)
(* serves with a certificate of that authority.  Any error ends the        *)
(* process, and the kubelet starts it again.                               *)
(*                                                                         *)
(* The pods of the operator are themselves subject to admission, unless    *)
(* their namespace is excluded.                                            *)
(***************************************************************************)
EXTENDS Integers, FiniteSets

CONSTANTS
    Absent,     \* nil and absent
    Replica,    \* the manager's pods
    Authority,  \* certificate authorities
    MaxFaults   \* bound: crashes and deletions

\* Enough authorities for a new one to differ from those still known somewhere.
ASSUME BootstrapConstants ==
    /\ IsFiniteSet(Authority) /\ IsFiniteSet(Replica) /\ MaxFaults \in Nat
    /\ Cardinality(Authority) > 2 * Cardinality(Replica) + 2
    /\ Absent \notin Authority

VARIABLES
    at,         \* Replica -> the step it is at; "none": there is no such pod
    ca,         \* Replica -> ca.crt of its certificate directory, or Absent
    seen,       \* Replica -> the CA bundle CreateOrUpdate has read
    mutating,   \* CA bundle of the mutating webhook configuration, or Absent: no object
    validating, \* CA bundle of the validating one
    faults,
    alone       \* history: replicas that no other one has started beside or after

bootVars == <<at, ca, seen, mutating, validating, faults, alone>>

BootInit ==
    /\ at = [r \in Replica |-> "none"]
    /\ ca = [r \in Replica |-> Absent] /\ seen = [r \in Replica |-> Absent]
    /\ mutating = Absent /\ validating = Absent /\ faults = 0 /\ alone = {}

-----------------------------------------------------------------------------
\* Mutant: only the control plane's namespaces are left out.
ControlPlaneOnly(operatorNamespace) == {"kube-system", "kube-node-lease", "kube-public"}

excludeSystemNamespaces(operatorNamespace) ==
    {"kube-system", "kube-node-lease", "kube-public", "envoy-gateway-system",
     "envoy-ai-gateway-system", operatorNamespace}

\* A webhook call reaches some replica that serves; TLS succeeds if the configuration
\* holds that replica's authority.
Reachable(bundle) == \E r \in Replica : at[r] = "serving" /\ ca[r] = bundle

\* The API server creates a pod: the mutating webhook may fail, the validating not.
Admitted(namespace) ==
    \/ validating = Absent
    \/ namespace \in excludeSystemNamespaces("operator")
    \/ Reachable(validating)

\* The Deployment's controller creates the pod of a replica.
CreatePod(r) ==
    /\ at[r] = "none" /\ Admitted("operator")
    /\ at' = [at EXCEPT ![r] = "starting"]
    /\ UNCHANGED <<ca, seen, mutating, validating, faults, alone>>

Known == {ca[r] : r \in Replica} \cup {seen[r] : r \in Replica} \cup {mutating, validating}

\* Ensure, first half: a new authority and a certificate of it, in files.
generateServingBundle(r) ==
    /\ at[r] = "starting"
    /\ ca' = [ca EXCEPT ![r] = CHOOSE a \in Authority \ Known : TRUE]
    /\ at' = [at EXCEPT ![r] = "getMutating"]
    /\ alone' = IF \A q \in Replica \ {r} : at[q] \in {"none", "serving"} THEN {r} ELSE {}
    /\ UNCHANGED <<seen, mutating, validating, faults>>

\* CreateOrUpdate reads the object ...
ReadConfiguration(r, step, next, bundle) ==
    /\ at[r] = step
    /\ seen' = [seen EXCEPT ![r] = bundle]
    /\ at' = [at EXCEPT ![r] = next]
    /\ UNCHANGED <<ca, mutating, validating, faults, alone>>

\* ... and writes it, unless somebody has written it since: main exits.
Exit(r) ==
    /\ at' = [at EXCEPT ![r] = "starting"] /\ seen' = [seen EXCEPT ![r] = Absent]
    /\ alone' = alone \ {r}

Ensure(r) ==
    \/ ReadConfiguration(r, "getMutating", "putMutating", mutating)
    \/ /\ at[r] = "putMutating"
       /\ IF mutating = seen[r]
          THEN /\ mutating' = ca[r] /\ at' = [at EXCEPT ![r] = "getValidating"]
               /\ seen' = [seen EXCEPT ![r] = Absent] /\ UNCHANGED alone
          ELSE Exit(r) /\ UNCHANGED mutating
       /\ UNCHANGED <<ca, validating, faults>>

\* Mutant: a configuration that is there is left as it is.
EnsureValidationOnce(r) ==
    \/ ReadConfiguration(r, "getValidating", "putValidating", validating)
    \/ /\ at[r] = "putValidating"
       /\ validating' = IF validating = Absent THEN ca[r] ELSE validating
       /\ at' = [at EXCEPT ![r] = "serving"] /\ seen' = [seen EXCEPT ![r] = Absent]
       /\ UNCHANGED <<ca, mutating, faults, alone>>

\* EnsureValidation takes the authority from ca.crt; then the manager serves.
EnsureValidation(r) ==
    \/ ReadConfiguration(r, "getValidating", "putValidating", validating)
    \/ /\ at[r] = "putValidating"
       /\ IF validating = seen[r]
          THEN /\ validating' = ca[r] /\ at' = [at EXCEPT ![r] = "serving"]
               /\ seen' = [seen EXCEPT ![r] = Absent] /\ UNCHANGED alone
          ELSE Exit(r) /\ UNCHANGED validating
       /\ UNCHANGED <<ca, mutating, faults>>

\* The process ends, or one of its calls fails; its container is started again.
Crash(r) ==
    /\ at[r] \notin {"none", "starting"} /\ faults < MaxFaults
    /\ faults' = faults + 1
    /\ Exit(r)
    /\ UNCHANGED <<ca, mutating, validating>>

\* The pod is deleted or evicted, or its node is lost.
DeletePod(r) ==
    /\ at[r] # "none" /\ faults < MaxFaults
    /\ faults' = faults + 1
    /\ at' = [at EXCEPT ![r] = "none"] /\ seen' = [seen EXCEPT ![r] = Absent]
    /\ ca' = [ca EXCEPT ![r] = Absent] /\ alone' = alone \ {r}
    /\ UNCHANGED <<mutating, validating>>

Start(r) == CreatePod(r) \/ generateServingBundle(r) \/ Ensure(r) \/ EnsureValidation(r)

BootNext == \E r \in Replica : Start(r) \/ Crash(r) \/ DeletePod(r)

BootSpec == BootInit /\ [][BootNext]_bootVars

\* The Deployment's controller, the kubelet and the process keep going.
FairBootSpec == BootSpec /\ \A r \in Replica : WF_bootVars(Start(r))

-----------------------------------------------------------------------------
\* A replica that started while no other one was starting, and after which none
\* started, serves with a certificate both configurations trust, whatever earlier
\* replicas and crashed starts have left in them.
LastStarterTrusted ==
    \A r \in alone : at[r] = "serving" => mutating = ca[r] /\ validating = ca[r]

\* "Excluding these namespaces guarantees the operator (and cluster infra) can always
\* (re)start": once crashes cease, every replica serves, although the validating
\* webhook refuses pods while the operator is down, and although the replicas
\* overwrite each other's configurations.
OperatorRestarts == \A r \in Replica : <>[](at[r] = "serving")

-----------------------------------------------------------------------------
\* What the documentation says and the code does not do.

\* "Leader election (enable for HA / multiple replicas)" (values.yaml): with all
\* replicas up, a webhook call succeeds whichever of them it reaches.
EveryReplicaTrusted ==
    (\A r \in Replica : at[r] = "serving") =>
        \A r \in Replica : mutating = ca[r] /\ validating = ca[r]

=============================================================================
