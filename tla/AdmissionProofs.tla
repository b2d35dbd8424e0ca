--------------------------- MODULE AdmissionProofs ---------------------------
(***************************************************************************)
(* Proofs about the admission webhooks of module Admission.                *)
(***************************************************************************)
EXTENDS Admission, FiniteSetTheorems, WellFoundedInduction, TLAPS

Fields ==
    {"label", "runtime", "scheduler", "gates", "evidence", "pinned", "model", "inject", "govar",
     "sidecars", "injected", "proxies", "tokenVolumes", "restricted", "native", "ann"}

IsPod(p) == p = [field \in Fields |-> p[field]]

AnnotationsFor(spec) ==
    LET expected == firstAllowedRuntime(spec)
    IN  [hash |-> spec, expected |-> expected,
         applied |-> IF spec.confidential THEN mapRuntimeClass(expected) ELSE expected,
         age |-> spec.maxAge,
         simulated |-> spec.confidential /\ Simulates(expected)]

\* Confidential has nothing to do for the pod.
Fitted(p, spec) ==
    spec # None =>
        /\ p.ann = AnnotationsFor(spec)
        /\ p.runtime = None => AnnotationsFor(spec).applied = None
        /\ p.scheduler # None
        /\ ~p.evidence => p.gates # 0

\* What TypeOK says of the admitted pod, beyond its type.
Sound(p) ==
    /\ \A field \in {"sidecars", "gates", "tokenVolumes", "proxies"} : p[field] <= 1
    /\ p.ann # None => p.ann.age = p.ann.hash.maxAge

-----------------------------------------------------------------------------
\* First, as matchingPolicies and firstAllowedRuntime use it: the loops of the code stop
\* at the first index that serves.
LEMMA Smallest ==
    ASSUME NEW S, S \subseteq Nat, S # {}
    PROVE  First(S) \in S /\ \A m \in S : First(S) <= m
<1> DEFINE Less == OpToRel(<, Nat)
<1>1. IsWellFoundedOn(Less, Nat)
  BY NatLessThanWellFounded, Zenon
<1> HIDE DEF Less
<1>2. PICK n \in S : \A m \in S : <<m, n>> \notin Less
  BY <1>1, WFMin
<1>3. \A m \in S : ~(m < n)
  BY <1>2 DEF Less, OpToRel
<1>4. \E i \in S : \A j \in S : i <= j
  BY <1>3
<1> QED
  BY <1>4, Zenon DEF First

\* Pods are functions of their fields.
LEMMA PodShape ==
    ASSUME NEW p \in PodObject
    PROVE  IsPod(p)
BY DEF PodObject, IsPod, Fields

\* What Confidential changes, field by field.
LEMMA ConfidentialFields ==
    ASSUME NEW p, IsPod(p), NEW spec, spec # None
    PROVE  LET q == Confidential(p, spec)
           IN  /\ IsPod(q)
               /\ \A field \in Fields \ {"ann", "runtime", "scheduler", "gates"} : q[field] = p[field]
               /\ q.ann = AnnotationsFor(spec)
               /\ q.runtime = IF p.runtime = None THEN AnnotationsFor(spec).applied ELSE p.runtime
               /\ q.scheduler = IF p.scheduler = None THEN Scheduler ELSE p.scheduler
               /\ q.gates = IF p.evidence THEN p.gates ELSE ensureSchedulingGate(p.gates)
<1> DEFINE a == [p EXCEPT !.ann = AnnotationsFor(spec)]
           q == [a EXCEPT !.runtime = IF @ = None THEN a.ann.applied ELSE @,
                          !.scheduler = IF @ = None THEN Scheduler ELSE @,
                          !.gates = IF a.evidence THEN @ ELSE ensureSchedulingGate(@)]
<1>1. Confidential(p, spec) = q
  BY DEF Confidential, annotateConfidentialPod, AnnotationsFor
<1>2. PICK n : n = AnnotationsFor(spec)
  OBVIOUS
<1>3. /\ IsPod(a) /\ a.ann = n /\ \A field \in Fields \ {"ann"} : a[field] = p[field]
      /\ a.runtime = p.runtime /\ a.scheduler = p.scheduler /\ a.gates = p.gates
      /\ a.evidence = p.evidence
  BY <1>2 DEF IsPod, Fields
<1> HIDE DEF a
<1>4. /\ IsPod(q) /\ \A field \in Fields \ {"runtime", "scheduler", "gates"} : q[field] = a[field]
      /\ q.ann = a.ann
      /\ q.runtime = IF a.runtime = None THEN a.ann.applied ELSE a.runtime
      /\ q.scheduler = IF a.scheduler = None THEN Scheduler ELSE a.scheduler
      /\ q.gates = IF a.evidence THEN a.gates ELSE ensureSchedulingGate(a.gates)
  BY <1>3 DEF IsPod, Fields
<1> HIDE DEF q
<1> QED
  BY <1>1, <1>2, <1>3, <1>4

\* The pod Confidential answers with is fitted.
LEMMA ConfidentialFits ==
    ASSUME NEW p, IsPod(p), NEW spec
    PROVE  IsPod(Confidential(p, spec)) /\ Fitted(Confidential(p, spec), spec)
<1>1. CASE spec = None
  BY <1>1 DEF Confidential, Fitted
<1>2. CASE spec # None
  <2> DEFINE q == Confidential(p, spec)
  <2>1. /\ IsPod(q) /\ q["evidence"] = p["evidence"] /\ q.ann = AnnotationsFor(spec)
        /\ q.runtime = IF p.runtime = None THEN AnnotationsFor(spec).applied ELSE p.runtime
        /\ q.scheduler = IF p.scheduler = None THEN Scheduler ELSE p.scheduler
        /\ q.gates = IF p.evidence THEN p.gates ELSE ensureSchedulingGate(p.gates)
    BY <1>2, ConfidentialFields DEF Fields
  <2> HIDE DEF q
  <2>2. ~q.evidence => q.gates # 0
    BY <2>1 DEF ensureSchedulingGate
  <2>3. Fitted(q, spec)
    BY <2>1, <2>2, AdmissionConstants DEF Fitted
  <2> QED
    BY <2>1, <2>3 DEF q
<1> QED
  BY <1>1, <1>2

\* A fitted pod stays as it is: annotations, class, scheduler and gate are there.
LEMMA FittedStays ==
    ASSUME NEW p, IsPod(p), NEW spec, Fitted(p, spec)
    PROVE  Confidential(p, spec) = p
<1>1. CASE spec = None
  BY <1>1 DEF Confidential
<1>2. CASE spec # None
  <2> DEFINE q == Confidential(p, spec)
  <2>1. /\ IsPod(q)
        /\ \A field \in Fields \ {"ann", "runtime", "scheduler", "gates"} : q[field] = p[field]
        /\ q.ann = AnnotationsFor(spec)
        /\ q.runtime = IF p.runtime = None THEN AnnotationsFor(spec).applied ELSE p.runtime
        /\ q.scheduler = IF p.scheduler = None THEN Scheduler ELSE p.scheduler
        /\ q.gates = IF p.evidence THEN p.gates ELSE ensureSchedulingGate(p.gates)
    BY <1>2, ConfidentialFields
  <2> HIDE DEF q
  <2>2. q.ann = p.ann /\ q.runtime = p.runtime /\ q.scheduler = p.scheduler /\ q.gates = p.gates
    BY <1>2, <2>1 DEF Fitted, ensureSchedulingGate
  <2>3. \A field \in Fields : q[field] = p[field]
    BY <2>1, <2>2
  <2>4. q = p
    BY <2>1, <2>3 DEF IsPod
  <2> QED
    BY <2>4 DEF q
<1> QED
  BY <1>1, <1>2

\* The hardening a GOV-AR namespace asks for touches two fields, and once.
LEMMA GovernedFields ==
    ASSUME NEW p, IsPod(p), NEW required \in BOOLEAN
    PROVE  LET q == Governed(p, required)
           IN  /\ IsPod(q)
               /\ \A field \in Fields \ {"restricted", "native"} : q[field] = p[field]
               /\ Governed(q, required) = q
<1>1. CASE ~required
  BY <1>1 DEF Governed
<1>2. CASE required
  <2>1. PICK b : b = TRUE
    OBVIOUS
  <2> DEFINE q == [p EXCEPT !.restricted = b, !.native = b]
  <2>2. Governed(p, required) = q /\ Governed(q, required) = [q EXCEPT !.restricted = b, !.native = b]
    BY <1>2, <2>1, Zenon DEF Governed
  <2>3. IsPod(q) /\ \A field \in Fields \ {"restricted", "native"} : q[field] = p[field]
    BY DEF IsPod, Fields
  <2>4. q["restricted"] = b /\ q["native"] = b
    BY DEF IsPod, Fields
  <2> HIDE DEF q
  <2>5. [q EXCEPT !.restricted = b, !.native = b] = q
    BY <2>3, <2>4 DEF IsPod, Fields
  <2> QED
    BY <2>2, <2>3, <2>5
<1> QED
  BY <1>1, <1>2

\* What WithSidecar changes, field by field.
LEMMA SidecarFields ==
    ASSUME NEW p, IsPod(p)
    PROVE  LET q == WithSidecar(p)
           IN  /\ IsPod(q) /\ q["injected"] = TRUE
               /\ \A field \in Fields \ {"sidecars", "injected", "proxies", "tokenVolumes", "restricted"} :
                     q[field] = p[field]
               /\ q["sidecars"] = IF hasContainer(p) THEN p["sidecars"] ELSE 1
               /\ q["proxies"] = IF hasContainer(p) THEN p["proxies"] ELSE injectProxyEnv(p["proxies"])
               /\ q["tokenVolumes"] =
                     IF hasContainer(p) \/ ~resolveGOVARConfig(p) THEN p["tokenVolumes"]
                     ELSE ensureGOVARTokenVolume(p["tokenVolumes"])
               /\ q["restricted"] = IF hasContainer(p) THEN p["restricted"]
                                    ELSE p["restricted"] \/ resolveGOVARConfig(p)
<1>1. PICK b : b = TRUE
  OBVIOUS
<1>2. CASE hasContainer(p)
  <2>1. WithSidecar(p) = [p EXCEPT !.injected = b]
    BY <1>1, <1>2, Zenon DEF WithSidecar
  <2>2. PICK q : q = [p EXCEPT !.injected = b]
    OBVIOUS
  <2>3. IsPod(q) /\ q["injected"] = b /\ \A field \in Fields \ {"injected"} : q[field] = p[field]
    BY <2>2 DEF IsPod, Fields
  <2>4. /\ q["sidecars"] = p["sidecars"] /\ q["proxies"] = p["proxies"]
        /\ q["tokenVolumes"] = p["tokenVolumes"] /\ q["restricted"] = p["restricted"]
    BY <2>3 DEF Fields
  <2> QED
    BY <1>1, <1>2, <2>1, <2>2, <2>3, <2>4, Zenon
<1>3. CASE ~hasContainer(p)
  <2> DEFINE v == IF resolveGOVARConfig(p) THEN ensureGOVARTokenVolume(p.tokenVolumes) ELSE p.tokenVolumes
  <2>1. PICK r : r = (p.restricted \/ resolveGOVARConfig(p))
    OBVIOUS
  <2>2. WithSidecar(p) = [p EXCEPT !.sidecars = 1, !.injected = b, !.proxies = injectProxyEnv(@),
                                   !.tokenVolumes = v, !.restricted = r]
    BY <1>1, <1>3, <2>1, Zenon DEF WithSidecar
  <2>3. PICK q : q = WithSidecar(p)
    OBVIOUS
  <2> HIDE DEF v
  <2>4. /\ IsPod(q) /\ q["injected"] = b /\ q["sidecars"] = 1
        /\ q["proxies"] = injectProxyEnv(p["proxies"]) /\ q["tokenVolumes"] = v /\ q["restricted"] = r
        /\ \A field \in Fields \ {"sidecars", "injected", "proxies", "tokenVolumes", "restricted"} :
              q[field] = p[field]
    BY <2>2, <2>3 DEF IsPod, Fields
  <2>5. v = IF hasContainer(p) \/ ~resolveGOVARConfig(p) THEN p["tokenVolumes"]
            ELSE ensureGOVARTokenVolume(p["tokenVolumes"])
    BY <1>3, Zenon DEF v
  <2> QED
    BY <1>1, <1>3, <2>1, <2>3, <2>4, <2>5, Zenon
<1> QED
  BY <1>2, <1>3

\* The pod before the sidecar: fitted, and hardened if the namespace asks for it.
LEMMA GovernedPod ==
    ASSUME NEW p, IsPod(p), NEW spec, NEW required \in BOOLEAN
    PROVE  LET g == Governed(Confidential(p, spec), required)
           IN  /\ IsPod(g) /\ Fitted(g, spec) /\ Governed(g, required) = g
               /\ \A field \in Fields \ {"ann", "runtime", "scheduler", "gates", "restricted", "native"} :
                     g[field] = p[field]
               /\ spec = None => g.ann = p.ann
               /\ spec # None =>
                     /\ g.ann = AnnotationsFor(spec)
                     /\ g.runtime = IF p.runtime = None THEN AnnotationsFor(spec).applied ELSE p.runtime
                     /\ g.scheduler = IF p.scheduler = None THEN Scheduler ELSE p.scheduler
                     /\ g.gates = IF p.evidence THEN p.gates ELSE ensureSchedulingGate(p.gates)
               /\ spec = None =>
                     g.runtime = p.runtime /\ g.scheduler = p.scheduler /\ g.gates = p.gates
<1>1. PICK c : c = Confidential(p, spec)
  OBVIOUS
<1>2. PICK g : g = Governed(c, required)
  OBVIOUS
<1>3. IsPod(c) /\ Fitted(c, spec)
  BY <1>1, ConfidentialFits
<1>4. /\ IsPod(g) /\ Governed(g, required) = g
      /\ \A field \in Fields \ {"restricted", "native"} : g[field] = c[field]
  BY <1>2, <1>3, GovernedFields
<1>5. /\ g.ann = c.ann /\ g.runtime = c.runtime /\ g.scheduler = c.scheduler /\ g.gates = c.gates
      /\ g.evidence = c.evidence
  BY <1>4 DEF Fields
<1>6. Fitted(g, spec)
  BY <1>3, <1>5, Zenon DEF Fitted
<1>7. CASE spec = None
  <2>1. c = p
    BY <1>1, <1>7 DEF Confidential
  <2> QED
    BY <1>1, <1>2, <1>4, <1>5, <1>6, <1>7, <2>1
<1>8. CASE spec # None
  <2>1. /\ \A field \in Fields \ {"ann", "runtime", "scheduler", "gates"} : c[field] = p[field]
        /\ c.ann = AnnotationsFor(spec)
        /\ c.runtime = IF p.runtime = None THEN AnnotationsFor(spec).applied ELSE p.runtime
        /\ c.scheduler = IF p.scheduler = None THEN Scheduler ELSE p.scheduler
        /\ c.gates = IF p.evidence THEN p.gates ELSE ensureSchedulingGate(p.gates)
    BY <1>1, <1>8, ConfidentialFields
  <2> QED
    BY <1>1, <1>2, <1>4, <1>5, <1>6, <1>8, <2>1
<1> QED
  BY <1>7, <1>8

\* Handle answers with a pod, keeps what matching and injection look at, and answers its
\* own answer unchanged.
LEMMA HandleStays ==
    ASSUME NEW p, IsPod(p), NEW spec, NEW enabled \in BOOLEAN, NEW required \in BOOLEAN,
           Handle(p, spec, enabled, required) # None
    PROVE  LET q == Handle(p, spec, enabled, required)
           IN  /\ q["label"] = p["label"] /\ q["inject"] = p["inject"]
               /\ Handle(q, spec, enabled, required) = q
<1>1. PICK g : g = Governed(Confidential(p, spec), required)
  OBVIOUS
<1>2. PICK q : q = Handle(p, spec, enabled, required)
  OBVIOUS
<1>3. /\ IsPod(g) /\ Fitted(g, spec) /\ Governed(g, required) = g
      /\ g["label"] = p["label"] /\ g["inject"] = p["inject"]
  BY <1>1, GovernedPod DEF Fields
<1>4. Confidential(g, spec) = g
  BY <1>3, FittedStays
<1>5. CASE ~enabled \/ required
  <2>1. q = g
    BY <1>1, <1>2, <1>5, Zenon DEF Handle
  <2>2. Handle(g, spec, enabled, required) = g
    BY <1>3, <1>4, <1>5, Zenon DEF Handle
  <2> QED
    BY <1>2, <1>3, <2>1, <2>2
<1>6. CASE enabled /\ ~required /\ hasContainer(p) /\ g = p
  <2>1. ~BadGOVAR(g)
    BY <1>6, Zenon DEF BadGOVAR
  <2>2. q = p
    BY <1>1, <1>2, <1>6, <2>1, Zenon DEF Handle
  <2> QED
    BY <1>2, <1>3, <2>2
<1>7. CASE enabled /\ ~required /\ ~(hasContainer(p) /\ g = p)
  <2>1. q = WithSidecar(g)
    BY <1>1, <1>2, <1>7, Zenon DEF Handle
  <2>2. /\ IsPod(q)
        /\ \A field \in Fields \ {"sidecars", "injected", "proxies", "tokenVolumes", "restricted"} :
              q[field] = g[field]
        /\ q["sidecars"] = IF hasContainer(g) THEN g["sidecars"] ELSE 1
    BY <1>3, <2>1, SidecarFields
  <2>3. /\ q.ann = g.ann /\ q.runtime = g.runtime /\ q.scheduler = g.scheduler /\ q.gates = g.gates
        /\ q.evidence = g.evidence /\ q["label"] = g["label"] /\ q["inject"] = g["inject"]
    BY <2>2 DEF Fields
  <2>4. Fitted(q, spec)
    BY <1>3, <2>3, Zenon DEF Fitted
  <2>5. Governed(Confidential(q, spec), required) = q
    BY <1>7, <2>2, <2>4, FittedStays DEF Governed
  <2>6. hasContainer(q)
    BY <2>2 DEF hasContainer
  <2>7. Handle(q, spec, enabled, required) = q
    BY <1>7, <2>5, <2>6, Zenon DEF Handle, BadGOVAR
  <2> QED
    BY <1>2, <1>3, <2>3, <2>7
<1> QED
  BY <1>5, <1>6, <1>7

-----------------------------------------------------------------------------
\* The class a policy asks for, and the one mapRuntimeClass makes of it.

LEMMA RuntimeTypes ==
    ASSUME NEW spec \in Specs
    PROVE  /\ firstAllowedRuntime(spec) \in RuntimeClass \cup {None}
           /\ firstAllowedRuntime(spec) # None => firstAllowedRuntime(spec) \in Entries(spec)
<1>1. spec.allowed \in Seq(RuntimeClass \cup {None})
  BY AdmissionConstants DEF Spec0
<1> DEFINE given == {i \in DOMAIN spec.allowed : spec.allowed[i] # None}
<1>2. given \subseteq Nat /\ given \subseteq DOMAIN spec.allowed
  BY <1>1
<1>3. CASE given = {}
  BY <1>3 DEF firstAllowedRuntime
<1>4. CASE given # {}
  <2>1. First(given) \in given
    BY <1>2, <1>4, Smallest
  <2>2. firstAllowedRuntime(spec) = spec.allowed[First(given)]
    BY <1>4, Zenon DEF firstAllowedRuntime
  <2>3. First(given) \in DOMAIN spec.allowed
    BY <2>1
  <2> HIDE DEF given
  <2>4. spec.allowed[First(given)] \in Entries(spec)
    BY <2>3 DEF Entries
  <2>5. spec.allowed[First(given)] \in RuntimeClass \cup {None}
    BY <1>1, <2>3
  <2> QED
    BY <2>2, <2>4, <2>5
<1> QED
  BY <1>3, <1>4

LEMMA MappedClass ==
    ASSUME NEW class \in RuntimeClass \cup {None}
    PROVE  mapRuntimeClass(class) \in RuntimeClass \cup {None}
<1>1. Simulates(class) => SimulatedClass[class] \in RuntimeClass
  BY DEF Simulates, RuntimeClass
<1> QED
  BY <1>1 DEF mapRuntimeClass

LEMMA AnnotationsTyped ==
    ASSUME NEW spec \in Specs
    PROVE  /\ AnnotationsFor(spec) \in Annotations
           /\ AnnotationsFor(spec) # None /\ AnnotationsFor(spec).hash = spec
           /\ AnnotationsFor(spec).age = spec.maxAge
           /\ AnnotationsFor(spec).applied \in RuntimeClass \cup {None}
<1>1. PICK e : e = firstAllowedRuntime(spec)
  OBVIOUS
<1>2. e \in RuntimeClass \cup {None}
  BY <1>1, RuntimeTypes
<1>3. PICK a : a = IF spec.confidential THEN mapRuntimeClass(e) ELSE e
  OBVIOUS
<1>4. a \in RuntimeClass \cup {None}
  BY <1>2, <1>3, MappedClass
<1>5. PICK s : s = (spec.confidential /\ Simulates(e))
  OBVIOUS
<1>6. s \in BOOLEAN
  BY <1>5, Zenon
<1>7. spec.maxAge \in Nat
  BY AdmissionConstants DEF Spec0
<1>8. AnnotationsFor(spec) =
        [hash |-> spec, expected |-> e, applied |-> a, age |-> spec.maxAge, simulated |-> s]
  BY <1>1, <1>3, <1>5, Zenon DEF AnnotationsFor
<1>9. AnnotationsFor(spec) \in Annotations
  BY <1>2, <1>4, <1>6, <1>7, <1>8 DEF Annotations
<1> QED
  BY <1>4, <1>8, <1>9, AdmissionConstants

LEMMA PodTyped ==
    ASSUME NEW q, IsPod(q),
           q["label"] \in Label, q["runtime"] \in RuntimeClass \cup {None},
           q["scheduler"] \in {None, "default-scheduler", Scheduler}, q["gates"] \in Nat,
           q["evidence"] \in BOOLEAN, q["pinned"] \in BOOLEAN, q["model"] \in BOOLEAN,
           q["inject"] \in {None, "on", "off"}, q["govar"] \in {"off", "incomplete", "complete"},
           q["sidecars"] \in Nat, q["injected"] \in BOOLEAN, q["proxies"] \in Nat,
           q["tokenVolumes"] \in Nat, q["restricted"] \in BOOLEAN, q["native"] \in BOOLEAN,
           q["ann"] \in Annotations \cup {None}
    PROVE  q \in PodObject
BY DEF PodObject, IsPod, Fields

LEMMA GovernedTyped ==
    ASSUME NEW p \in PodObject, NEW required \in BOOLEAN
    PROVE  Governed(p, required)["restricted"] \in BOOLEAN /\ Governed(p, required)["native"] \in BOOLEAN
<1>1. PICK b : b = TRUE
  OBVIOUS
<1>2. CASE required
  <2>1. Governed(p, required) = [p EXCEPT !.restricted = b, !.native = b]
    BY <1>1, <1>2, Zenon DEF Governed
  <2>2. Governed(p, required)["restricted"] = b /\ Governed(p, required)["native"] = b
    BY <2>1, PodShape DEF IsPod, Fields
  <2> QED
    BY <1>1, <2>2, Zenon
<1>3. CASE ~required
  <2>1. Governed(p, required) = p
    BY <1>3 DEF Governed
  <2> QED
    BY <2>1 DEF PodObject
<1> QED
  BY <1>2, <1>3

\* The fitted pod is a pod, and has no second gate.
LEMMA ConfidentialTyped ==
    ASSUME NEW p \in PodObject, NEW spec \in Specs \cup {None}
    PROVE  /\ Confidential(p, spec) \in PodObject
           /\ Sound(p) => Sound(Confidential(p, spec))
<1>1. CASE spec = None
  BY <1>1 DEF Confidential
<1>2. CASE spec # None
  <2>1. PICK c : c = Confidential(p, spec)
    OBVIOUS
  <2>2. PICK a : a = AnnotationsFor(spec)
    OBVIOUS
  <2>3. /\ a \in Annotations /\ a.hash = spec /\ a.age = spec.maxAge
        /\ a.applied \in RuntimeClass \cup {None}
    BY <1>2, <2>2, AnnotationsTyped
  <2>4. /\ IsPod(c)
        /\ \A field \in Fields \ {"ann", "runtime", "scheduler", "gates"} : c[field] = p[field]
        /\ c.ann = a
        /\ c.runtime = IF p.runtime = None THEN a.applied ELSE p.runtime
        /\ c.scheduler = IF p.scheduler = None THEN Scheduler ELSE p.scheduler
        /\ c.gates = IF p.evidence THEN p.gates ELSE ensureSchedulingGate(p.gates)
    BY <1>2, <2>1, <2>2, PodShape, ConfidentialFields
  <2>5. c["runtime"] \in RuntimeClass \cup {None}
    BY <2>3, <2>4 DEF PodObject
  <2>6. c["scheduler"] \in {None, "default-scheduler", Scheduler}
    BY <2>4 DEF PodObject
  <2>7. c["gates"] \in Nat /\ (p["gates"] <= 1 => c["gates"] <= 1)
    BY <2>4 DEF PodObject, ensureSchedulingGate
  <2>8. c["ann"] \in Annotations \cup {None}
    BY <2>3, <2>4
  <2>9. /\ c["label"] \in Label /\ c["evidence"] \in BOOLEAN /\ c["pinned"] \in BOOLEAN
        /\ c["model"] \in BOOLEAN /\ c["inject"] \in {None, "on", "off"}
        /\ c["govar"] \in {"off", "incomplete", "complete"}
        /\ c["sidecars"] \in Nat /\ c["injected"] \in BOOLEAN /\ c["proxies"] \in Nat
        /\ c["tokenVolumes"] \in Nat /\ c["restricted"] \in BOOLEAN /\ c["native"] \in BOOLEAN
    BY <2>4 DEF Fields, PodObject
  <2>10. c \in PodObject
    BY <2>4, <2>5, <2>6, <2>7, <2>8, <2>9, PodTyped
  <2>11. Sound(p) => Sound(c)
    <3> SUFFICES ASSUME Sound(p) PROVE Sound(c)
      OBVIOUS
    <3>1. c["sidecars"] <= 1 /\ c["tokenVolumes"] <= 1 /\ c["proxies"] <= 1 /\ c["gates"] <= 1
      BY <2>4, <2>7 DEF Sound, Fields
    <3>2. c.ann.age = c.ann.hash.maxAge
      BY <2>3, <2>4
    <3> QED
      BY <3>1, <3>2 DEF Sound
  <2> QED
    BY <2>1, <2>10, <2>11
<1> QED
  BY <1>1, <1>2

\* So is the hardened one.
LEMMA GovernedKeeps ==
    ASSUME NEW p \in PodObject, NEW required \in BOOLEAN
    PROVE  /\ Governed(p, required) \in PodObject
           /\ Sound(p) => Sound(Governed(p, required))
<1>1. PICK g : g = Governed(p, required)
  OBVIOUS
<1>2. IsPod(g) /\ \A field \in Fields \ {"restricted", "native"} : g[field] = p[field]
  BY <1>1, PodShape, GovernedFields
<1>3. g["restricted"] \in BOOLEAN /\ g["native"] \in BOOLEAN
  BY <1>1, GovernedTyped
<1>4. /\ g["label"] \in Label /\ g["runtime"] \in RuntimeClass \cup {None}
      /\ g["scheduler"] \in {None, "default-scheduler", Scheduler} /\ g["gates"] \in Nat
      /\ g["evidence"] \in BOOLEAN /\ g["pinned"] \in BOOLEAN /\ g["model"] \in BOOLEAN
      /\ g["inject"] \in {None, "on", "off"} /\ g["govar"] \in {"off", "incomplete", "complete"}
      /\ g["sidecars"] \in Nat /\ g["injected"] \in BOOLEAN /\ g["proxies"] \in Nat
      /\ g["tokenVolumes"] \in Nat /\ g["ann"] \in Annotations \cup {None}
  BY <1>2 DEF Fields, PodObject
<1>5. g \in PodObject
  BY <1>2, <1>3, <1>4, PodTyped
<1>6. /\ g["sidecars"] = p["sidecars"] /\ g["gates"] = p["gates"]
      /\ g["tokenVolumes"] = p["tokenVolumes"] /\ g["proxies"] = p["proxies"] /\ g.ann = p.ann
  BY <1>2 DEF Fields
<1>7. Sound(p) => Sound(g)
  BY <1>6 DEF Sound
<1> QED
  BY <1>1, <1>5, <1>7

\* And so is the one with the sidecar: it is added once, with one volume and one setting
\* of each proxy variable.
LEMMA SidecarKeeps ==
    ASSUME NEW p \in PodObject
    PROVE  /\ WithSidecar(p) \in PodObject
           /\ Sound(p) => Sound(WithSidecar(p))
<1>1. PICK q : q = WithSidecar(p)
  OBVIOUS
<1>2. /\ IsPod(q) /\ q["injected"] = TRUE
      /\ \A field \in Fields \ {"sidecars", "injected", "proxies", "tokenVolumes", "restricted"} :
            q[field] = p[field]
      /\ q["sidecars"] = IF hasContainer(p) THEN p["sidecars"] ELSE 1
      /\ q["proxies"] = IF hasContainer(p) THEN p["proxies"] ELSE injectProxyEnv(p["proxies"])
      /\ q["tokenVolumes"] =
            IF hasContainer(p) \/ ~resolveGOVARConfig(p) THEN p["tokenVolumes"]
            ELSE ensureGOVARTokenVolume(p["tokenVolumes"])
      /\ q["restricted"] = IF hasContainer(p) THEN p["restricted"]
                           ELSE p["restricted"] \/ resolveGOVARConfig(p)
  BY <1>1, PodShape, SidecarFields, Zenon
<1>3. q["injected"] \in BOOLEAN
  BY <1>2, Zenon
<1>4. p["restricted"] \in BOOLEAN
  BY DEF PodObject
<1>5. q["restricted"] \in BOOLEAN
  BY <1>2, <1>4, Zenon
<1>6. /\ q["label"] \in Label /\ q["runtime"] \in RuntimeClass \cup {None}
      /\ q["scheduler"] \in {None, "default-scheduler", Scheduler} /\ q["gates"] \in Nat
      /\ q["evidence"] \in BOOLEAN /\ q["pinned"] \in BOOLEAN /\ q["model"] \in BOOLEAN
      /\ q["inject"] \in {None, "on", "off"} /\ q["govar"] \in {"off", "incomplete", "complete"}
      /\ q["native"] \in BOOLEAN /\ q["ann"] \in Annotations \cup {None}
  BY <1>2 DEF Fields, PodObject
<1>7. q["sidecars"] \in Nat /\ q["proxies"] \in Nat /\ q["tokenVolumes"] \in Nat
  BY <1>2 DEF PodObject, injectProxyEnv, ensureGOVARTokenVolume
<1>8. q \in PodObject
  BY <1>2, <1>3, <1>5, <1>6, <1>7, PodTyped
<1>9. Sound(p) => Sound(q)
  <2> SUFFICES ASSUME Sound(p) PROVE Sound(q)
    OBVIOUS
  <2>1. q["gates"] = p["gates"] /\ q.ann = p.ann
    BY <1>2 DEF Fields
  <2>2. q["sidecars"] <= 1 /\ q["proxies"] <= 1 /\ q["tokenVolumes"] <= 1
    BY <1>2 DEF Sound, injectProxyEnv, ensureGOVARTokenVolume
  <2> QED
    BY <2>1, <2>2 DEF Sound
<1> QED
  BY <1>1, <1>8, <1>9

\* The answer of Handle: a pod, sound if the one submitted is, with its label, its digests
\* and the annotations of the spec, and with the class of the spec if it had none.
LEMMA HandleKeeps ==
    ASSUME NEW p \in PodObject, NEW spec \in Specs \cup {None},
           NEW enabled \in BOOLEAN, NEW required \in BOOLEAN,
           Handle(p, spec, enabled, required) # None
    PROVE  LET q == Handle(p, spec, enabled, required)
           IN  /\ q \in PodObject /\ (Sound(p) => Sound(q))
               /\ q.label = p.label /\ q.pinned = p.pinned /\ q.model = p.model
               /\ spec = None => q.ann = p.ann /\ q.runtime = p.runtime
               /\ spec # None =>
                     /\ q.ann = AnnotationsFor(spec)
                     /\ q.runtime = IF p.runtime = None THEN AnnotationsFor(spec).applied ELSE p.runtime
<1>1. PICK g : g = Governed(Confidential(p, spec), required)
  OBVIOUS
<1>2. PICK q : q = Handle(p, spec, enabled, required)
  OBVIOUS
<1>3. g \in PodObject /\ (Sound(p) => Sound(g))
  BY <1>1, ConfidentialTyped, GovernedKeeps
<1>4. /\ g.label = p.label /\ g.pinned = p.pinned /\ g.model = p.model
      /\ spec = None => g.ann = p.ann /\ g.runtime = p.runtime
      /\ spec # None =>
            /\ g.ann = AnnotationsFor(spec)
            /\ g.runtime = IF p.runtime = None THEN AnnotationsFor(spec).applied ELSE p.runtime
  BY <1>1, PodShape, GovernedPod DEF Fields
<1>5. CASE q = g
  BY <1>2, <1>3, <1>4, <1>5
<1>6. CASE q = WithSidecar(g)
  <2>1. q \in PodObject /\ (Sound(p) => Sound(q))
    BY <1>3, <1>6, SidecarKeeps
  <2>2. \A field \in Fields \ {"sidecars", "injected", "proxies", "tokenVolumes", "restricted"} :
          q[field] = g[field]
    BY <1>3, <1>6, PodShape, SidecarFields
  <2>3. /\ q.label = g.label /\ q.pinned = g.pinned /\ q.model = g.model
        /\ q.ann = g.ann /\ q.runtime = g.runtime
    BY <2>2 DEF Fields
  <2> QED
    BY <1>2, <1>4, <2>1, <2>3
<1>7. q = g \/ q = WithSidecar(g)
  BY <1>1, <1>2, Zenon DEF Handle
<1> QED
  BY <1>5, <1>6, <1>7

\* Matching looks at the label only, so that the fitted pod has the policies of the one
\* submitted.
LEMMA MatchingByLabel ==
    ASSUME NEW ns, NEW p, NEW q, p.label = q.label
    PROVE  /\ matchingPolicies(ns, p) = matchingPolicies(ns, q)
           /\ mutateForConfidentialPolicy(ns, p) = mutateForConfidentialPolicy(ns, q)
<1>1. matchingPolicies(ns, p) = matchingPolicies(ns, q)
  BY DEF matchingPolicies, policyMatches
<1> QED
  BY <1>1 DEF mutateForConfidentialPolicy

\* The policy a pod is fitted to is the first that matches, if one does.
LEMMA FirstPolicy ==
    ASSUME NEW ns, NEW p, policies \in [Name -> Specs \cup {None}]
    PROVE  LET matching == matchingPolicies(ns, p)
               spec == mutateForConfidentialPolicy(ns, p)
           IN  /\ spec \in Specs \cup {None}
               /\ spec = None <=> matching = {}
               /\ matching # {} =>
                     \E i \in matching : policies[i] = spec /\ \A j \in matching : i <= j
<1>1. PICK m : m = matchingPolicies(ns, p)
  OBVIOUS
<1>2. m \subseteq Nat /\ \A i \in m : policies[i] \in Specs \cup {None} /\ policies[i] # None
  BY <1>1, AdmissionConstants DEF matchingPolicies, Name
<1>3. CASE m = {}
  BY <1>1, <1>3 DEF mutateForConfidentialPolicy
<1>4. CASE m # {}
  <2>1. First(m) \in m /\ \A j \in m : First(m) <= j
    BY <1>2, <1>4, Smallest
  <2>2. mutateForConfidentialPolicy(ns, p) = policies[First(m)]
    BY <1>1, <1>4 DEF mutateForConfidentialPolicy
  <2> QED
    BY <1>1, <1>2, <1>4, <2>1, <2>2
<1> QED
  BY <1>3, <1>4

-----------------------------------------------------------------------------
\* The two properties of the webhooks as functions: they hold in every state of the
\* right type.

LEMMA IdempotentIfTyped ==
    ASSUME TypeOK
    PROVE  MutationIdempotent
<1> SUFFICES ASSUME NEW p \in {SetDefaults(q) : q \in NewPods} \cup NewPods, Mutated(p) # None
             PROVE  Mutated(Mutated(p)) = Mutated(p)
  BY DEF MutationIdempotent
<1>1. IsPod(p)
  <2>1. \A q \in NewPods : IsPod(q)
    BY AdmissionConstants, PodShape
  <2>2. ASSUME NEW q, IsPod(q)
        PROVE  IsPod(SetDefaults(q))
    BY <2>2 DEF SetDefaults, IsPod, Fields
  <2> QED
    BY <2>1, <2>2
<1>2. namespace.inject \in BOOLEAN /\ namespace.govar \in BOOLEAN
  BY DEF TypeOK, Namespaces
<1>3. PICK q : q = Mutated(p)
  OBVIOUS
<1>4. PICK enabled : enabled = shouldInject(p)
  OBVIOUS
<1>5. enabled \in BOOLEAN
  BY <1>2, <1>4, Zenon DEF shouldInject
<1>6. PICK spec : spec = mutateForConfidentialPolicy(namespace, p)
  OBVIOUS
<1>7. q = Handle(p, spec, enabled, namespace.govar) /\ q # None
  BY <1>3, <1>4, <1>6 DEF Mutated, namespaceRequiresGOVAR
<1>8. /\ q["label"] = p["label"] /\ q["inject"] = p["inject"]
      /\ Handle(q, spec, enabled, namespace.govar) = q
  BY <1>1, <1>2, <1>5, <1>7, HandleStays
<1>9. mutateForConfidentialPolicy(namespace, q) = spec
  BY <1>6, <1>8, MatchingByLabel
<1>10. shouldInject(q) = enabled
  BY <1>4, <1>8, Zenon DEF shouldInject
<1> QED
  BY <1>3, <1>8, <1>9, <1>10 DEF Mutated, namespaceRequiresGOVAR

\* The class that Confidential applies is accepted exactly when the one it stands for is:
\* a simulated class is applied outside production only, and its prefix is trimmed.
LEMMA AppliedClass ==
    ASSUME NEW spec \in Specs, NEW p, NEW q, p.pinned = q.pinned, p.model = q.model,
           p.sidecars = q.sidecars,
           q.runtime = IF p.runtime = None THEN AnnotationsFor(spec).applied ELSE p.runtime
    PROVE  validatePodAgainstPolicy(spec, q) <=> validatePodAgainstPolicy(spec, p)
<1> DEFINE expected == firstAllowedRuntime(spec)
           applied == AnnotationsFor(spec).applied
           Class(r) == IF r # None THEN r ELSE expected
           Accepts(class) ==
              spec.confidential =>
                 /\ spec.allowed # <<>>
                 /\ class # None /\ runtimeAllowed(spec, class)
                 /\ platformMode = "production" =>
                       class = TrimSimulated(class) /\ class \notin classes
<1>1. applied = IF spec.confidential THEN mapRuntimeClass(expected) ELSE expected
  BY DEF AnnotationsFor
<1>2. expected \in RuntimeClass \cup {None} /\ (expected # None => expected \in Entries(spec))
  BY RuntimeTypes
<1>3. ASSUME p.runtime = None, spec.confidential
      PROVE  Accepts(Class(q.runtime)) <=> Accepts(Class(p.runtime))
  <2>1. q.runtime = mapRuntimeClass(expected) /\ Class(p.runtime) = expected
    BY <1>1, <1>3
  <2>2. CASE ~Simulates(expected)
    BY <2>1, <2>2 DEF mapRuntimeClass
  <2>3. CASE Simulates(expected)
    <3>1. PICK s : s = SimulatedClass[expected]
      OBVIOUS
    <3>2. expected \in DOMAIN SimulatedClass /\ platformMode = "simulated-kind"
      BY <2>3 DEF Simulates
    <3>3. expected # None /\ s # None
      BY <3>1, <3>2, AdmissionConstants DEF RuntimeClass
    <3>4. TrimSimulated(s) = expected
      BY <3>1, <3>2 DEF TrimSimulated, SimulatedClass
    <3>5. runtimeAllowed(spec, expected) /\ runtimeAllowed(spec, s)
      BY <1>2, <3>3, <3>4 DEF runtimeAllowed
    <3>6. Class(q.runtime) = s
      BY <2>1, <2>3, <3>1, <3>3 DEF mapRuntimeClass
    <3>7. platformMode # "production"
      BY <3>2
    <3> HIDE DEF expected
    <3> QED
      BY <2>1, <3>3, <3>5, <3>6, <3>7
  <2> QED
    BY <2>2, <2>3
<1>4. Accepts(Class(q.runtime)) <=> Accepts(Class(p.runtime))
  <2>1. CASE p.runtime # None
    BY <2>1
  <2>2. CASE ~spec.confidential
    BY <2>2
  <2> QED
    BY <1>3, <2>1, <2>2
<1>5. \A r \in {p, q} :
        validatePodAgainstPolicy(spec, r) <=>
            /\ spec.imageDigest => r.pinned /\ (r.sidecars > 0 => SidecarPinned)
            /\ spec.modelDigest => r.model
            /\ ~spec.gpu /\ ~spec.untimed
            /\ Accepts(Class(r.runtime))
  BY Zenon DEF validatePodAgainstPolicy
<1> HIDE DEF Accepts, Class
<1> QED
  BY <1>4, <1>5

LEMMA NeutralIfTyped ==
    ASSUME TypeOK
    PROVE  MutationNeutral
<1> SUFFICES ASSUME NEW p \in NewPods, Cardinality(matchingPolicies(namespace, p)) <= 1,
                    Mutated(p) # None, Mutated(p).sidecars = p.sidecars
             PROVE  Valid(namespace, Mutated(p)) <=> Valid(namespace, p)
  BY DEF MutationNeutral
<1>1. PICK q : q = Mutated(p)
  OBVIOUS
<1>2. PICK m : m = matchingPolicies(namespace, p)
  OBVIOUS
<1>3. PICK spec : spec = mutateForConfidentialPolicy(namespace, p)
  OBVIOUS
<1>4. /\ spec \in Specs \cup {None} /\ (spec = None <=> m = {})
      /\ m # {} => \E i \in m : policies[i] = spec
  BY <1>2, <1>3, FirstPolicy DEF TypeOK
<1>5. namespace.inject \in BOOLEAN /\ namespace.govar \in BOOLEAN
  BY DEF TypeOK, Namespaces
<1>6. PICK enabled : enabled = shouldInject(p)
  OBVIOUS
<1>7. enabled \in BOOLEAN
  BY <1>5, <1>6, Zenon DEF shouldInject
<1>8. /\ q.label = p.label /\ q.pinned = p.pinned /\ q.model = p.model
      /\ spec # None =>
            q.runtime = IF p.runtime = None THEN AnnotationsFor(spec).applied ELSE p.runtime
  BY <1>1, <1>3, <1>4, <1>5, <1>6, <1>7, AdmissionConstants, HandleKeeps
     DEF Mutated, namespaceRequiresGOVAR
<1>9. matchingPolicies(namespace, q) = m
  BY <1>2, <1>8, MatchingByLabel
<1>10. \A i, j \in m : i = j
  <2>1. IsFiniteSet(1 .. PolicyCount)
    BY AdmissionConstants, FS_Interval
  <2>2. m \subseteq 1 .. PolicyCount
    BY <1>2, Zenon DEF Name, matchingPolicies
  <2>3. IsFiniteSet(m)
    BY <2>1, <2>2, FS_Subset
  <2> SUFFICES ASSUME NEW i \in m, NEW j \in m, i # j
               PROVE  FALSE
    OBVIOUS
  <2>4. PICK n : n = m \ {i}
    OBVIOUS
  <2>5. IsFiniteSet(n) /\ Cardinality(n) = Cardinality(m) - 1
    BY <2>3, <2>4, FS_RemoveElement
  <2>6. j \in n
    BY <2>4
  <2>7. Cardinality(n) # 0
    BY <2>5, <2>6, FS_EmptySet
  <2> QED
    BY <1>2, <2>3, <2>5, <2>7, FS_CardinalityType
<1>11. \A i \in m : policies[i] = spec /\ spec \in Specs
  BY <1>4, <1>10
<1>12. ASSUME NEW i \in m
       PROVE  validatePodAgainstPolicy(policies[i], q) <=> validatePodAgainstPolicy(policies[i], p)
  BY <1>1, <1>4, <1>8, <1>11, AppliedClass
<1> QED
  BY <1>1, <1>2, <1>9, <1>12 DEF Valid

-----------------------------------------------------------------------------
\* The inductive invariant.

\* The annotations of the pod are those of the first policy that matches it.
NamesPolicy(p) ==
    LET matching == matchingPolicies(namespace, p)
    IN  IF matching = {} THEN p.ann = None
        ELSE p.ann # None /\ \E i \in matching :
                policies[i] = p.ann.hash /\ \A j \in matching : i <= j

\* What the request under way has read is still so unless somebody has edited the policies
\* or the namespace since the mutating webhook began to read.
RequestRight(r) ==
    /\ Sound(r.new) /\ r.edits <= edits
    /\ r.at # "validate" => r.new.ann = None
    /\ r.edits = edits =>
          /\ r.at = "mutate" /\ r.ns # None => r.ns = namespace
          /\ r.at \in {"inject", "govar"} =>
                r.spec = mutateForConfidentialPolicy(namespace, r.new)
          /\ r.at = "validate" /\ r.mutated => NamesPolicy(r.new)

PodRight(x) ==
    /\ x.edits \in Nat /\ x.edits <= edits
    /\ x.mutated /\ x.edits = edits => NamesPolicy(x.object)

RequestInv == request # None => RequestRight(request)
PodInv == pod # None => PodRight(pod)
AdmissionInv == TypeOK /\ RequestInv /\ PodInv

\* Whatever the policies say of one pod they say of another with its label and
\* annotations, as long as they and the namespace stay.
LEMMA NamesByLabel ==
    ASSUME NEW p, NEW q, p.label = q.label, p.ann = q.ann, NamesPolicy(p)
    PROVE  NamesPolicy(q)
BY MatchingByLabel DEF NamesPolicy

LEMMA RequestKept ==
    ASSUME UNCHANGED <<policies, namespace, edits>>, request' # None => RequestRight(request')
    PROVE  RequestInv'
<1>1. PICK r : r = request'
  OBVIOUS
<1>2. matchingPolicies(namespace, request.new)' = matchingPolicies(namespace, r.new)
  BY <1>1 DEF matchingPolicies, policyMatches
<1>3. mutateForConfidentialPolicy(namespace, request.new)' = mutateForConfidentialPolicy(namespace, r.new)
  BY <1>1, <1>2 DEF mutateForConfidentialPolicy
<1>4. NamesPolicy(request.new)' <=> NamesPolicy(r.new)
  BY <1>1, <1>2 DEF NamesPolicy
<1>5. Sound(request.new)' <=> Sound(r.new)
  BY <1>1 DEF Sound
<1>6. r = None \/ RequestRight(r)
  BY <1>1
<1> QED
  BY <1>1, <1>3, <1>4, <1>5, <1>6 DEF RequestInv, RequestRight

LEMMA PodKept ==
    ASSUME UNCHANGED <<policies, namespace, edits>>, pod' # None => PodRight(pod')
    PROVE  PodInv'
<1>1. PICK x : x = pod'
  OBVIOUS
<1>2. matchingPolicies(namespace, pod.object)' = matchingPolicies(namespace, x.object)
  BY <1>1 DEF matchingPolicies, policyMatches
<1>3. NamesPolicy(pod.object)' <=> NamesPolicy(x.object)
  BY <1>1, <1>2 DEF NamesPolicy
<1>4. x = None \/ PodRight(x)
  BY <1>1
<1> QED
  BY <1>1, <1>3, <1>4 DEF PodInv, PodRight

-----------------------------------------------------------------------------
\* The steps of an admission.

LEMMA RequestStep ==
    ASSUME AdmissionInv, UNCHANGED <<env, classes, policies, namespace, pod, edits>>,
           request' = None \/ (request' \in Requests /\ RequestRight(request'))
    PROVE  AdmissionInv'
<1>1. TypeOK'
  BY DEF AdmissionInv, TypeOK
<1>2. RequestInv'
  BY RequestKept
<1>3. PodInv'
  BY PodKept DEF AdmissionInv, PodInv
<1> QED
  BY <1>1, <1>2, <1>3 DEF AdmissionInv

LEMMA Admitted ==
    ASSUME AdmissionInv, NEW at \in {"mutate", "validate"}, NEW p \in PodObject, Sound(p),
           at = "mutate" => p.ann = None
    PROVE  Admit(at, p) \in Requests /\ RequestRight(Admit(at, p))
<1>1. edits \in 0 .. MaxEdits
  BY DEF AdmissionInv, TypeOK
<1>2. PICK b : b = FALSE
  OBVIOUS
<1>3. b \in BOOLEAN
  BY <1>2, Zenon
<1>4. PICK r : r = [at |-> at, new |-> p, ns |-> None, spec |-> None, enabled |-> b,
                    mutated |-> b, edits |-> edits]
  OBVIOUS
<1>5. Admit(at, p) = r
  BY <1>2, <1>4, Zenon DEF Admit
<1>6. r \in Requests
  BY <1>1, <1>3, <1>4 DEF Requests
<1>7. r.mutated = b
  BY <1>4
<1>8. ~r.mutated
  BY <1>2, <1>7, Zenon
<1>9. RequestRight(r)
  BY <1>1, <1>4, <1>8 DEF RequestRight
<1> QED
  BY <1>5, <1>6, <1>9

\* A pod as the API server defaults it, or as an update leaves it, is sound.
LEMMA DefaultsSound ==
    ASSUME NEW p \in NewPods
    PROVE  SetDefaults(p) \in PodObject /\ Sound(SetDefaults(p)) /\ SetDefaults(p).ann = None
<1>1. p \in PodObject
  BY AdmissionConstants
<1>2. PICK q : q = SetDefaults(p)
  OBVIOUS
<1>3. PICK s : s = IF p.scheduler = None THEN "default-scheduler" ELSE p.scheduler
  OBVIOUS
<1>4. q = [p EXCEPT !.scheduler = s]
  BY <1>2, <1>3 DEF SetDefaults
<1>5. s \in {None, "default-scheduler", Scheduler}
  BY <1>1, <1>3 DEF PodObject
<1>6. q \in PodObject
  BY <1>1, <1>4, <1>5 DEF PodObject
<1>7. /\ q["sidecars"] = p["sidecars"] /\ q["gates"] = p["gates"] /\ q.ann = p.ann
      /\ q["tokenVolumes"] = p["tokenVolumes"] /\ q["proxies"] = p["proxies"]
  BY <1>1, <1>4, PodShape DEF IsPod, Fields
<1>8. p.ann = None /\ \A field \in {"sidecars", "gates", "tokenVolumes", "proxies"} : p[field] <= 1
  BY PlainPods
<1>9. Sound(q)
  BY <1>7, <1>8 DEF Sound
<1> QED
  BY <1>2, <1>6, <1>7, <1>8, <1>9

LEMMA UpdateSound ==
    ASSUME NEW p \in PodObject, Sound(p)
    PROVE  /\ \A l \in Label : [p EXCEPT !.label = l] \in PodObject /\ Sound([p EXCEPT !.label = l])
           /\ [p EXCEPT !.gates = 0] \in PodObject /\ Sound([p EXCEPT !.gates = 0])
<1>1. ASSUME NEW l \in Label
      PROVE  [p EXCEPT !.label = l] \in PodObject /\ Sound([p EXCEPT !.label = l])
  <2>1. PICK q : q = [p EXCEPT !.label = l]
    OBVIOUS
  <2>2. q \in PodObject
    BY <2>1 DEF PodObject
  <2>3. \A field \in Fields \ {"label"} : q[field] = p[field]
    BY <2>1, PodShape DEF IsPod, Fields
  <2>4. Sound(q)
    BY <2>3 DEF Sound, Fields
  <2> QED
    BY <2>1, <2>2, <2>4
<1>2. [p EXCEPT !.gates = 0] \in PodObject /\ Sound([p EXCEPT !.gates = 0])
  <2>1. PICK q : q = [p EXCEPT !.gates = 0]
    OBVIOUS
  <2>2. q \in PodObject
    BY <2>1 DEF PodObject
  <2>3. q["gates"] = 0 /\ \A field \in Fields \ {"gates"} : q[field] = p[field]
    BY <2>1, PodShape DEF IsPod, Fields
  <2>4. Sound(q)
    BY <2>3 DEF Sound, Fields
  <2> QED
    BY <2>1, <2>2, <2>4
<1> QED
  BY <1>1, <1>2

LEMMA SubmitKeeps ==
    ASSUME AdmissionInv, NEW p \in NewPods, Submit(p)
    PROVE  AdmissionInv'
BY DefaultsSound, Admitted, RequestStep DEF Submit

LEMMA ReadLabelsKeeps ==
    ASSUME AdmissionInv, ReadLabels
    PROVE  AdmissionInv'
<1>1. request # None /\ request \in Requests /\ RequestRight(request)
  BY DEF ReadLabels, AdmissionInv, TypeOK, RequestInv
<1>2. namespace \in Namespaces /\ edits \in 0 .. MaxEdits
  BY DEF AdmissionInv, TypeOK
<1>3. PICK e : e = IF request.at = "mutate" THEN edits ELSE request.edits
  OBVIOUS
<1>4. PICK r : r = [request EXCEPT !.ns = namespace, !.edits = e]
  OBVIOUS
<1>5. request' = r /\ request.at \in {"mutate", "validate"}
  BY <1>3, <1>4 DEF ReadLabels
<1>6. e \in 0 .. MaxEdits
  BY <1>1, <1>2, <1>3 DEF Requests
<1>7. r \in Requests
  BY <1>1, <1>2, <1>4, <1>6 DEF Requests
<1>8. /\ r.at = request.at /\ r.new = request.new /\ r.ns = namespace /\ r.edits = e
      /\ r.mutated = request.mutated
  BY <1>1, <1>4 DEF Requests
<1>9. RequestRight(r)
  BY <1>1, <1>2, <1>3, <1>5, <1>8 DEF RequestRight, Requests
<1> QED
  BY <1>5, <1>7, <1>9, RequestStep DEF ReadLabels

LEMMA ReadPoliciesKeeps ==
    ASSUME AdmissionInv, ReadPolicies
    PROVE  AdmissionInv'
<1>1. request # None /\ request \in Requests /\ RequestRight(request)
  BY DEF ReadPolicies, AdmissionInv, TypeOK, RequestInv
<1>2. PICK spec : spec = mutateForConfidentialPolicy(request.ns, request.new)
  OBVIOUS
<1>3. spec \in Specs \cup {None}
  BY <1>2, FirstPolicy DEF AdmissionInv, TypeOK
<1>4. PICK r : r = [request EXCEPT !.at = "inject", !.ns = None, !.spec = spec]
  OBVIOUS
<1>5. request' = r /\ request.at = "mutate" /\ request.ns # None
  BY <1>2, <1>4 DEF ReadPolicies
<1>6. r \in Requests
  BY <1>1, <1>3, <1>4 DEF Requests
<1>7. r.at = "inject" /\ r.new = request.new /\ r.spec = spec /\ r.edits = request.edits
  BY <1>1, <1>4 DEF Requests
<1>8. r.edits = edits => spec = mutateForConfidentialPolicy(namespace, r.new)
  BY <1>1, <1>2, <1>5, <1>7 DEF RequestRight
<1>9. RequestRight(r)
  BY <1>1, <1>5, <1>7, <1>8 DEF RequestRight
<1> QED
  BY <1>5, <1>6, <1>9, RequestStep DEF ReadPolicies

LEMMA ReadInjectionKeeps ==
    ASSUME AdmissionInv, ReadInjection
    PROVE  AdmissionInv'
<1>1. request # None /\ request \in Requests /\ RequestRight(request)
  BY DEF ReadInjection, AdmissionInv, TypeOK, RequestInv
<1>2. PICK enabled : enabled = shouldInject(request.new)
  OBVIOUS
<1>3. namespace.inject \in BOOLEAN /\ namespace.govar \in BOOLEAN
  BY DEF AdmissionInv, TypeOK, Namespaces
<1>4. enabled \in BOOLEAN
  BY <1>2, <1>3, Zenon DEF shouldInject
<1>5. PICK r : r = [request EXCEPT !.at = "govar", !.enabled = enabled]
  OBVIOUS
<1>6. request' = r /\ request.at = "inject"
  BY <1>2, <1>5 DEF ReadInjection
<1>7. r \in Requests
  BY <1>1, <1>4, <1>5 DEF Requests
<1>8. r.at = "govar" /\ r.new = request.new /\ r.spec = request.spec /\ r.edits = request.edits
  BY <1>1, <1>5 DEF Requests
<1>9. RequestRight(r)
  BY <1>1, <1>6, <1>8 DEF RequestRight
<1> QED
  BY <1>6, <1>7, <1>9, RequestStep DEF ReadInjection

\* The answer names the policy it was read from.
LEMMA AnswerNames ==
    ASSUME AdmissionInv, NEW p \in PodObject, NEW q, q.label = p.label, p.ann = None,
           NEW spec, spec = mutateForConfidentialPolicy(namespace, p),
           spec = None => q.ann = p.ann, spec # None => q.ann = AnnotationsFor(spec)
    PROVE  NamesPolicy(q)
<1>1. PICK m : m = matchingPolicies(namespace, p)
  OBVIOUS
<1>2. m = matchingPolicies(namespace, q)
  BY <1>1, MatchingByLabel
<1>3. /\ spec \in Specs \cup {None} /\ (spec = None <=> m = {})
      /\ m # {} => \E i \in m : policies[i] = spec /\ \A j \in m : i <= j
  BY <1>1, FirstPolicy DEF AdmissionInv, TypeOK
<1>4. CASE m = {}
  BY <1>2, <1>3, <1>4 DEF NamesPolicy
<1>5. CASE m # {}
  <2>1. q.ann # None /\ q.ann.hash = spec
    BY <1>3, <1>5, AnnotationsTyped
  <2> QED
    BY <1>2, <1>3, <1>5, <2>1 DEF NamesPolicy
<1> QED
  BY <1>4, <1>5

LEMMA AnswerKeeps ==
    ASSUME AdmissionInv, Answer
    PROVE  AdmissionInv'
<1>1. request # None /\ request \in Requests /\ RequestRight(request) /\ request.at = "govar"
  BY DEF Answer, AdmissionInv, TypeOK, RequestInv
<1>2. PICK new : new = Handle(request.new, request.spec, request.enabled, namespaceRequiresGOVAR)
  OBVIOUS
<1>3. PICK b : b = TRUE
  OBVIOUS
<1>4. b \in BOOLEAN
  BY <1>3, Zenon
<1>5. request' = IF new = None THEN None
                 ELSE [request EXCEPT !.at = "validate", !.new = new, !.mutated = b]
  BY <1>2, <1>3, Zenon DEF Answer
<1>6. CASE new = None
  BY <1>5, <1>6, RequestStep DEF Answer
<1>7. CASE new # None
  <2>1. PICK r : r = [request EXCEPT !.at = "validate", !.new = new, !.mutated = b]
    OBVIOUS
  <2>2. /\ request.new \in PodObject /\ request.spec \in Specs \cup {None}
        /\ request.enabled \in BOOLEAN /\ namespaceRequiresGOVAR \in BOOLEAN
    BY <1>1 DEF Requests, AdmissionInv, TypeOK, Namespaces, namespaceRequiresGOVAR
  <2>3. /\ new \in PodObject /\ (Sound(request.new) => Sound(new)) /\ new.label = request.new.label
        /\ request.spec = None => new.ann = request.new.ann
        /\ request.spec # None => new.ann = AnnotationsFor(request.spec)
    BY <1>2, <1>7, <2>2, HandleKeeps
  <2>4. r \in Requests
    BY <1>1, <1>4, <2>1, <2>3 DEF Requests
  <2>5. r.at = "validate" /\ r.new = new /\ r.edits = request.edits
    BY <1>1, <2>1 DEF Requests
  <2>6. r.edits = edits => NamesPolicy(new)
    BY <1>1, <2>2, <2>3, <2>5, AnswerNames DEF RequestRight
  <2>7. RequestRight(r)
    BY <1>1, <2>3, <2>5, <2>6 DEF RequestRight
  <2> QED
    BY <1>5, <1>7, <2>1, <2>4, <2>7, RequestStep DEF Answer
<1> QED
  BY <1>6, <1>7

LEMMA RefusedKeeps ==
    ASSUME AdmissionInv, Refused
    PROVE  AdmissionInv'
BY RequestStep DEF Refused

LEMMA MutatingUnavailableKeeps ==
    ASSUME AdmissionInv, MutatingUnavailable
    PROVE  AdmissionInv'
<1>1. request.new \in PodObject /\ Sound(request.new)
  BY DEF MutatingUnavailable, AdmissionInv, TypeOK, RequestInv, RequestRight, Requests
<1>2. Admit("validate", request.new) \in Requests /\ RequestRight(Admit("validate", request.new))
  BY <1>1, Admitted
<1> QED
  BY <1>2, RequestStep DEF MutatingUnavailable

LEMMA UpdateKeeps ==
    ASSUME AdmissionInv, NEW p \in PodObject, Sound(p), Update(p)
    PROVE  AdmissionInv'
<1>1. Admit("validate", p) \in Requests /\ RequestRight(Admit("validate", p))
  BY Admitted
<1> QED
  BY <1>1, RequestStep DEF Update

LEMMA ValidateKeeps ==
    ASSUME AdmissionInv, Validate
    PROVE  AdmissionInv'
<1>1. request # None /\ request \in Requests /\ RequestRight(request) /\ request.at = "validate"
  BY DEF Validate, AdmissionInv, TypeOK, RequestInv
<1>2. /\ request' = None
      /\ UNCHANGED <<env, classes, policies, namespace, edits>>
  BY DEF Validate
<1>3. PICK specs : specs = {policies[i] : i \in matchingPolicies(request.ns, request.new)}
  OBVIOUS
<1>4. specs \subseteq Specs
  BY <1>3 DEF matchingPolicies, AdmissionInv, TypeOK
<1>5. PICK x : x = [object |-> request.new, mutated |-> request.mutated, edits |-> request.edits,
                    specs |-> specs]
  OBVIOUS
<1>6. pod' = pod \/ pod' = x
  BY <1>3, <1>5, Zenon DEF Validate
<1>7. request.edits \in Nat /\ request.new \in PodObject
  BY <1>1, AdmissionConstants DEF Requests
<1>8. PodRight(x)
  BY <1>1, <1>5, <1>7 DEF PodRight, RequestRight
<1>9. x.object \in PodObject /\ Sound(x.object) /\ x.specs \subseteq Specs
  BY <1>1, <1>4, <1>5, <1>7 DEF RequestRight
<1>10. TypeOK'
  <2>1. CASE pod' = pod
    BY <1>2, <2>1 DEF AdmissionInv, TypeOK
  <2>2. CASE pod' = x
    BY <1>2, <1>9, <2>2 DEF AdmissionInv, TypeOK, Sound
  <2> QED
    BY <1>6, <2>1, <2>2
<1>11. PodInv'
  BY <1>2, <1>6, <1>8, PodKept DEF AdmissionInv, PodInv
<1>12. RequestInv'
  BY <1>2 DEF RequestInv
<1> QED
  BY <1>10, <1>11, <1>12 DEF AdmissionInv

\* An edit: what was read before it no longer counts as read now.
LEMMA EditKeeps ==
    ASSUME AdmissionInv, edits < MaxEdits, edits' = edits + 1, UNCHANGED pod,
           request' = request \/ request' = None, TypeOK'
    PROVE  AdmissionInv'
<1>1. edits \in Nat
  BY DEF AdmissionInv, TypeOK
<1>2. RequestInv'
  <2>1. CASE request' = None
    BY <2>1 DEF RequestInv
  <2>2. CASE request' = request /\ request # None
    <3>1. request.edits \in Nat /\ RequestRight(request)
      BY <2>2, AdmissionConstants DEF AdmissionInv, TypeOK, Requests, RequestInv
    <3>2. request.edits <= edits' /\ request.edits # edits'
      BY <1>1, <3>1 DEF RequestRight
    <3>3. Sound(request.new)'
      BY <2>2, <3>1 DEF RequestRight, Sound
    <3> QED
      BY <2>2, <3>1, <3>2, <3>3 DEF RequestInv, RequestRight
  <2> QED
    BY <2>1, <2>2
<1>3. PodInv'
  <2>1. CASE pod # None
    <3>1. PodRight(pod)
      BY <2>1 DEF AdmissionInv, PodInv
    <3>2. pod.edits \in Nat /\ pod.edits <= edits' /\ pod.edits # edits'
      BY <1>1, <3>1 DEF PodRight
    <3> QED
      BY <2>1, <3>2 DEF PodInv, PodRight
  <2>2. CASE pod = None
    BY <2>2 DEF PodInv
  <2> QED
    BY <2>1, <2>2
<1> QED
  BY <1>2, <1>3 DEF AdmissionInv

LEMMA EditPolicyKeeps ==
    ASSUME AdmissionInv, NEW i \in Name, NEW spec \in Specs \cup {None}, EditPolicy(i, spec)
    PROVE  AdmissionInv'
<1>1. TypeOK'
  BY AdmissionConstants DEF EditPolicy, AdmissionInv, TypeOK
<1> QED
  BY <1>1, EditKeeps DEF EditPolicy

LEMMA EditNamespaceKeeps ==
    ASSUME AdmissionInv, NEW ns \in Namespaces, EditNamespace(ns)
    PROVE  AdmissionInv'
<1>1. TypeOK'
  BY AdmissionConstants DEF EditNamespace, AdmissionInv, TypeOK
<1> QED
  BY <1>1, EditKeeps DEF EditNamespace

\* The classes a manager creates when it starts are RuntimeClasses.
LEMMA EnsuredClasses ==
    ASSUME NEW e
    PROVE  EnsureSimulatedRuntimeClasses(e) \subseteq RuntimeClass
BY DEF EnsureSimulatedRuntimeClasses, RuntimeClass

LEMMA StartManagerKeeps ==
    ASSUME AdmissionInv, NEW e \in Environments, StartManager(e)
    PROVE  AdmissionInv'
<1>1. TypeOK'
  BY AdmissionConstants, EnsuredClasses DEF StartManager, AdmissionInv, TypeOK
<1> QED
  BY <1>1, EditKeeps DEF StartManager

-----------------------------------------------------------------------------
\* The theorems.

LEMMA InitRight ==
    ASSUME Init
    PROVE  AdmissionInv
<1>1. classes \subseteq RuntimeClass
  BY AdmissionConstants, EnsuredClasses DEF Init
<1>2. namespace \in Namespaces
  <2>1. PICK t, f : t = TRUE /\ f = FALSE
    OBVIOUS
  <2>2. t \in BOOLEAN /\ f \in BOOLEAN
    BY <2>1, Zenon
  <2>3. namespace = [matches |-> t, inject |-> f, govar |-> f]
    BY <2>1, Zenon DEF Init
  <2> QED
    BY <2>2, <2>3 DEF Namespaces
<1>3. TypeOK
  BY <1>1, <1>2, AdmissionConstants DEF Init, TypeOK
<1> QED
  BY <1>3 DEF Init, AdmissionInv, RequestInv, PodInv

LEMMA StepRight ==
    ASSUME AdmissionInv, [Next]_vars
    PROVE  AdmissionInv'
<1>1. ASSUME NEW p \in NewPods, Submit(p)
      PROVE  AdmissionInv'
  BY <1>1, SubmitKeeps
<1>2. CASE ReadLabels
  BY <1>2, ReadLabelsKeeps
<1>3. CASE ReadPolicies
  BY <1>3, ReadPoliciesKeeps
<1>4. CASE ReadInjection
  BY <1>4, ReadInjectionKeeps
<1>5. CASE Answer
  BY <1>5, AnswerKeeps
<1>6. CASE Refused
  BY <1>6, RefusedKeeps
<1>7. CASE MutatingUnavailable
  BY <1>7, MutatingUnavailableKeeps
<1>8. CASE Validate
  BY <1>8, ValidateKeeps
<1>9. pod # None => pod.object \in PodObject /\ Sound(pod.object)
  BY DEF AdmissionInv, TypeOK, Sound
<1>10. ASSUME pod # None, NEW l \in Label, Update([pod.object EXCEPT !.label = l])
       PROVE  AdmissionInv'
  BY <1>9, <1>10, UpdateSound, UpdateKeeps
<1>11. CASE pod # None /\ Update([pod.object EXCEPT !.gates = 0])
  BY <1>9, <1>11, UpdateSound, UpdateKeeps
<1>12. ASSUME NEW i \in Name, NEW spec \in Specs \cup {None}, EditPolicy(i, spec)
       PROVE  AdmissionInv'
  BY <1>12, EditPolicyKeeps
<1>13. ASSUME NEW ns \in Namespaces, EditNamespace(ns)
       PROVE  AdmissionInv'
  BY <1>13, EditNamespaceKeeps
<1>14. ASSUME NEW e \in Environments, StartManager(e)
       PROVE  AdmissionInv'
  BY <1>14, StartManagerKeeps
<1>15. CASE UNCHANGED vars
  <2>1. request = None \/ (request \in Requests /\ RequestRight(request))
    BY DEF AdmissionInv, TypeOK, RequestInv
  <2> QED
    BY <1>15, <2>1, RequestStep DEF vars
<1> QED
  BY <1>1, <1>2, <1>3, <1>4, <1>5, <1>6, <1>7, <1>8, <1>10, <1>11, <1>12, <1>13, <1>14, <1>15, Zenon
     DEF Next

LEMMA AdmissionInvariant == Spec => []AdmissionInv
<1>1. Init => AdmissionInv
  BY InitRight
<1>2. AdmissionInv /\ [Next]_vars => AdmissionInv'
  BY StepRight
<1> QED
  BY <1>1, <1>2, PTL DEF Spec

\* No pod admitted by the webhooks ever has two sidecars, gates, token volumes or settings
\* of a proxy variable, however often it is updated and whatever is edited meanwhile, and
\* its annotations come from one version of one policy.
THEOREM AdmissionTypeCorrect == Spec => []TypeOK
<1>1. AdmissionInv => TypeOK
  BY DEF AdmissionInv
<1> QED
  BY <1>1, AdmissionInvariant, PTL

\* Handle of the mutating webhook answers its own answer unchanged, whatever the policies,
\* the namespace and the platform mode are, and never refuses a pod it has fitted.
THEOREM HandleIdempotent == Spec => []MutationIdempotent
<1>1. TypeOK => MutationIdempotent
  BY IdempotentIfTyped
<1> QED
  BY <1>1, AdmissionTypeCorrect, PTL

\* What the mutating webhook does to a pod that one policy covers never decides what the
\* validating webhook answers: the class mapRuntimeClass applies is one runtimeAllowed
\* accepts, and in production it is the class asked for.
THEOREM FittingNeutral == Spec => []MutationNeutral
<1>1. TypeOK => MutationNeutral
  BY NeutralIfTyped
<1> QED
  BY <1>1, AdmissionTypeCorrect, PTL

\* A pod admitted through both webhooks carries the hash of the policy the scheduler picks
\* for it until somebody edits policies or the namespace: an edit between two of the
\* reads of the webhooks is the only way to another one.
THEOREM HashOfSchedulersPolicy == Spec => []HashNamesSchedulersPolicy
<1>1. AdmissionInv => HashNamesSchedulersPolicy
  BY DEF AdmissionInv, PodInv, PodRight, NamesPolicy, HashNamesSchedulersPolicy
<1> QED
  BY <1>1, AdmissionInvariant, PTL

=============================================================================
