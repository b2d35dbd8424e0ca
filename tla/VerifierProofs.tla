--------------------------- MODULE VerifierProofs ---------------------------
(***************************************************************************)
(* What Verifier writes to evidence and what becomes of the reports it     *)
(* appraises: it implements Attestations, real evidence is attested,       *)
(* genuine tokens do not fail, and spec and status of evidence come from   *)
(* one report.                                                             *)
(***************************************************************************)
EXTENDS VerifierTypes

-----------------------------------------------------------------------------
\* The verifier implements Attestations.

\* The view of an object, field by field.
LEMMA ViewOfEvidence ==
    ASSUME NEW ev \in EvidenceObject
    PROVE  /\ View(ev) = [spec |-> ev.spec, verified |-> ev.status.verified,
                          revoked |-> ev.status.revoked, lastVerified |-> ev.status.lastVerified]
           /\ View(ev) # None
           /\ View(ev).spec = ev.spec /\ View(ev).verified = ev.status.verified
           /\ View(ev).revoked = ev.status.revoked
           /\ View(ev).lastVerified = ev.status.lastVerified
<1>1. View(ev) = [spec |-> ev.spec, verified |-> ev.status.verified,
                  revoked |-> ev.status.revoked, lastVerified |-> ev.status.lastVerified]
  BY NoneIsNoObject DEF View
<1>2. ev.spec \in EvidenceSpec /\ ev.status \in Status
  BY DEF EvidenceObject
<1>3. View(ev) \in EvidenceView
  BY <1>1, <1>2 DEF Status, EvidenceView
<1> QED
  BY <1>1, <1>3, NoneIsNoObject

\* A write of one piece of evidence is a write of its view.
LEMMA WriteOfView ==
    ASSUME TypeOK, NEW n \in Node, NEW new, evidence' = [evidence EXCEPT ![n] = new]
    PROVE  Visible' = [Visible EXCEPT ![n] = View(new)] /\ Visible[n] = View(evidence[n])
<1>1. Visible' = [m \in Node |-> View(evidence'[m])]
  BY DEF Visible
<1>2. \A m \in Node : evidence'[m] = IF m = n THEN new ELSE evidence[m]
  BY DEF TypeOK
<1>3. \A m \in Node : View(evidence'[m]) = IF m = n THEN View(new) ELSE Visible[m]
  BY <1>2 DEF Visible
<1>4. Visible[n] = View(evidence[n]) /\ DOMAIN Visible = Node
  BY DEF Visible
<1> QED
  BY <1>1, <1>3, <1>4

\* The first write of an appraisal maps to a write of the spec,
LEMMA UpsertMaps ==
    ASSUME TypeOK, upsertEvidence
    PROVE  [A!Next]_<<now, Visible>>
<1>1. CASE evidence' = evidence
  BY <1>1 DEF upsertEvidence, Visible
<1>2. CASE evidence' # evidence
  <2> PICK n \in Node : n = reports[cur].node
    BY ObjectsTyped DEF upsertEvidence
  <2> PICK old : old = evidence[n]
    OBVIOUS
  <2> PICK spec \in EvidenceSpec : spec = SpecOf(reports[cur])
    BY SpecTypes, ObjectsTyped DEF upsertEvidence
  <2> PICK new \in EvidenceObject :
              /\ evidence' = [evidence EXCEPT ![n] = new] /\ new.spec = spec
              /\ new.status = IF old = None THEN NoStatus ELSE old.status
    BY <1>2, UpsertWrites
  <2>1. Visible' = [Visible EXCEPT ![n] = View(new)] /\ Visible[n] = View(old) /\ now' = now
    BY WriteOfView DEF upsertEvidence
  <2>2. View(new) = [spec |-> spec,
                     verified |-> View(old) # None /\ View(old).verified,
                     revoked |-> View(old) # None /\ View(old).revoked,
                     lastVerified |-> IF View(old) = None THEN None ELSE View(old).lastVerified]
    <3>1. View(new) = [spec |-> spec, verified |-> new.status.verified,
                       revoked |-> new.status.revoked, lastVerified |-> new.status.lastVerified]
      BY ViewOfEvidence
    <3>2. CASE old = None
      <4>1. View(old) = None
        BY <3>2 DEF View
      <4>2. /\ new.status.verified = FALSE /\ new.status.revoked = FALSE
            /\ new.status.lastVerified = None
        BY <3>2 DEF NoStatus
      <4> QED
        BY <3>1, <4>1, <4>2
    <3>3. CASE old # None
      <4>1. old \in EvidenceObject
        BY <3>3, ObjectsTyped
      <4>2. /\ View(old) # None /\ View(old).verified = old.status.verified
            /\ View(old).revoked = old.status.revoked
            /\ View(old).lastVerified = old.status.lastVerified
        BY <4>1, ViewOfEvidence
      <4>3. View(old).verified \in BOOLEAN /\ View(old).revoked \in BOOLEAN
        BY <4>1, <4>2 DEF EvidenceObject, Status
      <4>4. /\ new.status.verified = View(old).verified /\ new.status.revoked = View(old).revoked
            /\ new.status.lastVerified = View(old).lastVerified
        BY <3>3, <4>2, Zenon
      <4>5. /\ new.status.verified = (View(old) # None /\ View(old).verified)
            /\ new.status.revoked = (View(old) # None /\ View(old).revoked)
        BY <4>2, <4>3, <4>4
      <4> QED
        BY <3>1, <4>2, <4>4, <4>5, Zenon
    <3> QED
      BY <3>2, <3>3
  <2>3. A!WriteSpec(n, spec)
    BY <2>1, <2>2, Zenon DEF A!WriteSpec, A!Write
  <2> QED
    BY <2>3 DEF A!Next
<1> QED
  BY <1>1, <1>2

\* the second to a verdict,
LEMMA UpdateMaps ==
    ASSUME TypeOK, updateEvidenceStatus
    PROVE  [A!Next]_<<now, Visible>>
<1>1. CASE evidence' = evidence
  BY <1>1 DEF updateEvidenceStatus, Visible
<1>2. CASE evidence' # evidence
  <2> PICK n \in Node : n = reports[cur].node
    BY ObjectsTyped DEF updateEvidenceStatus
  <2>1. pc # "idle" /\ evidence[n] # None /\ StatusWritten(n) /\ now' = now
    BY <1>2 DEF updateEvidenceStatus, Write, Outcome
  <2> PICK old \in EvidenceObject : old = evidence[n]
    BY <2>1, ObjectsTyped
  <2> PICK new \in EvidenceObject :
              /\ evidence' = [evidence EXCEPT ![n] = new]
              /\ new.spec = old.spec /\ new.status = StatusOf(old.status)
    BY <2>1, StatusWrites
  <2> PICK verified \in BOOLEAN : verified = (verdict.vstatus = "Verified")
    OBVIOUS
  <2>2. /\ new.status.verified = verified /\ new.status.revoked = old.status.revoked
        /\ new.status.lastVerified = IF verified THEN now ELSE old.status.lastVerified
    <3> PICK status \in Status : status = old.status
      BY DEF EvidenceObject
    <3>1. /\ StatusOf(status).revoked = status.revoked
          /\ StatusOf(status).verified = (verdict.vstatus = "Verified")
          /\ StatusOf(status).lastVerified =
                IF verdict.vstatus = "Verified" THEN now ELSE status.lastVerified
      BY <2>1, StatusWrittenType
    <3>2. new.status = StatusOf(status)
      OBVIOUS
    <3> QED
      BY <3>1, <3>2, Zenon
  <2>3. Visible' = [Visible EXCEPT ![n] = View(new)] /\ Visible[n] = View(old)
    BY WriteOfView
  <2>4. View(new) = [spec |-> View(old).spec, verified |-> verified,
                     revoked |-> View(old).revoked,
                     lastVerified |-> IF verified THEN now ELSE View(old).lastVerified]
    <3>1. View(new) = [spec |-> new.spec, verified |-> new.status.verified,
                       revoked |-> new.status.revoked, lastVerified |-> new.status.lastVerified]
      BY ViewOfEvidence
    <3>2. /\ View(old).spec = old.spec /\ View(old).revoked = old.status.revoked
          /\ View(old).lastVerified = old.status.lastVerified
      BY ViewOfEvidence
    <3> QED
      BY <2>2, <3>1, <3>2, Zenon
  <2>5. A!Appraise(n, verified)
    BY <2>1, <2>3, <2>4, ViewOfEvidence DEF A!Appraise, A!Write
  <2> QED
    BY <2>5 DEF A!Next
<1> QED
  BY <1>1, <1>2

\* and what the manager, users and the clock do to theirs.
LEMMA OthersMap ==
    ASSUME TypeOK, Others
    PROVE  [A!Next]_<<now, Visible>>
<1>1. ASSUME NEW n \in Node, NEW revoked \in BOOLEAN, RefreshEvidence(n, revoked)
      PROVE  \E verified \in BOOLEAN : A!Refresh(n, revoked, verified)
  <2> PICK new \in EvidenceObject, verified \in BOOLEAN :
              /\ evidence[n] \in EvidenceObject
              /\ evidence' = [evidence EXCEPT ![n] = new]
              /\ verified => ~revoked
              /\ new.spec = evidence[n].spec
              /\ new.status.verified = verified /\ new.status.revoked = revoked
              /\ new.status.lastVerified =
                    IF verified THEN now ELSE evidence[n].status.lastVerified
    BY <1>1, RefreshWrites
  <2> PICK old \in EvidenceObject : old = evidence[n]
    OBVIOUS
  <2>1. Visible' = [Visible EXCEPT ![n] = View(new)] /\ Visible[n] = View(old) /\ now' = now
    BY <1>1, WriteOfView DEF RefreshEvidence
  <2>2. View(new) = [spec |-> View(old).spec, verified |-> verified, revoked |-> revoked,
                     lastVerified |-> IF verified THEN now ELSE View(old).lastVerified]
    <3>1. View(new) = [spec |-> new.spec, verified |-> new.status.verified,
                       revoked |-> new.status.revoked,
                       lastVerified |-> new.status.lastVerified]
      BY ViewOfEvidence
    <3>2. View(old).spec = old.spec /\ View(old).lastVerified = old.status.lastVerified
      BY ViewOfEvidence
    <3>3. new.status.lastVerified = IF verified THEN now ELSE View(old).lastVerified
      BY <3>2, Zenon
    <3> QED
      BY <3>1, <3>2, <3>3, Zenon
  <2>3. A!Refresh(n, revoked, verified)
    BY <2>1, <2>2, ViewOfEvidence DEF A!Refresh, A!Write
  <2> QED
    BY <2>3
<1>2. ASSUME NEW n \in Node, DeleteEvidence(n)
      PROVE  A!Delete(n)
  BY <1>2, WriteOfView DEF DeleteEvidence, View, A!Delete, A!Write
<1>3. Tick => A!Tick
  BY DEF Tick, Visible, A!Tick
<1>4. CASE Restart \/ \E r \in Report : Refresh(r)
  BY <1>4 DEF Restart, Refresh, Visible
<1> QED
  BY <1>1, <1>2, <1>3, <1>4 DEF Others, A!Next

\* The verifier keeps the contract of AttestationEvidence, for all constants.
THEOREM VerifierImplementsAttestations == Spec => ImplementsAttestations
<1>1. Init => A!Init
  BY DEF Init, A!Init, Visible, View
<1>2. TypeOK /\ [Next]_vars => [A!Next]_<<now, Visible>>
  <2> SUFFICES ASSUME TypeOK, [Next]_vars
               PROVE  [A!Next]_<<now, Visible>>
    OBVIOUS
  <2>1. CASE UNCHANGED <<now, evidence>>
    BY <2>1 DEF Visible
  <2>2. CASE Others
    BY <2>2, OthersMap
  <2>3. ASSUME NEW n \in Node, NEW agent \in Agents, createReport(n, agent)
        PROVE  UNCHANGED <<now, evidence>>
    BY <2>3 DEF createReport
  <2>4. ASSUME NEW r \in Report, DeleteReport(r) \/ \E doc \in KeyDocs : Reconcile(r, doc)
        PROVE  UNCHANGED <<now, evidence>>
    BY <2>4 DEF DeleteReport, Reconcile
  <2>5. (markProcessed \/ UNCHANGED vars) => UNCHANGED <<now, evidence>>
    BY DEF markProcessed, vars
  <2> QED
    BY <2>1, <2>2, <2>3, <2>4, <2>5, UpsertMaps, UpdateMaps DEF Next, Others, ReconcileReport
<1> QED
  BY <1>1, <1>2, TypeCorrect, PTL DEF Spec, ImplementsAttestations, A!Spec

-----------------------------------------------------------------------------
\* Evidence that says "real".

\* The token of report r of node n passed the checks at time t, not after now.
Rests(n, r, t) ==
    /\ r \in Report /\ reports[r] # None /\ t \in Time /\ t <= now
    /\ reports[r].node = n /\ ~reports[r].simulated
    /\ Published(reports[r].token.kind.signer)
    /\ reports[r].token.nonce = r
    /\ reports[r].token.kind.type = ExpectedTEE
    /\ t - reports[r].token.iat <= MaxTokenAge

\* The evidence may be real without being verified: the manager withdraws the verdict only.
RealRests ==
    \A n \in Node : evidence[n] # None /\ evidence[n].status.mode = "real" =>
        /\ Rests(n, evidence[n].status.nonce, appraisedAt[n])
        /\ evidence[n].status.lastVerified \in Time
        /\ evidence[n].status.lastVerified >= appraisedAt[n]

\* A verdict the worker is about to write.
VerdictRests ==
    pc # "idle" /\ verdict.vstatus = "Verified" /\ ~reports[cur].simulated =>
        Rests(reports[cur].node, cur, verdict.at)

\* The inductive invariant behind RealIsAttested.
AInv == TypeOK /\ RealRests /\ VerdictRests

\* A token that passed has passed for good.
LEMMA RestsKept ==
    ASSUME TypeOK, [Next]_vars, NEW n, NEW r, NEW t, Rests(n, r, t)
    PROVE  Rests(n, r, t)'
<1>1. ReportsKept
  BY StepTypes
<1>2. now \in Nat /\ now' \in Nat /\ now' >= now /\ t \in Nat
  BY ClockAdvances, NaturalTimes DEF Rests
<1>3. r \in Report /\ reports[r] # None /\ t <= now'
  BY <1>2 DEF Rests
<1>4. /\ reports'[r] # None /\ reports'[r].node = reports[r].node
      /\ reports'[r].simulated = reports[r].simulated
      /\ reports'[r].token = reports[r].token
  BY <1>1, <1>3 DEF ReportsKept
<1>5. Published(reports[r].token.kind.signer)'
  <2>1. Published(reports'[r].token.kind.signer)
    BY <1>4 DEF Rests
  <2> QED
    BY <2>1 DEF Published
<1> QED
  BY <1>3, <1>4, <1>5 DEF Rests

\* A verdict of Verified on a real report: its token passes the checks.
LEMMA VerifiedRests ==
    ASSUME TypeOK, NEW r \in Report, reports[r] # None, ~reports[r].simulated,
           NEW doc \in KeyDocs, Appraise(r, reports[r], doc, now) = "Verified"
    PROVE  Rests(reports[r].node, r, now)
<1> PICK tok : tok = reports[r].token
  OBVIOUS
<1>1. /\ doc # None /\ Parse(tok, doc, now)
      /\ ValidateFreshness(tok, r, now) /\ ValidateTEEClaims(tok)
  BY DEF Appraise, VerifyMAAToken
<1>2. Published(tok.kind.signer)
  BY <1>1 DEF Parse, keyFunc, Published
<1>3. now \in Time /\ now <= now
  BY NaturalTimes DEF TypeOK
<1> QED
  BY <1>1, <1>2, <1>3 DEF ValidateFreshness, ValidateTEEClaims, Rests

\* Steps that change no evidence.
LEMMA SameEvidence ==
    ASSUME AInv, [Next]_vars, UNCHANGED <<evidence, appraisedAt>>
    PROVE  RealRests'
<1> SUFFICES ASSUME NEW n \in Node, evidence[n] # None, evidence[n].status.mode = "real"
             PROVE  /\ Rests(n, evidence[n].status.nonce, appraisedAt[n])'
                    /\ evidence[n].status.lastVerified \in Time
                    /\ evidence[n].status.lastVerified >= appraisedAt[n]
  BY DEF RealRests
<1> PICK r, t : r = evidence[n].status.nonce /\ t = appraisedAt[n]
  OBVIOUS
<1>1. /\ Rests(n, r, t) /\ evidence[n].status.lastVerified \in Time
      /\ evidence[n].status.lastVerified >= t
  BY DEF AInv, RealRests
<1>2. Rests(n, r, t)'
  BY <1>1, RestsKept DEF AInv
<1>3. r = evidence'[n].status.nonce /\ t = appraisedAt'[n]
  OBVIOUS
<1>4. Rests(n, evidence[n].status.nonce, appraisedAt[n])'
  BY <1>2, <1>3 DEF Rests
<1> QED
  BY <1>1, <1>4

\* Steps that change no verdict.
LEMMA SameVerdict ==
    ASSUME AInv, [Next]_vars,
           pc' = "idle" \/ (pc # "idle" /\ UNCHANGED <<cur, verdict>>)
    PROVE  VerdictRests'
<1> SUFFICES ASSUME pc # "idle", UNCHANGED <<cur, verdict>>,
                    verdict.vstatus = "Verified", ~reports'[cur].simulated
             PROVE  Rests(reports[cur].node, cur, verdict.at)'
  BY DEF VerdictRests
<1> PICK r, n, t : r = cur /\ n = reports[cur].node /\ t = verdict.at
  OBVIOUS
<1>1. r \in Report /\ reports[r] # None
  BY DEF AInv, TypeOK
<1>2. reports'[r].node = n /\ ~reports[r].simulated
  BY <1>1, StepTypes DEF AInv, ReportsKept
<1>3. Rests(n, r, t)
  BY <1>2 DEF AInv, VerdictRests
<1>4. Rests(n, r, t)'
  BY <1>3, RestsKept DEF AInv
<1> QED
  BY <1>2, <1>4 DEF Rests

\* Steps that write one piece of evidence.
LEMMA EvidenceRests ==
    ASSUME AInv, [Next]_vars, NEW n \in Node, NEW new \in EvidenceObject \cup {None},
           evidence' = [evidence EXCEPT ![n] = new],
           \A m \in Node : m # n => appraisedAt'[m] = appraisedAt[m],
           new # None /\ new.status.mode = "real" =>
              /\ Rests(n, new.status.nonce, appraisedAt'[n])
              /\ new.status.lastVerified \in Time
              /\ new.status.lastVerified >= appraisedAt'[n]
    PROVE  RealRests'
<1> SUFFICES ASSUME NEW m \in Node, evidence'[m] # None, evidence'[m].status.mode = "real"
             PROVE  /\ Rests(m, evidence[m].status.nonce, appraisedAt[m])'
                    /\ evidence'[m].status.lastVerified \in Time
                    /\ evidence'[m].status.lastVerified >= appraisedAt'[m]
  BY DEF RealRests
<1> PICK r, t : r = evidence'[m].status.nonce /\ t = appraisedAt'[m]
  OBVIOUS
<1>1. evidence'[n] = new /\ \A k \in Node : k # n => evidence'[k] = evidence[k]
  BY EvidenceWritten DEF AInv
<1>2. /\ Rests(m, r, t) /\ evidence'[m].status.lastVerified \in Time
      /\ evidence'[m].status.lastVerified >= t
  <2>1. CASE m = n
    BY <1>1, <2>1
  <2>2. CASE m # n
    BY <1>1, <2>2 DEF AInv, RealRests
  <2> QED
    BY <2>1, <2>2
<1>3. Rests(m, r, t)'
  BY <1>2, RestsKept DEF AInv
<1>4. Rests(m, evidence[m].status.nonce, appraisedAt[m])'
  BY <1>3 DEF Rests
<1> QED
  BY <1>2, <1>4

\* The first write carries the status over, or creates one that is not real.
LEMMA UpsertRests ==
    ASSUME AInv, upsertEvidence
    PROVE  RealRests'
<1>1. [Next]_vars /\ UNCHANGED appraisedAt
  BY DEF upsertEvidence, Next, ReconcileReport
<1>2. CASE evidence' = evidence
  BY <1>1, <1>2, SameEvidence
<1>3. CASE evidence' # evidence
  <2> PICK n \in Node : n = reports[cur].node
    BY ObjectsTyped DEF AInv, upsertEvidence
  <2> PICK new \in EvidenceObject :
              /\ evidence' = [evidence EXCEPT ![n] = new]
              /\ new.status = IF evidence[n] = None THEN NoStatus ELSE evidence[n].status
    BY <1>3, UpsertWrites DEF AInv
  <2>1. NoStatus.mode # "real"
    BY NoneIsNoObject DEF NoStatus, Mode
  <2>2. new.status.mode = "real" =>
              /\ Rests(n, new.status.nonce, appraisedAt'[n])
              /\ new.status.lastVerified \in Time
              /\ new.status.lastVerified >= appraisedAt'[n]
    BY <1>1, <2>1 DEF AInv, RealRests
  <2> QED
    BY <1>1, <2>2, EvidenceRests
<1> QED
  BY <1>2, <1>3

\* The second makes it real on a verdict.
LEMMA UpdateRests ==
    ASSUME AInv, updateEvidenceStatus
    PROVE  RealRests'
<1>1. [Next]_vars
  BY DEF Next, ReconcileReport
<1> PICK n \in Node : n = reports[cur].node
  BY ObjectsTyped DEF AInv, updateEvidenceStatus
<1>2. CASE UNCHANGED <<evidence, appraisedAt>>
  BY <1>1, <1>2, SameEvidence
<1>3. CASE ~UNCHANGED <<evidence, appraisedAt>>
  <2>1. pc # "idle" /\ evidence[n] # None /\ StatusWritten(n)
    BY <1>3 DEF updateEvidenceStatus, Write, Outcome
  <2> PICK status \in Status : status = evidence[n].status
    BY <2>1, ObjectsTyped DEF AInv, EvidenceObject
  <2> PICK new \in EvidenceObject :
              /\ evidence' = [evidence EXCEPT ![n] = new]
              /\ new.status = StatusOf(status)
    BY <2>1, StatusWrites DEF AInv
  <2>2. /\ new.status.nonce = cur
        /\ new.status.mode = EvidenceMode(reports[cur], verdict.vstatus)
        /\ verdict.vstatus = "Verified" => new.status.lastVerified = now
    BY <2>1, StatusWrittenType DEF AInv
  <2>3. /\ appraisedAt'[n] = verdict.at
        /\ \A m \in Node : m # n => appraisedAt'[m] = appraisedAt[m]
    BY <2>1 DEF StatusWritten, AInv, TypeOK
  <2>4. ASSUME new.status.mode = "real"
        PROVE  /\ Rests(n, new.status.nonce, appraisedAt'[n])
               /\ new.status.lastVerified \in Time
               /\ new.status.lastVerified >= appraisedAt'[n]
    <3>1. verdict.vstatus = "Verified" /\ ~reports[cur].simulated
      BY <2>2, <2>4 DEF EvidenceMode
    <3>2. Rests(n, cur, verdict.at)
      BY <2>1, <3>1 DEF AInv, VerdictRests
    <3>3. now \in Time /\ verdict.at <= now /\ now \in Nat /\ verdict.at \in Nat
      BY <3>2, NaturalTimes DEF Rests, AInv, TypeOK
    <3> QED
      BY <2>2, <2>3, <3>1, <3>2, <3>3
  <2> QED
    BY <1>1, <2>3, <2>4, EvidenceRests
<1> QED
  BY <1>2, <1>3

\* The manager dates a verdict no earlier than the verifier did.
LEMMA RefreshRests ==
    ASSUME AInv, NEW n \in Node, NEW revoked \in BOOLEAN, RefreshEvidence(n, revoked)
    PROVE  RealRests'
<1>1. [Next]_vars /\ UNCHANGED appraisedAt
  BY DEF RefreshEvidence, Next
<1> PICK new \in EvidenceObject, verified \in BOOLEAN :
              /\ evidence[n] \in EvidenceObject
              /\ evidence' = [evidence EXCEPT ![n] = new]
              /\ new.status.mode = evidence[n].status.mode
              /\ new.status.nonce = evidence[n].status.nonce
              /\ new.status.lastVerified =
                    IF verified THEN now ELSE evidence[n].status.lastVerified
  BY RefreshWrites DEF AInv
<1>2. evidence[n] # None
  BY NoneIsNoObject
<1>3. ASSUME new.status.mode = "real"
      PROVE  /\ Rests(n, new.status.nonce, appraisedAt'[n])
             /\ new.status.lastVerified \in Time
             /\ new.status.lastVerified >= appraisedAt'[n]
  <2>1. /\ Rests(n, new.status.nonce, appraisedAt[n])
        /\ evidence[n].status.lastVerified \in Time
        /\ evidence[n].status.lastVerified >= appraisedAt[n]
    BY <1>2, <1>3 DEF AInv, RealRests
  <2>2. now \in Time /\ now \in Nat /\ appraisedAt[n] \in Nat /\ appraisedAt[n] <= now
    BY <2>1, NaturalTimes DEF Rests, AInv, TypeOK
  <2> QED
    BY <1>1, <2>1, <2>2
<1> QED
  BY <1>1, <1>3, EvidenceRests

\* Every step keeps the invariant.
LEMMA AInvKept ==
    ASSUME AInv, [Next]_vars
    PROVE  AInv'
<1>1. TypeOK'
  BY StepTypes DEF AInv
<1>2. RealRests'
  <2>1. CASE UNCHANGED <<evidence, appraisedAt>>
    BY <2>1, SameEvidence
  <2>2. ASSUME NEW n \in Node, DeleteEvidence(n)
        PROVE  RealRests'
    BY <2>2, EvidenceRests DEF DeleteEvidence
  <2>3. ASSUME NEW n \in Node, NEW agent \in Agents, createReport(n, agent)
        PROVE  UNCHANGED <<evidence, appraisedAt>>
    BY <2>3 DEF createReport
  <2>4. ASSUME NEW r \in Report,
               DeleteReport(r) \/ Refresh(r) \/ \E doc \in KeyDocs : Reconcile(r, doc)
        PROVE  UNCHANGED <<evidence, appraisedAt>>
    BY <2>4 DEF DeleteReport, Reconcile, Refresh
  <2>5. (markProcessed \/ Restart \/ Tick \/ UNCHANGED vars)
           => UNCHANGED <<evidence, appraisedAt>>
    BY DEF markProcessed, Restart, Tick, vars
  <2> QED
    BY <2>1, <2>2, <2>3, <2>4, <2>5, UpsertRests, UpdateRests, RefreshRests
       DEF Next, ReconcileReport
<1>3. VerdictRests'
  <2>1. CASE pc' = "idle" \/ (pc # "idle" /\ UNCHANGED <<cur, verdict>>)
    BY <2>1, SameVerdict
  <2>2. ASSUME NEW r \in Report, NEW doc \in KeyDocs, Reconcile(r, doc), pc' # "idle"
        PROVE  VerdictRests'
    <3>1. /\ cur' = r /\ reports' = reports /\ reports[r] # None
          /\ verdict' = [vstatus |-> Appraise(r, reports[r], doc, now), at |-> now]
      BY <2>2 DEF Reconcile, AInv, TypeOK
    <3> PICK n, t : n = reports[r].node /\ t = now
      OBVIOUS
    <3>2. verdict'.vstatus = "Verified" /\ ~reports[r].simulated => Rests(n, r, t)
      BY <3>1, VerifiedRests DEF AInv
    <3>3. Rests(n, r, t) => Rests(n, r, t)'
      BY RestsKept DEF AInv
    <3>4. n = reports'[cur'].node /\ r = cur' /\ t = verdict'.at
      BY <3>1
    <3>5. Rests(n, r, t)' => Rests(reports[cur].node, cur, verdict.at)'
      BY <3>4 DEF Rests
    <3> QED
      BY <3>1, <3>2, <3>3, <3>5 DEF VerdictRests
  <2>3. CASE UNCHANGED worker
    BY <2>1, <2>3 DEF worker
  <2>4. ASSUME NEW n \in Node,
               \/ DeleteEvidence(n)
               \/ \E agent \in Agents : createReport(n, agent)
        PROVE  UNCHANGED worker
    BY <2>4 DEF DeleteEvidence, createReport
  <2>5. ASSUME NEW n \in Node, NEW revoked \in BOOLEAN, RefreshEvidence(n, revoked)
        PROVE  VerdictRests'
    BY <2>1, <2>5 DEF RefreshEvidence
  <2>6. ASSUME NEW r \in Report, DeleteReport(r) \/ Refresh(r)
        PROVE  UNCHANGED worker
    BY <2>6 DEF DeleteReport, Refresh
  <2>7. Tick \/ UNCHANGED vars => UNCHANGED worker
    BY DEF Tick, vars
  <2>8. upsertEvidence \/ updateEvidenceStatus \/ markProcessed \/ Restart
           => pc' = "idle" \/ (pc # "idle" /\ UNCHANGED <<cur, verdict>>)
    BY DEF upsertEvidence, updateEvidenceStatus, markProcessed, Restart, Retry, Done
  <2> QED
    BY <2>1, <2>2, <2>3, <2>4, <2>5, <2>6, <2>7, <2>8 DEF Next, ReconcileReport
<1> QED
  BY <1>1, <1>2, <1>3 DEF AInv

\* The invariant holds.
LEMMA AInvHolds == Spec => []AInv
<1>1. Init => RealRests /\ VerdictRests
  BY DEF Init, RealRests, VerdictRests
<1>2. AInv /\ [Next]_vars => AInv'
  BY AInvKept
<1>3. Init /\ TypeOK => AInv
  BY <1>1 DEF AInv
<1> QED
  BY <1>2, <1>3, TypeCorrect, PTL DEF Spec

\* Evidence that says "real" is attested, for all constants.
THEOREM RealEvidenceAttested == Spec => []RealIsAttested
<1>1. AInv => RealIsAttested
  <2> SUFFICES ASSUME AInv, NEW n \in Node, Verified(n), evidence[n].status.mode = "real"
               PROVE  /\ Rests(n, evidence[n].status.nonce, appraisedAt[n])
                      /\ evidence[n].status.lastVerified >= appraisedAt[n]
    BY DEF RealIsAttested, Rests
  <2> QED
    BY DEF AInv, RealRests, Verified
<1> QED
  BY <1>1, AInvHolds, PTL

-----------------------------------------------------------------------------
\* Genuine tokens.

\* The token of report r may be accepted at time t.
Fresh(r, t) ==
    /\ t < reports[r].token.iat + reports[r].token.kind.life
    /\ t - reports[r].token.iat <= MaxTokenAge
    /\ reports[r].token.kind.wait <= reports[r].token.kind.delay

\* A token was issued `delay' before its report was created.
Dated == \A r \in Report : reports[r] # None =>
            reports[r].token.iat + reports[r].token.kind.delay <= now

\* The inductive invariant behind GenuineNotFailed: what a genuine report is marked with,
\* and what the worker is about to mark it with.
GInv ==
    /\ TypeOK /\ Dated
    /\ pc # "idle" => verdict.at <= now
    /\ \A r \in Report : reports[r] # None /\ reports[r].status = "Failed" /\ Genuine(r) =>
          ~Fresh(r, now)
    /\ pc # "idle" /\ verdict.vstatus = "Failed" /\ Genuine(cur) => ~Fresh(cur, verdict.at)

\* The numbers of a token.
LEMMA TokenNumbers ==
    ASSUME TypeOK, NEW r \in Report, reports[r] # None
    PROVE  /\ reports[r].token.iat \in Int /\ reports[r].token.kind \in TokenKind
           /\ reports[r].token.kind.life \in Nat /\ reports[r].token.kind.wait \in Nat
           /\ reports[r].token.kind.delay \in Nat
<1>1. reports[r] \in ReportObject
  BY ObjectsTyped
<1>2. reports[r].token.iat \in Int /\ reports[r].token.kind \in TokenKind
  BY <1>1 DEF ReportObject
<1> QED
  BY <1>2 DEF TokenKind

\* Whether a token is genuine, and when it may be accepted, never changes.
LEMMA GenuineKept ==
    ASSUME TypeOK, [Next]_vars, NEW r \in Report, reports[r] # None
    PROVE  /\ Genuine(r)' => Genuine(r)
           /\ \A t \in Nat : Fresh(r, t)' => Fresh(r, t)
<1>1. /\ reports'[r].simulated = reports[r].simulated /\ reports'[r].token = reports[r].token
  BY StepTypes DEF ReportsKept
<1> QED
  BY <1>1 DEF Genuine, Fresh

\* A token that cannot be accepted any more never can again.
LEMMA StaleForGood ==
    ASSUME TypeOK, NEW r \in Report, reports[r] # None, NEW t \in Nat, NEW u \in Nat, t <= u,
           Fresh(r, u)
    PROVE  Fresh(r, t)
<1> PICK iat \in Int, life \in Nat :
           iat = reports[r].token.iat /\ life = reports[r].token.kind.life
  BY TokenNumbers
<1>1. u < iat + life /\ u - iat <= MaxTokenAge /\ MaxTokenAge \in Nat
  BY VerifierConstants DEF Fresh
<1>2. t < iat + life /\ t - iat <= MaxTokenAge
  BY <1>1
<1> QED
  BY <1>2 DEF Fresh

\* A genuine token that may be accepted is accepted, or the keys cannot be fetched.
LEMMA GenuineAccepted ==
    ASSUME TypeOK, Dated, NEW r \in Report, reports[r] # None, Genuine(r), Fresh(r, now),
           NEW doc \in KeyDocs
    PROVE  Appraise(r, reports[r], doc, now) # "Failed"
<1> PICK tok : tok = reports[r].token
  OBVIOUS
<1>1. now \in Nat /\ tok.iat \in Int /\ tok.kind.life \in Nat /\ tok.kind.wait \in Nat
      /\ tok.kind.delay \in Nat /\ tok.iat + tok.kind.delay <= now
  BY TokenNumbers, NaturalTimes DEF TypeOK, Dated
<1>2. /\ now < tok.iat + tok.kind.life /\ now - tok.iat <= MaxTokenAge
      /\ tok.kind.wait <= tok.kind.delay
  BY DEF Fresh
<1>3. now >= tok.iat + tok.kind.wait /\ now <= tok.iat + tok.kind.life
      /\ now + 1 >= tok.iat + tok.kind.wait
  BY <1>1, <1>2
<1>4. /\ ~reports[r].simulated /\ tok.nonce = r /\ tok.kind.jwt /\ tok.kind.type = ExpectedTEE
      /\ tok.kind.echo.layers = IF tok.kind.echo.at = "top" THEN 0 ELSE 1
      /\ tok.kind.echo.wrap <= 1
      /\ \A d \in KeyDocs \ {None} :
            fetchJWKS(d) # {} => keyFunc(d, tok.kind.kid) = {tok.kind.signer}
  BY DEF Genuine
<1>5. tok.kind.echo.wrap \in 0 .. 2
  <2>1. tok.kind.echo \in Echo
    BY TokenNumbers DEF TokenKind
  <2> QED
    BY <2>1 DEF Echo
<1>6. claimsFromMap(tok.kind.echo) = 0
  BY <1>4, <1>5 DEF claimsFromMap, extractNonceFromRuntime, decodeRuntimePayloadValue
<1>7. ValidateFreshness(tok, r, now) /\ ValidateTEEClaims(tok)
  BY <1>2, <1>3, <1>4, <1>6 DEF ValidateFreshness, ValidateTEEClaims
<1>8. doc # None /\ fetchJWKS(doc) # {} => Parse(tok, doc, now)
  BY <1>2, <1>3, <1>4 DEF Parse
<1> QED
  BY <1>4, <1>7, <1>8 DEF Appraise, VerifyMAAToken

\* Which reports a step changes: none; one that it creates; one whose status the worker
\* writes; or the mark of deletion.
LEMMA StatusKept ==
    ASSUME TypeOK, [Next]_vars, NEW r \in Report, reports'[r] # None
    PROVE  /\ reports[r] = None =>
                 /\ reports'[r].status = None
                 /\ reports'[r].token.iat + reports'[r].token.kind.delay = now
           /\ reports[r] # None =>
                 \/ reports'[r].status = reports[r].status
                 \/ markProcessed /\ r = cur /\ reports'[r].status = verdict.vstatus
<1>1. CASE reports' = reports
  BY <1>1
<1>2. ASSUME NEW n \in Node, NEW agent \in Agents, createReport(n, agent)
      PROVE  /\ reports[r] = None =>
                   /\ reports'[r].status = None
                   /\ reports'[r].token.iat + reports'[r].token.kind.delay = now
             /\ reports[r] # None => reports'[r] = reports[r]
  <2> PICK s \in Report :
        /\ reports[s] = None
        /\ reports' = [reports EXCEPT ![s] =
              [node |-> n, simulated |-> agent.simulated,
               token |-> [kind |-> agent.kind, iat |-> now - agent.kind.delay,
                          nonce |-> IF readToken(agent.sources) = "helper" THEN s ELSE None],
               status |-> None, deleted |-> FALSE]]
    BY <1>2 DEF createReport
  <2> PICK new : new = [node |-> n, simulated |-> agent.simulated,
               token |-> [kind |-> agent.kind, iat |-> now - agent.kind.delay,
                          nonce |-> IF readToken(agent.sources) = "helper" THEN s ELSE None],
               status |-> None, deleted |-> FALSE]
    OBVIOUS
  <2>1. new.status = None /\ new.token.iat + new.token.kind.delay = now
    <3>1. agent.kind.delay \in Nat /\ now \in Nat
      BY VerifierConstants, NaturalTimes DEF Agent, TokenKind, TypeOK
    <3>2. /\ new.status = None /\ new.token.iat = now - agent.kind.delay
          /\ new.token.kind = agent.kind
      OBVIOUS
    <3> QED
      BY <3>1, <3>2
  <2>2. reports'[r] = IF r = s THEN new ELSE reports[r]
    BY DEF TypeOK
  <2> QED
    BY <2>1, <2>2
<1>3. CASE markProcessed
  <2>1. cur \in Report /\ reports[cur] # None
    BY <1>3 DEF markProcessed, TypeOK
  <2> QED
    BY <1>3, <2>1, MarkTypes
<1>4. ASSUME NEW d \in Report, DeleteReport(d)
      PROVE  reports[r] # None /\ reports'[r].status = reports[r].status
  BY <1>4, DeleteReportTypes
<1>5. Others => reports' = reports
  BY OthersTypes
<1>6. ASSUME NEW d \in Report, NEW doc \in KeyDocs, Reconcile(d, doc)
      PROVE  reports' = reports
  BY <1>6 DEF Reconcile
<1>7. upsertEvidence \/ updateEvidenceStatus \/ UNCHANGED vars => reports' = reports
  BY DEF upsertEvidence, updateEvidenceStatus, vars
<1> QED
  BY <1>1, <1>2, <1>3, <1>4, <1>5, <1>6, <1>7 DEF Next, Others, ReconcileReport

\* What a step does to the worker's verdict.
LEMMA VerdictKept ==
    ASSUME TypeOK, [Next]_vars, pc' # "idle"
    PROVE  \/ pc # "idle" /\ cur' = cur /\ verdict' = verdict
           \/ \E r \in Report, doc \in KeyDocs :
                 /\ cur' = r /\ reports[r] # None
                 /\ verdict' = [vstatus |-> Appraise(r, reports[r], doc, now), at |-> now]
<1>1. CASE UNCHANGED worker
  BY <1>1 DEF worker
<1>2. ASSUME NEW n \in Node,
             \/ DeleteEvidence(n)
             \/ \E agent \in Agents : createReport(n, agent)
      PROVE  UNCHANGED worker
  BY <1>2 DEF DeleteEvidence, createReport
<1>3. ASSUME NEW n \in Node, NEW revoked \in BOOLEAN, RefreshEvidence(n, revoked)
      PROVE  pc # "idle" /\ cur' = cur /\ verdict' = verdict
  BY <1>3 DEF RefreshEvidence
<1>4. ASSUME NEW r \in Report, DeleteReport(r) \/ Refresh(r)
      PROVE  UNCHANGED worker
  BY <1>4 DEF DeleteReport, Refresh
<1>5. Tick \/ UNCHANGED vars => UNCHANGED worker
  BY DEF Tick, vars
<1>6. upsertEvidence \/ updateEvidenceStatus
         => pc # "idle" /\ cur' = cur /\ verdict' = verdict
  BY DEF upsertEvidence, updateEvidenceStatus, Retry, Done
<1>7. ~markProcessed /\ ~Restart
  BY DEF markProcessed, Restart, Done
<1>8. ASSUME NEW r \in Report, NEW doc \in KeyDocs, Reconcile(r, doc)
      PROVE  /\ cur' = r /\ reports[r] # None
             /\ verdict' = [vstatus |-> Appraise(r, reports[r], doc, now), at |-> now]
  BY <1>8 DEF Reconcile, TypeOK
<1> QED
  BY <1>1, <1>2, <1>3, <1>4, <1>5, <1>6, <1>7, <1>8 DEF Next, ReconcileReport

\* Every step keeps the invariant.
LEMMA GInvKept ==
    ASSUME GInv, [Next]_vars
    PROVE  GInv'
<1>1. TypeOK /\ TypeOK' /\ ReportsKept
  BY StepTypes DEF GInv
<1>2. now \in Nat /\ now' \in Nat /\ now <= now'
  BY <1>1, ClockAdvances
<1>3. Dated'
  <2> SUFFICES ASSUME NEW r \in Report, reports'[r] # None
               PROVE  reports'[r].token.iat + reports'[r].token.kind.delay <= now'
    BY DEF Dated
  <2>1. CASE reports[r] = None
    BY <1>1, <1>2, <2>1, StatusKept
  <2>2. CASE reports[r] # None
    <3>1. reports'[r].token = reports[r].token
      BY <1>1, <2>2 DEF ReportsKept
    <3> PICK iat \in Int, delay \in Nat :
               iat = reports[r].token.iat /\ delay = reports[r].token.kind.delay
      BY <1>1, <2>2, TokenNumbers
    <3>2. iat + delay <= now
      BY <2>2 DEF GInv, Dated
    <3> QED
      BY <1>2, <3>1, <3>2
  <2> QED
    BY <2>1, <2>2
<1>4. pc # "idle" => verdict.at \in Nat /\ verdict.at <= now /\ cur \in Report /\ reports[cur] # None
  BY <1>1, NaturalTimes DEF GInv, TypeOK
<1>5. (pc # "idle" => verdict.at <= now)'
  <2> SUFFICES ASSUME pc' # "idle"
               PROVE  verdict'.at <= now'
    OBVIOUS
  <2>1. verdict'.at = now \/ (pc # "idle" /\ verdict' = verdict)
    BY <1>1, VerdictKept
  <2> QED
    BY <1>2, <1>4, <2>1
<1>6. ASSUME NEW r \in Report, reports'[r] # None, reports'[r].status = "Failed", Genuine(r)'
      PROVE  ~Fresh(r, now)'
  <2>1. reports[r] # None
    BY <1>1, <1>6, StatusKept, NoneIsNoObject DEF Verdict
  <2> PICK u \in Nat : u = now'
    BY <1>2
  <2>2. Genuine(r) /\ (Fresh(r, u)' => Fresh(r, u))
    BY <1>1, <1>6, <2>1, GenuineKept
  <2>3. ~Fresh(r, u)
    <3>1. CASE reports'[r].status = reports[r].status
      <4>1. ~Fresh(r, now)
        BY <1>6, <2>1, <2>2, <3>1 DEF GInv
      <4> QED
        BY <1>1, <1>2, <2>1, <4>1, StaleForGood
    <3>2. CASE markProcessed /\ r = cur /\ reports'[r].status = verdict.vstatus
      <4>1. pc # "idle"
        BY <3>2 DEF markProcessed
      <4>2. ~Fresh(r, verdict.at)
        BY <1>6, <2>2, <3>2, <4>1 DEF GInv
      <4>3. verdict.at \in Nat /\ verdict.at <= u
        BY <1>2, <1>4, <4>1
      <4> QED
        BY <1>1, <2>1, <4>2, <4>3, StaleForGood
    <3> QED
      BY <1>1, <1>6, <2>1, <3>1, <3>2, StatusKept
  <2>4. Fresh(r, now)' => Fresh(r, u)'
    BY DEF Fresh
  <2> QED
    BY <2>2, <2>3, <2>4
<1>7. ASSUME pc' # "idle", verdict'.vstatus = "Failed", Genuine(cur)'
      PROVE  ~Fresh(cur, verdict.at)'
  <2> PICK r, t : r = cur' /\ t = verdict'.at
    OBVIOUS
  <2>1. Genuine(r)' /\ (Fresh(cur, verdict.at)' => Fresh(r, t)')
    <3>1. Genuine(r)'
      BY <1>7, Zenon DEF Genuine
    <3>2. Fresh(cur, verdict.at)' => Fresh(r, t)'
      BY DEF Fresh
    <3> QED
      BY <3>1, <3>2
  <2>2. CASE pc # "idle" /\ cur' = cur /\ verdict' = verdict
    <3>1. r \in Report /\ reports[r] # None /\ t \in Nat
      BY <1>4, <2>2
    <3>2. Genuine(r) /\ (Fresh(r, t)' => Fresh(r, t))
      BY <1>1, <2>1, <3>1, GenuineKept
    <3>3. ~Fresh(r, t)
      BY <1>7, <2>2, <3>2 DEF GInv
    <3> QED
      BY <2>1, <3>2, <3>3
  <2>3. ASSUME NEW s \in Report, NEW doc \in KeyDocs, cur' = s, reports[s] # None,
               verdict' = [vstatus |-> Appraise(s, reports[s], doc, now), at |-> now]
        PROVE  ~Fresh(cur, verdict.at)'
    <3>1. r = s /\ t = now /\ t \in Nat /\ Appraise(s, reports[s], doc, now) = "Failed"
      BY <1>2, <1>7, <2>3
    <3>2. Genuine(r) /\ (Fresh(r, t)' => Fresh(r, t))
      BY <1>1, <2>1, <2>3, <3>1, GenuineKept
    <3>3. ~Fresh(r, t)
      BY <1>1, <2>3, <3>1, <3>2, GenuineAccepted DEF GInv
    <3> QED
      BY <2>1, <3>2, <3>3
  <2> QED
    BY <1>1, <1>7, <2>2, <2>3, VerdictKept
<1> QED
  BY <1>1, <1>3, <1>5, <1>6, <1>7 DEF GInv

\* No genuine token that is still fresh has been marked Failed, for all constants.
THEOREM GenuineTokensNotFailed == Spec => []GenuineNotFailed
<1>1. Init /\ TypeOK => GInv
  BY DEF Init, GInv, Dated
<1>2. GInv /\ [Next]_vars => GInv'
  BY GInvKept
<1>3. GInv => GenuineNotFailed
  BY DEF GInv, GenuineNotFailed, Fresh
<1> QED
  BY <1>1, <1>2, <1>3, TypeCorrect, PTL DEF Spec

-----------------------------------------------------------------------------
\* The two writes of an appraisal.

NoneDeleted == \A r \in Report : reports[r] # None => ~reports[r].deleted

\* The evidence of n was made from a report of n.
HasReport(n) == \E r \in Report : reports[r] # None /\ reports[r].node = n

\* The verifier will write the evidence of n, or is about to.
Waiting(n) ==
    \/ \E r \in queue : reports[r].node = n
    \/ pc \in {"spec", "status"} /\ reports[cur].node = n

\* Spec and status of n come from the same report.
Together(n) ==
    /\ evidence[n].status.nonce \in Report /\ reports[evidence[n].status.nonce] # None
    /\ evidence[n].spec = SpecOf(reports[evidence[n].status.nonce])
    /\ evidence[n].spec.simulated <=> evidence[n].status.mode = "simulated"

\* The inductive invariant behind AppraisedTogether: while the worker is between its two
\* writes nobody else writes the spec, and evidence that is not together has a report
\* waiting.
TInv ==
    /\ TypeOK
    /\ \A n \in Node : evidence[n] # None => HasReport(n)
    /\ pc = "status" /\ evidence[reports[cur].node] # None =>
          evidence[reports[cur].node].spec = SpecOf(reports[cur])
    /\ NoneDeleted => \A n \in Node : evidence[n] # None => Waiting(n) \/ Together(n)

\* Reports that are kept give the same spec, and a node that has one keeps it.
LEMMA SpecKept ==
    ASSUME TypeOK, [Next]_vars
    PROVE  /\ \A r \in Report : reports[r] # None => SpecOf(reports'[r]) = SpecOf(reports[r])
           /\ \A n \in Node : HasReport(n) => HasReport(n)'
           /\ NoneDeleted' => NoneDeleted
<1>1. ReportsKept
  BY StepTypes
<1>2. \A r \in Report : reports[r] # None => SpecOf(reports'[r]) = SpecOf(reports[r])
  BY <1>1 DEF ReportsKept, SpecOf
<1>3. \A n \in Node : HasReport(n) => HasReport(n)'
  BY <1>1 DEF ReportsKept, HasReport
<1>4. NoneDeleted' => NoneDeleted
  BY <1>1 DEF ReportsKept, NoneDeleted
<1> QED
  BY <1>2, <1>3, <1>4

\* Evidence whose spec, nonce and mode stay is still together.
LEMMA TogetherKept ==
    ASSUME TypeOK, [Next]_vars, NEW n \in Node, Together(n),
           evidence'[n].spec = evidence[n].spec,
           evidence'[n].status.nonce = evidence[n].status.nonce,
           evidence'[n].status.mode = evidence[n].status.mode
    PROVE  Together(n)'
<1> PICK r : r = evidence[n].status.nonce
  OBVIOUS
<1>1. r \in Report /\ reports[r] # None /\ evidence[n].spec = SpecOf(reports[r])
  BY DEF Together
<1>2. reports'[r] # None /\ SpecOf(reports'[r]) = SpecOf(reports[r])
  BY <1>1, StepTypes, SpecKept DEF ReportsKept
<1> QED
  BY <1>1, <1>2 DEF Together

\* A node stays waiting as long as the queue and the worker go on.
LEMMA WaitingKept ==
    ASSUME TypeOK, [Next]_vars, NEW n \in Node, Waiting(n), queue \subseteq queue',
           pc \in {"spec", "status"} =>
              \/ pc' \in {"spec", "status"} /\ cur' = cur
              \/ cur \in queue'
    PROVE  Waiting(n)'
<1>1. ReportsKept
  BY StepTypes
<1>2. ASSUME NEW r \in queue, reports[r].node = n
      PROVE  r \in queue' /\ reports'[r].node = n
  BY <1>1, <1>2 DEF ReportsKept, TypeOK
<1>3. ASSUME pc \in {"spec", "status"}, reports[cur].node = n
      PROVE  reports'[cur].node = n
  BY <1>1, <1>3 DEF ReportsKept, TypeOK
<1> QED
  BY <1>2, <1>3 DEF Waiting

\* Steps that change neither the spec nor the verdict of any evidence.
LEMMA QuietSteps ==
    ASSUME TInv, [Next]_vars, queue \subseteq queue',
           pc \in {"spec", "status"} => pc' = pc /\ cur' = cur,
           pc' = "status" => pc = "status",
           \A n \in Node : evidence'[n] # None =>
              /\ evidence[n] # None
              /\ evidence'[n].spec = evidence[n].spec
              /\ evidence'[n].status.nonce = evidence[n].status.nonce
              /\ evidence'[n].status.mode = evidence[n].status.mode
    PROVE  TInv'
<1>1. TypeOK /\ TypeOK'
  BY StepTypes DEF TInv
<1>2. ASSUME NEW n \in Node, evidence'[n] # None
      PROVE  HasReport(n)'
  BY <1>1, <1>2, SpecKept DEF TInv
<1>3. ASSUME pc' = "status", evidence'[reports'[cur'].node] # None
      PROVE  evidence'[reports'[cur'].node].spec = SpecOf(reports'[cur'])
  <2> PICK r \in Report : r = cur
    BY <1>1, <1>3 DEF TypeOK
  <2>1. pc = "status" /\ cur' = r /\ reports[r] # None
    BY <1>1, <1>3 DEF TypeOK
  <2> PICK n \in Node : n = reports[r].node
    BY <1>1, <2>1, ObjectsTyped
  <2>2. reports'[r].node = n /\ SpecOf(reports'[r]) = SpecOf(reports[r])
    BY <1>1, <2>1, StepTypes, SpecKept DEF ReportsKept
  <2>3. evidence'[n] # None
    BY <1>3, <2>1, <2>2
  <2>4. evidence[n].spec = SpecOf(reports[r])
    BY <2>1, <2>3 DEF TInv
  <2> QED
    BY <2>1, <2>2, <2>3, <2>4
<1>4. ASSUME NoneDeleted', NEW n \in Node, evidence'[n] # None
      PROVE  Waiting(n)' \/ Together(n)'
  <2>1. Waiting(n) \/ Together(n)
    BY <1>1, <1>4, SpecKept DEF TInv
  <2>2. Waiting(n) => Waiting(n)'
    BY <1>1, WaitingKept
  <2>3. Together(n) => Together(n)'
    BY <1>1, <1>4, TogetherKept
  <2> QED
    BY <2>1, <2>2, <2>3
<1> QED
  BY <1>1, <1>2, <1>3, <1>4 DEF TInv

\* A report that leaves the queue is the one the worker takes up.
LEMMA ReconcileTogether ==
    ASSUME TInv, NEW r \in Report, NEW doc \in KeyDocs, Reconcile(r, doc)
    PROVE  TInv'
<1>1. TypeOK /\ TypeOK' /\ [Next]_vars
  BY StepTypes DEF TInv, Next
<1>2. /\ pc = "idle" /\ r \in queue /\ queue' = queue \ {r} /\ pc' \in {"idle", "spec"}
      /\ UNCHANGED <<reports, evidence>> /\ reports[r] # None
      /\ ~reports[r].deleted => pc' = "spec" /\ cur' = r
  BY <1>1 DEF Reconcile, TypeOK
<1>3. ASSUME NoneDeleted', NEW n \in Node, evidence'[n] # None
      PROVE  Waiting(n)' \/ Together(n)'
  <2>1. NoneDeleted /\ evidence[n] # None
    BY <1>1, <1>2, <1>3, SpecKept
  <2>2. pc' = "spec" /\ cur' = r
    BY <1>2, <2>1 DEF NoneDeleted
  <2>3. Waiting(n) => Waiting(n)'
    BY <1>2, <2>2 DEF Waiting
  <2>4. Together(n) => Together(n)'
    BY <1>1, <1>2, TogetherKept
  <2> QED
    BY <2>1, <2>3, <2>4 DEF TInv
<1>4. ASSUME NEW n \in Node, evidence'[n] # None
      PROVE  HasReport(n)'
  BY <1>1, <1>2, <1>4, SpecKept DEF TInv
<1> QED
  BY <1>1, <1>2, <1>3, <1>4 DEF TInv

\* After a restart every report that was not deleted waits.
LEMMA RestartTogether ==
    ASSUME TInv, Restart
    PROVE  TInv'
<1>1. TypeOK /\ TypeOK' /\ [Next]_vars
  BY StepTypes DEF TInv, Next
<1>2. /\ UNCHANGED <<reports, evidence>> /\ pc' = "idle"
      /\ queue' = {r \in Report : reports[r] # None /\ ~reports[r].deleted}
  BY DEF Restart, Done
<1>3. ASSUME NEW n \in Node, evidence'[n] # None
      PROVE  HasReport(n) /\ HasReport(n)'
  BY <1>1, <1>2, <1>3, SpecKept DEF TInv
<1>4. ASSUME NoneDeleted', NEW n \in Node, evidence'[n] # None
      PROVE  Waiting(n)'
  <2> PICK r \in Report : reports[r] # None /\ reports[r].node = n
    BY <1>3, <1>4 DEF HasReport
  <2>1. ~reports[r].deleted
    BY <1>1, <1>4, SpecKept DEF NoneDeleted
  <2> QED
    BY <1>2, <2>1 DEF Waiting
<1> QED
  BY <1>1, <1>2, <1>3, <1>4 DEF TInv

\* The first write leaves its node waiting for the second, or for a retry.
LEMMA UpsertTogether ==
    ASSUME TInv, upsertEvidence
    PROVE  TInv'
<1>1. TypeOK /\ TypeOK' /\ [Next]_vars
  BY StepTypes DEF TInv, Next, ReconcileReport
<1> PICK r \in Report : r = cur /\ reports[r] # None
  BY <1>1 DEF TypeOK, upsertEvidence
<1> PICK n \in Node : n = reports[r].node
  BY <1>1, ObjectsTyped DEF upsertEvidence
<1>2. pc = "spec" /\ reports' = reports /\ queue \subseteq queue'
  BY DEF upsertEvidence, Retry, Done
<1>3. (pc' = "status" /\ cur' = cur) \/ (pc' = "idle" /\ r \in queue')
  BY DEF upsertEvidence, Retry, Done
<1>4. Waiting(n)'
  BY <1>2, <1>3 DEF Waiting
<1>5. /\ \A m \in Node : m # n => evidence'[m] = evidence[m]
      /\ pc' = "status" => evidence'[n].spec = SpecOf(reports[r])
  <2>1. CASE evidence' = evidence
    <3>1. ASSUME pc' = "status"
          PROVE  evidence'[n].spec = SpecOf(reports[r])
      <4> PICK status : evidence' = [evidence EXCEPT ![n] =
                                       [spec |-> SpecOf(reports[r]), status |-> status]]
        BY <3>1 DEF upsertEvidence, Retry, Done
      <4> QED
        BY <1>1 DEF TypeOK
    <3> QED
      BY <2>1, <3>1
  <2>2. CASE evidence' # evidence
    <3> PICK new \in EvidenceObject :
              evidence' = [evidence EXCEPT ![n] = new] /\ new.spec = SpecOf(reports[r])
      BY <1>1, <2>2, UpsertWrites
    <3> QED
      BY <1>1, EvidenceWritten
  <2> QED
    BY <2>1, <2>2
<1>6. ASSUME NEW m \in Node, evidence'[m] # None
      PROVE  HasReport(m)'
  <2>1. CASE m = n
    BY <1>2, <2>1 DEF HasReport
  <2>2. CASE m # n
    BY <1>1, <1>5, <1>6, <2>2, SpecKept DEF TInv
  <2> QED
    BY <2>1, <2>2
<1>7. ASSUME NoneDeleted', NEW m \in Node, evidence'[m] # None
      PROVE  Waiting(m)' \/ Together(m)'
  <2>1. CASE m = n
    BY <1>4, <2>1
  <2>2. CASE m # n
    <3>1. Waiting(m) \/ Together(m)
      BY <1>1, <1>5, <1>7, <2>2, SpecKept DEF TInv
    <3>2. Waiting(m) => Waiting(m)'
      BY <1>1, <1>2, <1>3, WaitingKept
    <3>3. Together(m) => Together(m)'
      BY <1>1, <1>5, <2>2, TogetherKept
    <3> QED
      BY <3>1, <3>2, <3>3
  <2> QED
    BY <2>1, <2>2
<1>8. pc' = "status" => reports'[cur'].node = n /\ reports'[cur'] = reports[r]
  BY <1>2, <1>3
<1> QED
  BY <1>1, <1>5, <1>6, <1>7, <1>8 DEF TInv

\* The second brings spec and status together, or is retried.
LEMMA UpdateTogether ==
    ASSUME TInv, updateEvidenceStatus
    PROVE  TInv'
<1>1. TypeOK /\ TypeOK' /\ [Next]_vars
  BY StepTypes DEF TInv, Next, ReconcileReport
<1> PICK r \in Report : r = cur /\ reports[r] # None
  BY <1>1 DEF TypeOK, updateEvidenceStatus
<1> PICK n \in Node : n = reports[r].node
  BY <1>1, ObjectsTyped DEF updateEvidenceStatus
<1>2. /\ pc = "status" /\ reports' = reports /\ queue \subseteq queue'
      /\ \/ pc' = "idle" /\ r \in queue'
         \/ /\ pc' = "report" /\ queue' = queue
            /\ evidence[n] # None /\ StatusWritten(n)
      /\ evidence' = evidence \/ (evidence[n] # None /\ StatusWritten(n))
  BY DEF updateEvidenceStatus, Retry, Done, Write, Outcome
<1>3. \A m \in Node : m # n => evidence'[m] = evidence[m]
  BY <1>1, <1>2 DEF StatusWritten, TypeOK
<1>4. ASSUME evidence[n] # None, StatusWritten(n)
      PROVE  Together(n)'
  <2> PICK status \in Status : status = evidence[n].status
    BY <1>1, <1>4, ObjectsTyped DEF EvidenceObject
  <2> PICK new \in EvidenceObject :
              /\ evidence' = [evidence EXCEPT ![n] = new]
              /\ new.spec = evidence[n].spec
              /\ new.status = StatusOf(status)
    BY <1>1, <1>2, <1>4, StatusWrites
  <2>1. /\ new.status.nonce = r
        /\ new.status.mode = EvidenceMode(reports[r], verdict.vstatus)
    BY <1>1, <1>2, StatusWrittenType
  <2>2. new.spec = SpecOf(reports[r]) /\ evidence'[n] = new
    BY <1>1, <1>2, <1>4, EvidenceWritten DEF TInv
  <2>3. SpecOf(reports[r]).simulated = reports[r].simulated /\ reports[r].simulated \in BOOLEAN
    BY <1>1, SpecTypes, ObjectsTyped DEF ReportObject
  <2>4. reports[r].simulated <=> EvidenceMode(reports[r], verdict.vstatus) = "simulated"
    BY <2>3 DEF EvidenceMode
  <2>5. new.spec.simulated <=> new.status.mode = "simulated"
    BY <2>1, <2>2, <2>3, <2>4, Zenon
  <2> QED
    BY <1>2, <2>1, <2>2, <2>5 DEF Together
<1>5. ASSUME NEW m \in Node, evidence'[m] # None
      PROVE  HasReport(m)'
  <2>1. CASE m = n
    BY <1>2, <2>1 DEF HasReport
  <2>2. CASE m # n
    BY <1>1, <1>3, <1>5, <2>2, SpecKept DEF TInv
  <2> QED
    BY <2>1, <2>2
<1>6. ASSUME NoneDeleted', NEW m \in Node, evidence'[m] # None
      PROVE  Waiting(m)' \/ Together(m)'
  <2>1. CASE m = n
    <3>1. pc' = "idle" /\ r \in queue' => Waiting(n)'
      BY <1>2 DEF Waiting
    <3> QED
      BY <1>2, <1>4, <2>1, <3>1
  <2>2. CASE m # n
    <3>1. Waiting(m) \/ Together(m)
      BY <1>1, <1>3, <1>6, <2>2, SpecKept DEF TInv
    <3>2. Waiting(m) => Waiting(m)'
      BY <1>2, <2>2 DEF Waiting
    <3>3. Together(m) => Together(m)'
      BY <1>1, <1>3, <2>2, TogetherKept
    <3> QED
      BY <3>1, <3>2, <3>3
  <2> QED
    BY <2>1, <2>2
<1>7. pc' # "status"
  BY <1>2
<1> QED
  BY <1>1, <1>5, <1>6, <1>7 DEF TInv

\* Every step keeps the invariant.
LEMMA TInvKept ==
    ASSUME TInv, [Next]_vars
    PROVE  TInv'
<1>1. CASE /\ evidence' = evidence /\ queue \subseteq queue'
           /\ pc \in {"spec", "status"} => pc' = pc /\ cur' = cur
           /\ pc' = "status" => pc = "status"
  BY <1>1, QuietSteps
<1>2. ASSUME NEW n \in Node, DeleteEvidence(n)
      PROVE  TInv'
  <2>1. /\ queue' = queue /\ pc' = pc /\ cur' = cur
        /\ evidence' = [evidence EXCEPT ![n] = None]
    BY <1>2 DEF DeleteEvidence, worker
  <2>2. evidence'[n] = None /\ \A m \in Node : m # n => evidence'[m] = evidence[m]
    BY <2>1, EvidenceWritten DEF TInv
  <2> QED
    BY <2>1, <2>2, QuietSteps
<1>3. ASSUME NEW n \in Node, NEW revoked \in BOOLEAN, RefreshEvidence(n, revoked)
      PROVE  TInv'
  <2> PICK new \in EvidenceObject :
              /\ evidence[n] \in EvidenceObject
              /\ evidence' = [evidence EXCEPT ![n] = new]
              /\ new.spec = evidence[n].spec
              /\ new.status.mode = evidence[n].status.mode
              /\ new.status.nonce = evidence[n].status.nonce
    BY <1>3, RefreshWrites DEF TInv
  <2>1. queue' = queue /\ pc' = pc /\ cur' = cur /\ evidence[n] # None
    BY <1>3 DEF RefreshEvidence
  <2>2. evidence'[n] = new /\ \A m \in Node : m # n => evidence'[m] = evidence[m]
    BY EvidenceWritten DEF TInv
  <2> QED
    BY <2>1, <2>2, QuietSteps
<1>4. ASSUME \/ \E n \in Node, agent \in Agents : createReport(n, agent)
             \/ \E r \in Report : DeleteReport(r) \/ Refresh(r)
             \/ Tick \/ UNCHANGED vars
      PROVE  evidence' = evidence /\ queue \subseteq queue' /\ pc' = pc /\ cur' = cur
  BY <1>4 DEF createReport, DeleteReport, Refresh, Tick, vars, worker
<1>5. markProcessed => evidence' = evidence /\ queue \subseteq queue' /\ pc = "report" /\ pc' = "idle"
  BY DEF markProcessed, Done
<1> QED
  BY <1>1, <1>2, <1>3, <1>4, <1>5, ReconcileTogether, RestartTogether, UpsertTogether,
     UpdateTogether DEF Next, ReconcileReport

\* The two writes of an appraisal are never left half done, for all constants.
THEOREM WritesStayTogether == Spec => []AppraisedTogether
<1>1. Init /\ TypeOK => TInv
  BY DEF Init, TInv
<1>2. TInv /\ [Next]_vars => TInv'
  BY TInvKept
<1>3. TInv => AppraisedTogether
  <2> SUFFICES ASSUME TInv, NEW n \in Node, Settled(n), evidence[n] # None, NoneDeleted
               PROVE  /\ evidence[n].status.nonce # None
                      /\ evidence[n].spec = SpecOf(reports[evidence[n].status.nonce])
                      /\ evidence[n].spec.simulated <=> evidence[n].status.mode = "simulated"
    BY DEF AppraisedTogether, NoneDeleted
  <2>1. ~Waiting(n)
    BY DEF Settled, Waiting, TInv, TypeOK
  <2>2. Together(n)
    BY <2>1 DEF TInv
  <2> QED
    BY <2>2, NoneIsNoObject DEF Together
<1> QED
  BY <1>1, <1>2, <1>3, TypeCorrect, PTL DEF Spec

=============================================================================
