---------------------------- MODULE VerifierTypes -----------------------------
(***************************************************************************)
(* Type correctness of Verifier, and what its steps write, for any nodes,  *)
(* agents, key lists and bounds.                                           *)
(***************************************************************************)
EXTENDS Verifier, TLAPS

-----------------------------------------------------------------------------
\* Types.

\* The worker's part of TypeOK.
WorkerTypeOK ==
    /\ pc \in {"idle", "spec", "status", "report"}
    /\ IF pc = "idle" THEN cur = None /\ verdict = None
       ELSE /\ cur \in Report /\ reports[cur] # None
            /\ verdict \in [vstatus : Verdict, at : Time]
    /\ stale \in BOOLEAN

\* The queues' part of TypeOK.
QueueTypeOK ==
    /\ queue \subseteq {r \in Report : reports[r] # None}
    /\ timers \subseteq {r \in Report : reports[r] # None}

\* The objects' part of TypeOK.
ObjectTypeOK ==
    /\ now \in Time /\ faults \in 0 .. MaxFaults
    /\ reports \in [Report -> ReportObject \cup {None}]
    /\ evidence \in [Node -> EvidenceObject \cup {None}]
    /\ appraisedAt \in [Node -> Time \cup {None}]

\* TypeOK is its three parts, before and after a step.
LEMMA TypeParts ==
    /\ TypeOK <=> WorkerTypeOK /\ QueueTypeOK /\ ObjectTypeOK
    /\ TypeOK' <=> WorkerTypeOK' /\ QueueTypeOK' /\ ObjectTypeOK'
  BY DEF TypeOK, WorkerTypeOK, QueueTypeOK, ObjectTypeOK

\* Times are natural numbers.
LEMMA NaturalTimes == \A t \in Time : t \in Nat
  BY VerifierConstants DEF Time

\* A report that exists is of the type of a report, and so is the evidence.
LEMMA ObjectsTyped ==
    ASSUME TypeOK
    PROVE  /\ \A r \in Report : reports[r] # None => reports[r] \in ReportObject
           /\ \A n \in Node : evidence[n] # None => evidence[n] \in EvidenceObject
           /\ pc # "idle" => reports[cur] \in ReportObject /\ reports[cur].node \in Node
<1>1. /\ \A r \in Report : reports[r] # None => reports[r] \in ReportObject
      /\ \A n \in Node : evidence[n] # None => evidence[n] \in EvidenceObject
  BY DEF TypeOK
<1>2. pc # "idle" => cur \in Report /\ reports[cur] # None
  BY DEF TypeOK
<1>3. \A report \in ReportObject : report.node \in Node
  BY DEF ReportObject
<1> QED
  BY <1>1, <1>2, <1>3

\* No report is ever forgotten or given another content.
ReportsKept ==
    \A r \in Report : reports[r] # None =>
        /\ reports'[r] # None
        /\ reports'[r].node = reports[r].node
        /\ reports'[r].simulated = reports[r].simulated
        /\ reports'[r].token = reports[r].token
        /\ reports[r].deleted => reports'[r].deleted

\* What a report that is written becomes.
LEMMA ReportWritten ==
    ASSUME TypeOK, NEW r \in Report, NEW new \in ReportObject,
           reports' = [reports EXCEPT ![r] = new],
           reports[r] # None =>
              /\ new.node = reports[r].node /\ new.simulated = reports[r].simulated
              /\ new.token = reports[r].token /\ (reports[r].deleted => new.deleted)
    PROVE  /\ reports' \in [Report -> ReportObject \cup {None}]
           /\ reports'[r] = new
           /\ \A s \in Report : s # r => reports'[s] = reports[s]
           /\ ReportsKept
<1>1. reports \in [Report -> ReportObject \cup {None}]
  BY DEF TypeOK
<1>2. /\ reports' \in [Report -> ReportObject \cup {None}]
      /\ reports'[r] = new
      /\ \A s \in Report : s # r => reports'[s] = reports[s]
  BY <1>1
<1>3. new # None
  BY NoneIsNoObject
<1> QED
  BY <1>2, <1>3 DEF ReportsKept

\* A change of status or of the mark of deletion keeps the type of a report.
LEMMA ReportFields ==
    ASSUME NEW old \in ReportObject
    PROVE  /\ \A v \in Verdict : LET new == [old EXCEPT !.status = v] IN
                /\ new \in ReportObject /\ new.node = old.node
                /\ new.simulated = old.simulated /\ new.token = old.token
                /\ new.deleted = old.deleted /\ new.status = v
           /\ LET new == [old EXCEPT !.deleted = TRUE] IN
                /\ new \in ReportObject /\ new.node = old.node
                /\ new.simulated = old.simulated /\ new.token = old.token
                /\ new.deleted = TRUE /\ new.status = old.status
  BY DEF ReportObject

\* What an agent creates is a report.
LEMMA ReportCreated ==
    ASSUME TypeOK, NEW n \in Node, NEW agent \in Agents, NEW r \in Report, NEW new,
           new = [node |-> n, simulated |-> agent.simulated,
                  token |-> [kind |-> agent.kind, iat |-> now - agent.kind.delay,
                             nonce |-> IF readToken(agent.sources) = "helper" THEN r ELSE None],
                  status |-> None, deleted |-> FALSE]
    PROVE  /\ new \in ReportObject /\ new.node = n /\ new.status = None
           /\ new.deleted = FALSE
<1>1. agent.simulated \in BOOLEAN /\ agent.kind \in TokenKind
  BY VerifierConstants DEF Agent
<1>2. agent.kind.delay \in Nat /\ now \in Nat
  BY <1>1, NaturalTimes DEF TokenKind, TypeOK
<1> PICK tok : tok = [kind |-> agent.kind, iat |-> now - agent.kind.delay,
                      nonce |-> IF readToken(agent.sources) = "helper" THEN r ELSE None]
  OBVIOUS
<1>3. tok \in [kind : TokenKind, iat : Int, nonce : Report \cup {None}]
  BY <1>1, <1>2
<1>4. new = [node |-> n, simulated |-> agent.simulated, token |-> tok, status |-> None,
             deleted |-> FALSE]
  OBVIOUS
<1> QED
  BY <1>1, <1>3, <1>4 DEF ReportObject

\* The spec of a report and the status without a verdict are of their types.
LEMMA SpecTypes ==
    /\ \A report \in ReportObject : SpecOf(report) \in EvidenceSpec
    /\ \A report \in ReportObject : SpecOf(report).simulated = report.simulated
    /\ NoStatus \in Status
  BY DEF SpecOf, EvidenceSpec, ReportObject, NoStatus, Status, teeFromAttestationType

\* The fields of a status.
LEMMA StatusFields ==
    ASSUME NEW verified, NEW mode, NEW nonce, NEW issuedAt, NEW lastVerified, NEW revoked, NEW status,
           status = [verified |-> verified, mode |-> mode, nonce |-> nonce,
                     issuedAt |-> issuedAt, lastVerified |-> lastVerified, revoked |-> revoked]
    PROVE  /\ status.verified = verified /\ status.mode = mode /\ status.nonce = nonce
           /\ status.lastVerified = lastVerified /\ status.revoked = revoked
  OBVIOUS

\* The status the verifier writes is one, and has the fields of the report and the verdict.
LEMMA StatusWrittenType ==
    ASSUME TypeOK, pc # "idle", NEW old \in Status
    PROVE  /\ StatusOf(old) \in Status
           /\ StatusOf(old).nonce = cur /\ StatusOf(old).revoked = old.revoked
           /\ StatusOf(old).mode = EvidenceMode(reports[cur], verdict.vstatus)
           /\ StatusOf(old).verified = (verdict.vstatus = "Verified")
           /\ StatusOf(old).lastVerified =
                 IF verdict.vstatus = "Verified" THEN now ELSE old.lastVerified
<1> PICK report \in ReportObject : report = reports[cur]
  BY ObjectsTyped
<1>1. cur \in Report /\ now \in Time /\ report.token.iat \in Int /\ report.simulated \in BOOLEAN
  BY DEF TypeOK, ReportObject
<1> PICK mode \in Mode :
           mode = EvidenceMode(reports[cur], verdict.vstatus)
  BY <1>1 DEF EvidenceMode, Mode
<1> PICK verified \in BOOLEAN : verified = (verdict.vstatus = "Verified")
  OBVIOUS
<1> PICK issuedAt \in Int \cup {None} :
           issuedAt = IF ~report.simulated /\ verified THEN report.token.iat ELSE None
  BY <1>1
<1> PICK lastVerified \in Time \cup {None} :
           lastVerified = IF verified THEN now ELSE old.lastVerified
  BY <1>1 DEF Status
<1> PICK revoked \in BOOLEAN : revoked = old.revoked
  BY DEF Status
<1> PICK status : status = StatusOf(old)
  OBVIOUS
<1>2. status = [verified |-> verified, mode |-> mode, nonce |-> cur, issuedAt |-> issuedAt,
                lastVerified |-> lastVerified, revoked |-> revoked]
  BY Zenon DEF StatusOf
<1>3. status \in Status
  BY <1>1, <1>2 DEF Status
<1>4. /\ status.nonce = cur /\ status.revoked = revoked /\ status.mode = mode
      /\ status.verified = verified /\ status.lastVerified = lastVerified
  BY <1>2, StatusFields, SMT
<1> QED
  BY <1>3, <1>4, Zenon

\* What evidence that is written becomes.
LEMMA EvidenceWritten ==
    ASSUME TypeOK, NEW n \in Node, NEW new \in EvidenceObject \cup {None},
           evidence' = [evidence EXCEPT ![n] = new]
    PROVE  /\ evidence' \in [Node -> EvidenceObject \cup {None}]
           /\ evidence'[n] = new
           /\ \A m \in Node : m # n => evidence'[m] = evidence[m]
  BY DEF TypeOK

\* The three writes of evidence, each of a known new value.  The first is upsertEvidence's.
LEMMA UpsertWrites ==
    ASSUME TypeOK, upsertEvidence, evidence' # evidence
    PROVE  \E new \in EvidenceObject :
              LET n == reports[cur].node IN
              /\ evidence' = [evidence EXCEPT ![n] = new]
              /\ new.spec = SpecOf(reports[cur])
              /\ new.status = IF evidence[n] = None THEN NoStatus ELSE evidence[n].status
<1> PICK n \in Node : n = reports[cur].node
  BY ObjectsTyped DEF upsertEvidence
<1> PICK report \in ReportObject : report = reports[cur]
  BY ObjectsTyped DEF upsertEvidence
<1> PICK status : status = IF evidence[n] = None THEN NoStatus ELSE evidence[n].status
  OBVIOUS
<1>1. status \in Status
  BY SpecTypes, ObjectsTyped DEF EvidenceObject
<1> PICK new : new = [spec |-> SpecOf(report), status |-> status]
  OBVIOUS
<1>2. new \in EvidenceObject /\ new.spec = SpecOf(report) /\ new.status = status
  BY <1>1, SpecTypes DEF EvidenceObject
<1>3. evidence' = [evidence EXCEPT ![n] = new]
  BY DEF upsertEvidence
<1> QED
  BY <1>2, <1>3

\* The second is that of the status.
LEMMA StatusWrites ==
    ASSUME TypeOK, pc # "idle", NEW n \in Node, evidence[n] # None, StatusWritten(n)
    PROVE  \E new \in EvidenceObject :
              /\ evidence' = [evidence EXCEPT ![n] = new]
              /\ new.spec = evidence[n].spec
              /\ new.status = StatusOf(evidence[n].status)
<1> PICK ev \in EvidenceObject : ev = evidence[n]
  BY ObjectsTyped
<1> PICK status : status = StatusOf(ev.status)
  OBVIOUS
<1>1. status \in Status
  BY StatusWrittenType DEF EvidenceObject
<1> PICK new : new = [ev EXCEPT !.status = status]
  OBVIOUS
<1>2. new \in EvidenceObject /\ new.spec = ev.spec /\ new.status = status
  BY <1>1 DEF EvidenceObject
<1>3. evidence' = [evidence EXCEPT ![n] = new]
  BY DEF StatusWritten
<1> QED
  BY <1>2, <1>3

\* The third is the manager's.
LEMMA RefreshWrites ==
    ASSUME TypeOK, NEW n \in Node, NEW revoked \in BOOLEAN, RefreshEvidence(n, revoked)
    PROVE  \E new \in EvidenceObject, verified \in BOOLEAN :
              /\ evidence[n] \in EvidenceObject
              /\ evidence' = [evidence EXCEPT ![n] = new]
              /\ verified => ~revoked
              /\ new.spec = evidence[n].spec
              /\ new.status.verified = verified /\ new.status.revoked = revoked
              /\ new.status.mode = evidence[n].status.mode
              /\ new.status.nonce = evidence[n].status.nonce
              /\ new.status.lastVerified =
                    IF verified THEN now ELSE evidence[n].status.lastVerified
<1> PICK ev \in EvidenceObject : ev = evidence[n]
  BY ObjectsTyped DEF RefreshEvidence
<1> PICK old \in Status : old = ev.status
  BY DEF EvidenceObject
<1> PICK verified \in BOOLEAN : verified = (~revoked /\ ev.spec.simulated)
  OBVIOUS
<1> PICK lastVerified \in Time \cup {None} :
           lastVerified = IF verified THEN now ELSE old.lastVerified
  BY DEF Status, TypeOK
<1>1. LET status == [old EXCEPT !.revoked = revoked, !.verified = verified,
                                !.lastVerified = lastVerified]
      IN  /\ status \in Status /\ status.verified = verified /\ status.revoked = revoked
          /\ status.mode = old.mode /\ status.nonce = old.nonce
          /\ status.lastVerified = lastVerified
  BY ONLY TRUE DEF Status
<1> PICK status : status = [old EXCEPT !.revoked = revoked, !.verified = verified,
                                       !.lastVerified = lastVerified]
  OBVIOUS
<1> PICK new : new = [ev EXCEPT !.status = status]
  OBVIOUS
<1>2. new \in EvidenceObject /\ new.spec = ev.spec /\ new.status = status
  BY <1>1 DEF EvidenceObject
<1>3. evidence' = [evidence EXCEPT ![n] = new]
  <2>1. evidence' = [evidence EXCEPT ![n].status =
             [old EXCEPT !.revoked = revoked, !.verified = verified,
                         !.lastVerified = IF verified THEN now ELSE @]]
    BY Zenon DEF RefreshEvidence
  <2>2. status = [old EXCEPT !.revoked = revoked, !.verified = verified,
                             !.lastVerified = IF verified THEN now ELSE @]
    OBVIOUS
  <2> QED
    BY <2>1, <2>2, Zenon
<1> QED
  BY <1>1, <1>2, <1>3, Zenon

\* Faults stay within their bound.
LEMMA FaultsBounded ==
    ASSUME TypeOK
    PROVE  /\ Count => faults' \in 0 .. MaxFaults
           /\ UNCHANGED faults => faults' \in 0 .. MaxFaults
           /\ \A possible \in BOOLEAN, outcome \in Outcome :
                 Write(possible, outcome) => faults' \in 0 .. MaxFaults
<1>1. MaxFaults \in Nat /\ faults \in 0 .. MaxFaults
  BY VerifierConstants DEF TypeOK
<1>2. (Count => faults' \in 0 .. MaxFaults) /\ (UNCHANGED faults => faults' \in 0 .. MaxFaults)
  BY <1>1 DEF Count
<1> QED
  BY <1>2 DEF Write, Outcome

\* Steps that leave the reports alone keep them, and the types of what they leave alone.
LEMMA SameReports ==
    ASSUME TypeOK, reports' = reports
    PROVE  /\ ReportsKept
           /\ queue' \subseteq queue \cup timers \cup {r \in Report : reports[r] # None}
              /\ timers' \subseteq timers \cup {r \in Report : reports[r] # None} => QueueTypeOK'
           /\ UNCHANGED <<pc, cur, verdict>> /\ stale' \in BOOLEAN => WorkerTypeOK'
           /\ Done => WorkerTypeOK'
<1>1. ReportsKept
  BY DEF ReportsKept
<1>2. queue' \subseteq queue \cup timers \cup {r \in Report : reports[r] # None}
      /\ timers' \subseteq timers \cup {r \in Report : reports[r] # None} => QueueTypeOK'
  BY DEF QueueTypeOK, TypeOK
<1>3. (UNCHANGED <<pc, cur, verdict>> /\ stale' \in BOOLEAN => WorkerTypeOK')
  BY DEF WorkerTypeOK, TypeOK
<1>4. Done => WorkerTypeOK'
  BY DEF WorkerTypeOK, Done
<1> QED
  BY <1>1, <1>2, <1>3, <1>4

\* Steps that write reports, and leave the objects and the worker's locals alone.
LEMMA ReportsTypes ==
    ASSUME TypeOK, ReportsKept, reports' \in [Report -> ReportObject \cup {None}],
           UNCHANGED <<now, evidence, appraisedAt>>, faults' \in 0 .. MaxFaults,
           UNCHANGED worker \/ Done,
           queue' \subseteq {r \in Report : reports'[r] # None},
           timers' \subseteq {r \in Report : reports'[r] # None}
    PROVE  TypeOK'
<1>1. ObjectTypeOK' /\ QueueTypeOK'
  BY DEF TypeOK, ObjectTypeOK, QueueTypeOK
<1>2. WorkerTypeOK'
  BY DEF TypeOK, WorkerTypeOK, worker, Done, ReportsKept
<1> QED
  BY <1>1, <1>2, TypeParts

\* Reports are created well-typed.
LEMMA CreateTypes ==
    ASSUME TypeOK, NEW n \in Node, NEW agent \in Agents, createReport(n, agent)
    PROVE  TypeOK' /\ ReportsKept
<1> PICK r \in Report :
        /\ reports[r] = None
        /\ reports' = [reports EXCEPT ![r] =
              [node |-> n, simulated |-> agent.simulated,
               token |-> [kind |-> agent.kind, iat |-> now - agent.kind.delay,
                          nonce |-> IF readToken(agent.sources) = "helper" THEN r ELSE None],
               status |-> None, deleted |-> FALSE]]
        /\ queue' = queue \cup {r}
        /\ UNCHANGED <<now, evidence, timers, worker, faults, appraisedAt>>
  BY DEF createReport
<1> PICK new : new = [node |-> n, simulated |-> agent.simulated,
               token |-> [kind |-> agent.kind, iat |-> now - agent.kind.delay,
                          nonce |-> IF readToken(agent.sources) = "helper" THEN r ELSE None],
               status |-> None, deleted |-> FALSE]
  OBVIOUS
<1>1. new \in ReportObject
  BY ReportCreated
<1>2. /\ reports' \in [Report -> ReportObject \cup {None}] /\ reports'[r] = new /\ ReportsKept
  BY <1>1, ReportWritten
<1>3. new # None
  BY <1>1, NoneIsNoObject
<1>4. /\ queue' \subseteq {s \in Report : reports'[s] # None}
      /\ timers' \subseteq {s \in Report : reports'[s] # None}
  BY <1>2, <1>3 DEF TypeOK, ReportsKept
<1>5. faults' \in 0 .. MaxFaults
  BY DEF TypeOK
<1> QED
  BY <1>2, <1>4, <1>5, ReportsTypes

\* Appraising gives a verdict.
LEMMA ReconcileTypes ==
    ASSUME TypeOK, NEW r \in Report, NEW doc \in KeyDocs, Reconcile(r, doc)
    PROVE  TypeOK' /\ ReportsKept
<1>1. Appraise(r, reports[r], doc, now) \in Verdict
  BY DEF Appraise, VerifyMAAToken, Verdict
<1>2. r \in Report /\ reports[r] # None
  BY DEF Reconcile, TypeOK
<1>3. reports' = reports /\ queue' \subseteq queue /\ timers' = timers
  BY DEF Reconcile
<1>4. WorkerTypeOK'
  <2>1. CASE reports[r].deleted
    BY <2>1 DEF Reconcile, WorkerTypeOK, TypeOK
  <2>2. CASE ~reports[r].deleted
    <3>1. verdict' \in [vstatus : Verdict, at : Time]
      BY <1>1, <2>2 DEF Reconcile, TypeOK
    <3> QED
      BY <1>2, <2>2, <3>1 DEF Reconcile, WorkerTypeOK, TypeOK
  <2> QED
    BY <2>1, <2>2
<1>5. ObjectTypeOK'
  BY DEF Reconcile, TypeOK, ObjectTypeOK
<1> QED
  BY <1>3, <1>4, <1>5, SameReports, TypeParts

\* The first write of evidence keeps the types,
LEMMA UpsertTypes ==
    ASSUME TypeOK, upsertEvidence
    PROVE  TypeOK' /\ ReportsKept
<1> PICK outcome \in Outcome :
        /\ pc = "spec" /\ Write(TRUE, outcome)
        /\ IF outcome = "applied"
           THEN /\ pc' = "status" /\ stale' = FALSE
                /\ UNCHANGED <<cur, verdict, queue, timers>>
           ELSE Retry
        /\ UNCHANGED <<now, reports, appraisedAt>>
  BY DEF upsertEvidence
<1>1. faults' \in 0 .. MaxFaults
  BY FaultsBounded
<1>2. evidence' \in [Node -> EvidenceObject \cup {None}]
  <2>1. CASE evidence' = evidence
    BY <2>1 DEF TypeOK
  <2>2. CASE evidence' # evidence
    BY <2>2, UpsertWrites, EvidenceWritten, ObjectsTyped
  <2> QED
    BY <2>1, <2>2
<1>3. ObjectTypeOK'
  BY <1>1, <1>2 DEF TypeOK, ObjectTypeOK
<1>4. WorkerTypeOK'
  BY SameReports DEF Retry, TypeOK, WorkerTypeOK
<1>5. QueueTypeOK'
  BY DEF TypeOK, QueueTypeOK, Retry
<1> QED
  BY <1>3, <1>4, <1>5, SameReports, TypeParts

\* the second,
LEMMA UpdateTypes ==
    ASSUME TypeOK, updateEvidenceStatus
    PROVE  TypeOK' /\ ReportsKept
<1> PICK n \in Node : n = reports[cur].node
  BY ObjectsTyped DEF updateEvidenceStatus
<1> PICK outcome \in Outcome :
        /\ pc = "status"
        /\ Write(evidence[n] # None /\ ~stale, outcome)
        /\ IF outcome = "refused" THEN UNCHANGED <<evidence, appraisedAt>> ELSE StatusWritten(n)
        /\ IF outcome = "applied"
           THEN pc' = "report" /\ UNCHANGED <<cur, verdict, stale, queue, timers>>
           ELSE Retry
        /\ UNCHANGED <<now, reports>>
  BY DEF updateEvidenceStatus
<1>1. faults' \in 0 .. MaxFaults
  BY FaultsBounded
<1>2. /\ evidence' \in [Node -> EvidenceObject \cup {None}]
      /\ appraisedAt' \in [Node -> Time \cup {None}]
  <2>1. CASE outcome = "refused"
    BY <2>1 DEF TypeOK
  <2>2. CASE outcome # "refused"
    <3>1. evidence[n] # None /\ StatusWritten(n)
      BY <2>2 DEF Write, Outcome
    <3>2. verdict.at \in Time
      BY DEF TypeOK
    <3>3. PICK new \in EvidenceObject : evidence' = [evidence EXCEPT ![n] = new]
      BY <3>1, StatusWrites
    <3>4. evidence' \in [Node -> EvidenceObject \cup {None}]
      BY <3>3 DEF TypeOK
    <3>5. appraisedAt' \in [Node -> Time \cup {None}]
      BY <3>1, <3>2 DEF StatusWritten, TypeOK
    <3> QED
      BY <3>4, <3>5
  <2> QED
    BY <2>1, <2>2
<1>3. ObjectTypeOK'
  BY <1>1, <1>2 DEF TypeOK, ObjectTypeOK
<1>4. WorkerTypeOK'
  BY SameReports DEF Retry, TypeOK, WorkerTypeOK
<1>5. QueueTypeOK'
  BY DEF TypeOK, QueueTypeOK, Retry
<1> QED
  BY <1>3, <1>4, <1>5, SameReports, TypeParts

\* and the write of the report.
LEMMA MarkTypes ==
    ASSUME TypeOK, markProcessed
    PROVE  /\ TypeOK' /\ ReportsKept
           /\ \A r \in Report : r # cur => reports'[r] = reports[r]
           /\ reports'[cur].status \in {reports[cur].status, verdict.vstatus}
           /\ reports'[cur].deleted = reports[cur].deleted
<1> PICK outcome \in Outcome :
        /\ pc = "report"
        /\ Write(~reports[cur].deleted, outcome)
        /\ reports' = IF outcome = "refused" THEN reports
                      ELSE [reports EXCEPT ![cur].status = verdict.vstatus]
        /\ Done
        /\ queue' = IF outcome # "applied" \/ reports' # reports
                    THEN queue \cup {cur} ELSE queue
        /\ timers' = IF outcome = "applied" /\ reports[cur].simulated
                     THEN timers \cup {cur} ELSE timers
        /\ UNCHANGED <<now, evidence, appraisedAt>>
  BY DEF markProcessed
<1> PICK old \in ReportObject : old = reports[cur]
  BY ObjectsTyped
<1> PICK vstatus \in Verdict : vstatus = verdict.vstatus
  BY DEF TypeOK
<1> PICK new : new = [old EXCEPT !.status = vstatus]
  OBVIOUS
<1>1. /\ new \in ReportObject /\ new.node = old.node /\ new.simulated = old.simulated
      /\ new.token = old.token /\ new.deleted = old.deleted /\ new.status = vstatus
  BY ReportFields
<1>2. cur \in Report /\ old # None
  BY NoneIsNoObject DEF TypeOK
<1>3. /\ reports' \in [Report -> ReportObject \cup {None}] /\ ReportsKept
      /\ \A r \in Report : r # cur => reports'[r] = reports[r]
      /\ reports'[cur].status \in {reports[cur].status, verdict.vstatus}
      /\ reports'[cur].deleted = reports[cur].deleted
  <2>1. CASE reports' = reports
    BY <2>1, SameReports DEF TypeOK
  <2>2. CASE reports' # reports
    <3>1. reports' = [reports EXCEPT ![cur] = new]
      BY <2>2
    <3>2. /\ new.node = reports[cur].node /\ new.simulated = reports[cur].simulated
          /\ new.token = reports[cur].token /\ (reports[cur].deleted => new.deleted)
      BY <1>1, Zenon
    <3>3. /\ reports' \in [Report -> ReportObject \cup {None}] /\ ReportsKept
          /\ reports'[cur] = new /\ \A r \in Report : r # cur => reports'[r] = reports[r]
      BY <1>1, <1>2, <3>1, <3>2, ReportWritten
    <3>4. new.status = verdict.vstatus /\ new.deleted = reports[cur].deleted
      BY <1>1, Zenon
    <3> QED
      BY <3>3, <3>4, Zenon
  <2> QED
    BY <2>1, <2>2
<1>4. faults' \in 0 .. MaxFaults
  BY FaultsBounded
<1>5. /\ queue' \subseteq {r \in Report : reports'[r] # None}
      /\ timers' \subseteq {r \in Report : reports'[r] # None}
  BY <1>2, <1>3 DEF TypeOK, ReportsKept
<1>6. TypeOK'
  BY <1>3, <1>4, <1>5, ReportsTypes
<1> QED
  BY <1>3, <1>6

\* A report is only marked when it is deleted.
LEMMA DeleteReportTypes ==
    ASSUME TypeOK, NEW d \in Report, DeleteReport(d)
    PROVE  /\ TypeOK' /\ ReportsKept /\ reports'[d].deleted
           /\ \A r \in Report : reports[r] = None => reports'[r] = None
           /\ \A r \in Report : reports[r] # None => reports'[r].status = reports[r].status
<1> PICK old \in ReportObject : old = reports[d]
  BY ObjectsTyped DEF DeleteReport
<1> PICK new : new = [old EXCEPT !.deleted = TRUE]
  OBVIOUS
<1>1. /\ new \in ReportObject /\ new.node = old.node /\ new.simulated = old.simulated
      /\ new.token = old.token /\ new.deleted /\ new.status = old.status
  BY ReportFields
<1>2. reports' = [reports EXCEPT ![d] = new] /\ old # None
  BY DEF DeleteReport
<1>3. /\ new.node = reports[d].node /\ new.simulated = reports[d].simulated
      /\ new.token = reports[d].token /\ (reports[d].deleted => new.deleted)
  BY <1>1, Zenon
<1>4. /\ reports' \in [Report -> ReportObject \cup {None}] /\ ReportsKept
      /\ reports'[d] = new /\ \A r \in Report : r # d => reports'[r] = reports[r]
  BY <1>1, <1>2, <1>3, ReportWritten
<1>5. UNCHANGED <<now, evidence, appraisedAt>> /\ UNCHANGED worker /\ faults' \in 0 .. MaxFaults
  BY FaultsBounded DEF DeleteReport
<1>6. /\ queue' \subseteq {r \in Report : reports'[r] # None}
      /\ timers' \subseteq {r \in Report : reports'[r] # None}
  BY <1>4 DEF DeleteReport, TypeOK, ReportsKept
<1>7. TypeOK'
  BY <1>4, <1>5, <1>6, ReportsTypes
<1>8. \A r \in Report : reports[r] # None => reports'[r].status = reports[r].status
  BY <1>1, <1>4, Zenon
<1> QED
  BY <1>1, <1>2, <1>4, <1>7, <1>8, Zenon

\* The refresh of a report, a restart, the clock, and what the manager and users do to
\* evidence.
Others ==
    \/ \E r \in Report : Refresh(r)
    \/ Restart
    \/ \E n \in Node :
          \/ DeleteEvidence(n)
          \/ \E revoked \in BOOLEAN : RefreshEvidence(n, revoked)
    \/ Tick

\* They write no report.
LEMMA OthersTypes ==
    ASSUME TypeOK, Others
    PROVE  TypeOK' /\ reports' = reports /\ appraisedAt' = appraisedAt
<1>1. CASE \E r \in Report : Refresh(r)
  <2>1. reports' = reports /\ appraisedAt' = appraisedAt /\ QueueTypeOK'
    BY <1>1, SameReports DEF Refresh
  <2>2. ObjectTypeOK' /\ WorkerTypeOK'
    BY <1>1 DEF Refresh, TypeOK, ObjectTypeOK, WorkerTypeOK, worker
  <2> QED
    BY <2>1, <2>2, TypeParts
<1>2. CASE Restart
  <2>1. reports' = reports /\ appraisedAt' = appraisedAt /\ faults' \in 0 .. MaxFaults
    BY <1>2, FaultsBounded DEF Restart
  <2>2. ObjectTypeOK' /\ QueueTypeOK'
    BY <1>2, <2>1 DEF Restart, TypeOK, ObjectTypeOK, QueueTypeOK
  <2>3. WorkerTypeOK'
    BY <1>2, <2>1, SameReports DEF Restart
  <2> QED
    BY <2>1, <2>2, <2>3, TypeParts
<1>3. ASSUME NEW n \in Node, NEW new \in EvidenceObject \cup {None},
             evidence' = [evidence EXCEPT ![n] = new], Count, stale' \in BOOLEAN,
             UNCHANGED <<now, reports, queue, timers, pc, cur, verdict, appraisedAt>>
      PROVE  TypeOK'
  <2>1. evidence' \in [Node -> EvidenceObject \cup {None}] /\ faults' \in 0 .. MaxFaults
    BY <1>3, EvidenceWritten, FaultsBounded
  <2>2. ObjectTypeOK' /\ QueueTypeOK' /\ WorkerTypeOK'
    BY <1>3, <2>1 DEF TypeOK, ObjectTypeOK, QueueTypeOK, WorkerTypeOK
  <2> QED
    BY <2>2, TypeParts
<1>4. ASSUME NEW n \in Node, DeleteEvidence(n)
      PROVE  TypeOK' /\ reports' = reports /\ appraisedAt' = appraisedAt
  BY <1>3, <1>4 DEF DeleteEvidence, worker, TypeOK
<1>5. ASSUME NEW n \in Node, NEW revoked \in BOOLEAN, RefreshEvidence(n, revoked)
      PROVE  TypeOK' /\ reports' = reports /\ appraisedAt' = appraisedAt
  <2> PICK new \in EvidenceObject : evidence' = [evidence EXCEPT ![n] = new]
    BY <1>5, RefreshWrites
  <2>1. /\ Count /\ stale' \in BOOLEAN
        /\ UNCHANGED <<now, reports, queue, timers, pc, cur, verdict, appraisedAt>>
    BY <1>5 DEF RefreshEvidence, TypeOK
  <2> QED
    BY <1>3, <2>1
<1>6. CASE Tick
  <2>1. now' \in Time
    BY <1>6, VerifierConstants DEF Tick, TypeOK, Time
  <2> QED
    BY <1>6, <2>1, TypeParts DEF Tick, TypeOK, ObjectTypeOK, QueueTypeOK, WorkerTypeOK, worker
<1> QED
  BY <1>1, <1>2, <1>4, <1>5, <1>6 DEF Others

\* Every step keeps the types, and the content of the reports.
LEMMA StepTypes ==
    ASSUME TypeOK, [Next]_vars
    PROVE  TypeOK' /\ ReportsKept
<1>1. CASE UNCHANGED vars
  BY <1>1, SameReports DEF vars, worker, TypeOK
<1>2. CASE Others
  BY <1>2, OthersTypes, SameReports
<1> QED
  BY <1>1, <1>2, CreateTypes, ReconcileTypes, UpsertTypes, UpdateTypes, MarkTypes,
     DeleteReportTypes DEF Next, Others, ReconcileReport

\* The objects keep their shape, and the worker's locals are set exactly while it works.
THEOREM TypeCorrect == Spec => []TypeOK
<1>1. Init => TypeOK
  <2> SUFFICES ASSUME Init
               PROVE  TypeOK
    OBVIOUS
  <2>1. ObjectTypeOK
    BY VerifierConstants DEF Init, ObjectTypeOK, Time
  <2>2. QueueTypeOK /\ WorkerTypeOK
    BY DEF Init, QueueTypeOK, WorkerTypeOK
  <2> QED
    BY <2>1, <2>2, TypeParts
<1>2. TypeOK /\ [Next]_vars => TypeOK'
  BY StepTypes
<1> QED
  BY <1>1, <1>2, PTL DEF Spec

-----------------------------------------------------------------------------
\* Writes of evidence.

\* The verifier's own steps neither set nor clear a revocation.
LEMMA RevokedKept ==
    ASSUME TypeOK, ReconcileReport, NEW n \in Node, evidence[n] # None
    PROVE  evidence'[n].status.revoked = evidence[n].status.revoked
<1> PICK ev \in EvidenceObject : ev = evidence[n]
  BY ObjectsTyped
<1>1. ev.status \in Status
  BY DEF EvidenceObject
<1>2. CASE evidence' = evidence
  BY <1>2
<1>3. CASE upsertEvidence /\ evidence' # evidence
  <2> PICK m \in Node : m = reports[cur].node
    BY <1>3, ObjectsTyped DEF upsertEvidence
  <2> PICK new \in EvidenceObject :
              /\ evidence' = [evidence EXCEPT ![m] = new]
              /\ new.status = IF evidence[m] = None THEN NoStatus ELSE evidence[m].status
    BY <1>3, UpsertWrites
  <2>1. evidence'[m] = new /\ \A k \in Node : k # m => evidence'[k] = evidence[k]
    BY EvidenceWritten
  <2> QED
    BY <2>1
<1>4. CASE updateEvidenceStatus /\ evidence' # evidence
  <2> PICK m \in Node : m = reports[cur].node
    BY <1>4, ObjectsTyped DEF updateEvidenceStatus
  <2>1. pc # "idle" /\ evidence[m] # None /\ StatusWritten(m)
    BY <1>4 DEF updateEvidenceStatus, Write, Outcome
  <2> PICK new \in EvidenceObject :
              /\ evidence' = [evidence EXCEPT ![m] = new]
              /\ new.status = StatusOf(evidence[m].status)
    BY <2>1, StatusWrites
  <2>2. evidence'[m] = new /\ \A k \in Node : k # m => evidence'[k] = evidence[k]
    BY EvidenceWritten
  <2>3. StatusOf(ev.status).revoked = ev.status.revoked
    BY <1>1, <2>1, StatusWrittenType
  <2> QED
    BY <2>2, <2>3
<1> QED
  BY <1>2, <1>3, <1>4 DEF ReconcileReport, markProcessed

\* A step of the verifier never clears or sets a revocation, for all constants.
THEOREM RevocationsSurvive == Spec => RevocationSurvives
<1> DEFINE Step == ReconcileReport =>
                     \A n \in Node : evidence[n] # None =>
                        evidence'[n].status.revoked = evidence[n].status.revoked
<1>1. TypeOK /\ [Next]_vars => [Step]_vars
  BY RevokedKept
<1> QED
  BY <1>1, TypeCorrect, PTL DEF Spec, RevocationSurvives

\* The clock does not go back.
LEMMA ClockAdvances ==
    ASSUME TypeOK, [Next]_vars
    PROVE  now \in Nat /\ now' \in Nat /\ now' >= now
<1>1. now \in Nat
  BY NaturalTimes DEF TypeOK
<1>2. now' = now \/ now' = now + 1
  BY DEF Next, createReport, Reconcile, ReconcileReport, upsertEvidence, updateEvidenceStatus,
         markProcessed, Refresh, DeleteReport, Restart, DeleteEvidence, RefreshEvidence, Tick,
         vars
<1> QED
  BY <1>1, <1>2
=============================================================================
