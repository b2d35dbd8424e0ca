------------------------------ MODULE Verifier ------------------------------
(***************************************************************************)
(* From raw reports to evidence: the node agents create                    *)
(* RawAttestationReports, and the central verifier, one worker on a        *)
(* workqueue, appraises each and writes the AttestationEvidence of its     *)
(* node, the spec and the status in two calls                              *)
(* (cmd/node-attestation-agent, internal/controller/                       *)
(* rawattestationreport_controller.go, pkg/attestation/maa).               *)
(*                                                                         *)
(* A status update carries the resourceVersion the verifier last saw, so   *)
(* the API server refuses it when another writer came in between.          *)
(***************************************************************************)
EXTENDS Integers, FiniteSets, Sequences

CONSTANTS
    Node,           \* node names; the evidence of n is named after n
    MaxReports,     \* bound: reports created in a behaviour
    Agents,         \* how agents are set up and what tokens they obtain
    KeyDocs,        \* what the issuer's key endpoint answers: a list of keys, or None
    ExpectedTEE,    \* EXPECTED_TEE of the verifier: "sevsnpvm" or "tdxvm"
    MaxTokenAge,    \* MAX_TOKEN_AGE_SECONDS of the verifier
    MaxTime,        \* bound: last value of the clock
    MaxFaults,      \* bound: refused or lost writes, restarts, foreign writes
    None            \* nil, NotFound and the zero time

Report == 1 .. MaxReports
Time == 0 .. MaxTime

\* A key of the issuer's list; a token names a key by its kid, or names none.
JWK == [kid : {"k1", "k2", None}, form : {"x5c", "modulus", "other"}, key : {"old", "new"}]

\* Where and how MAA repeats the client payload in a token: as the nonce claim, or in the
\* runtime claims as a map, as JSON text or as bare text, the nonce in it base64-encoded
\* `layers` times and the JSON text `wrap` times.
Echo == [at : {"top", "runtime", "isolation"}, form : {"map", "json", "text"},
         wrap : 0 .. 2, layers : 0 .. 2]

TokenKind == [jwt : BOOLEAN,        \* parses and names an allowed issuer
              kid : {"k1", "k2", None},
              signer : {"old", "new", "stranger"},
              echo : Echo,
              type : {"sevsnpvm", "tdxvm"},
              life : Nat,           \* exp - iat
              wait : Nat,           \* nbf - iat
              delay : Nat]          \* from its issue until the report is created

\* The token sources of an agent that are configured, besides ATTESTATION_TOKEN.
Agent == [simulated : BOOLEAN, sources : SUBSET {"file", "helper", "endpoint"},
          kind : TokenKind]

ASSUME VerifierConstants ==
    /\ MaxReports \in Nat /\ MaxTokenAge \in Nat \ {0} /\ MaxTime \in Nat /\ MaxFaults \in Nat
    /\ Agents \subseteq Agent /\ KeyDocs \subseteq Seq(JWK) \cup {None}
    /\ ExpectedTEE \in {"sevsnpvm", "tdxvm"}
    /\ None \notin Node \cup Int

VARIABLES
    now,        \* the clock
    reports,    \* Report -> report, or None: created in the order of their ids
    evidence,   \* Node -> AttestationEvidence, or None
    queue,      \* reports in the workqueue
    timers,     \* simulated reports waiting for their periodic refresh
    pc,         \* the step the worker is at
    cur,        \* the report being reconciled
    verdict,    \* what the verification of cur returned, and at which time
    stale,      \* the evidence was written by another since the spec write
    faults,     \* how many bounded events have happened
    appraisedAt \* history: Node -> the clock its status was verified under

worker == <<pc, cur, verdict, stale>>
vars == <<now, reports, evidence, queue, timers, worker, faults, appraisedAt>>

-----------------------------------------------------------------------------
\* MAA verification (pkg/attestation/maa).

\* One layer of base64 is taken off.  The hex digits of a nonce are base64 text
\* themselves, so that a nonce that was not encoded does not survive (layers = -1).
decodeRuntimePayloadValue(layers) == layers - 1

\* JSON text is looked into after at most one layer of base64 around it; text that is
\* still encoded then is taken for the nonce.
extractNonceFromRuntime(echo) ==
    IF echo.form = "json" /\ echo.wrap > 1 THEN decodeRuntimePayloadValue(echo.wrap)
    ELSE decodeRuntimePayloadValue(echo.layers)

\* How many layers of base64 are left on the nonce the claims name: its own claim is taken
\* as it is, else that of the runtime claims, else of the isolation-tee's.
claimsFromMap(echo) == IF echo.at = "top" THEN echo.layers ELSE extractNonceFromRuntime(echo)

\* Mutant: any token with a nonce will do.
FreshForAnyNonce(tok, nonce, t) ==
    /\ claimsFromMap(tok.kind.echo) = 0
    /\ t <= tok.iat + tok.kind.life
    /\ t + 1 >= tok.iat + tok.kind.wait
    /\ t - tok.iat <= MaxTokenAge

ValidateFreshness(tok, nonce, t) ==
    /\ tok.nonce = nonce /\ claimsFromMap(tok.kind.echo) = 0
    /\ t <= tok.iat + tok.kind.life
    /\ t + 1 >= tok.iat + tok.kind.wait
    /\ t - tok.iat <= MaxTokenAge

ValidateTEEClaims(tok) == tok.kind.type = ExpectedTEE

rsaKeyFromJWK(jwk) == jwk.form \in {"x5c", "modulus"}

\* The usable keys of the list; without any the keys count as unavailable.
fetchJWKS(doc) == {i \in DOMAIN doc : rsaKeyFromJWK(doc[i])}

\* The key a token is checked with, if any: the last one listed with its kid, or the only
\* one there is when the token names none.
keyFunc(doc, kid) ==
    LET kids == {doc[i].kid : i \in fetchJWKS(doc)}
        chosen == IF kid = None /\ kid \notin kids /\ \A k, l \in kids : k = l THEN kids ELSE {kid}
        listed == {i \in fetchJWKS(doc) : doc[i].kid \in chosen}
    IN  {doc[i].key : i \in {j \in listed : \A k \in listed : k <= j}}

\* jwt.Parse checks the signature and, on its own clock, exp and nbf.
Parse(tok, doc, t) ==
    /\ tok.kind.signer \in keyFunc(doc, tok.kind.kid)
    /\ t < tok.iat + tok.kind.life
    /\ t >= tok.iat + tok.kind.wait

\* Mutant: keys that cannot be fetched are keys that do not match.
VerifyOffline(tok, nonce, doc, t) ==
    IF /\ tok.kind.jwt /\ doc # None /\ Parse(tok, doc, t)
       /\ ValidateFreshness(tok, nonce, t) /\ ValidateTEEClaims(tok)
    THEN "Verified" ELSE "Failed"

VerifyMAAToken(tok, nonce, doc, t) ==
    CASE ~tok.kind.jwt -> "Failed"
      [] tok.kind.jwt /\ (doc = None \/ fetchJWKS(doc) = {}) -> "Unavailable"
      [] OTHER -> IF /\ Parse(tok, doc, t)
                     /\ ValidateFreshness(tok, nonce, t) /\ ValidateTEEClaims(tok)
                  THEN "Verified" ELSE "Failed"

\* A simulated report is accepted without a look at its token.
Appraise(r, report, doc, t) ==
    IF report.simulated THEN "Verified" ELSE VerifyMAAToken(report.token, r, doc, t)

EvidenceMode(report, vstatus) ==
    CASE report.simulated -> "simulated"
      [] ~report.simulated /\ vstatus = "Verified" -> "real"
      [] OTHER -> "unverified"

teeFromAttestationType(type) == IF type = "tdxvm" THEN "TDX" ELSE "SEV-SNP"

-----------------------------------------------------------------------------
Init ==
    /\ now = 0 /\ faults = 0
    /\ reports = [r \in Report |-> None]
    /\ evidence = [n \in Node |-> None]
    /\ queue = {} /\ timers = {}
    /\ pc = "idle" /\ cur = None /\ verdict = None /\ stale = FALSE
    /\ appraisedAt = [n \in Node |-> None]

Count == faults < MaxFaults /\ faults' = faults + 1

\* Where an agent takes its token from.
readToken(sources) ==
    CASE "file" \in sources -> "file"
      [] "file" \notin sources /\ "helper" \in sources -> "helper"
      [] sources = {"endpoint"} -> "endpoint"
      [] OTHER -> "env"

\* The agent of a node makes a nonce, collects a token, which its helper may take long
\* for, and creates a report.  Only the helper is told the nonce.  An agent that gets no
\* token creates no report.
createReport(n, agent) ==
    \E r \in Report :
        /\ reports[r] = None
        /\ \A s \in Report : s < r => reports[s] # None
        /\ reports' = [reports EXCEPT ![r] =
              [node |-> n, simulated |-> agent.simulated,
               token |-> [kind |-> agent.kind, iat |-> now - agent.kind.delay,
                          nonce |-> IF readToken(agent.sources) = "helper" THEN r ELSE None],
               status |-> None, deleted |-> FALSE]]
        /\ queue' = queue \cup {r}
        /\ UNCHANGED <<now, evidence, timers, worker, faults, appraisedAt>>

\* Get the report, fetch the keys of the issuer and compute the verdict.
Reconcile(r, doc) ==
    /\ pc = "idle" /\ r \in queue
    /\ queue' = queue \ {r}
    /\ IF reports[r].deleted
       THEN UNCHANGED <<pc, cur, verdict>>
       ELSE /\ pc' = "spec" /\ cur' = r
            /\ verdict' = [vstatus |-> Appraise(r, reports[r], doc, now), at |-> now]
    /\ UNCHANGED <<now, reports, evidence, timers, stale, faults, appraisedAt>>

Done == pc' = "idle" /\ cur' = None /\ verdict' = None /\ stale' = FALSE

\* An error is returned: the workqueue takes the report again.
Retry == Done /\ queue' = queue \cup {cur} /\ UNCHANGED timers

\* Whether the API server takes the worker's write; the answer may be lost.
Outcome == {"applied", "refused", "lost"}
Write(possible, outcome) ==
    /\ outcome = "applied" => possible /\ UNCHANGED faults
    /\ outcome = "refused" => IF possible THEN Count ELSE UNCHANGED faults
    /\ outcome = "lost" => possible /\ Count

SpecOf(report) ==
    [simulated |-> report.simulated,
     tee |-> IF report.simulated THEN teeFromAttestationType(ExpectedTEE) ELSE "SEV-SNP"]

NoStatus == [verified |-> FALSE, mode |-> None, nonce |-> None, issuedAt |-> None,
             lastVerified |-> None, revoked |-> FALSE]

\* CreateOrUpdate of the evidence: the spec is the report's, the status stays.
upsertEvidence ==
    LET n == reports[cur].node
    IN  \E outcome \in Outcome :
        /\ pc = "spec"
        /\ Write(TRUE, outcome)
        /\ evidence' = IF outcome = "refused" THEN evidence ELSE
              [evidence EXCEPT ![n] =
                  [spec |-> SpecOf(reports[cur]),
                   status |-> IF evidence[n] = None THEN NoStatus ELSE evidence[n].status]]
        /\ IF outcome = "applied"
           THEN /\ pc' = "status" /\ stale' = FALSE
                /\ UNCHANGED <<cur, verdict, queue, timers>>
           ELSE Retry
        /\ UNCHANGED <<now, reports, appraisedAt>>

\* Mutant: the end of the token's validity is taken for the time it was verified.
StatusUntilExpiry(old) ==
    LET report == reports[cur]
        verified == verdict.vstatus = "Verified"
    IN  [verified |-> verified,
         mode |-> EvidenceMode(report, verdict.vstatus),
         nonce |-> cur,
         issuedAt |-> IF ~report.simulated /\ verified THEN report.token.iat ELSE None,
         lastVerified |-> IF verified THEN report.token.iat + report.token.kind.life
                          ELSE old.lastVerified,
         revoked |-> old.revoked]

\* The status the verifier writes over the one it has read; it keeps revoked.
StatusOf(old) ==
    LET report == reports[cur]
        verified == verdict.vstatus = "Verified"
    IN  [verified |-> verified,
         mode |-> EvidenceMode(report, verdict.vstatus),
         nonce |-> cur,
         issuedAt |-> IF ~report.simulated /\ verified THEN report.token.iat ELSE None,
         lastVerified |-> IF verified THEN now ELSE old.lastVerified,
         revoked |-> old.revoked]

StatusWritten(n) ==
    /\ evidence' = [evidence EXCEPT ![n].status = StatusOf(evidence[n].status)]
    /\ appraisedAt' = [appraisedAt EXCEPT ![n] = verdict.at]

\* Mutant: the update carries no resourceVersion and overwrites what it did not see.
updateEvidenceUnlocked ==
    LET n == reports[cur].node
    IN  /\ pc = "status" /\ evidence[n] # None
        /\ evidence' = [evidence EXCEPT ![n].status =
               [StatusOf(evidence[n].status) EXCEPT !.revoked = IF stale THEN FALSE ELSE @]]
        /\ appraisedAt' = [appraisedAt EXCEPT ![n] = verdict.at]
        /\ pc' = "report"
        /\ UNCHANGED <<now, reports, queue, timers, cur, verdict, stale, faults>>

\* Mutant: a failed status update is not reported, so nobody retries.
updateEvidenceOnce ==
    LET n == reports[cur].node
    IN  \E outcome \in Outcome :
        /\ pc = "status"
        /\ Write(evidence[n] # None /\ ~stale, outcome)
        /\ IF outcome = "refused" THEN UNCHANGED <<evidence, appraisedAt>> ELSE StatusWritten(n)
        /\ pc' = "report"
        /\ UNCHANGED <<now, reports, queue, timers, cur, verdict, stale>>

\* Write the authoritative status, refused when the evidence has changed.
updateEvidenceStatus ==
    LET n == reports[cur].node
    IN  \E outcome \in Outcome :
        /\ pc = "status"
        /\ Write(evidence[n] # None /\ ~stale, outcome)
        /\ IF outcome = "refused" THEN UNCHANGED <<evidence, appraisedAt>> ELSE StatusWritten(n)
        /\ IF outcome = "applied"
           THEN pc' = "report" /\ UNCHANGED <<cur, verdict, stale, queue, timers>>
           ELSE Retry
        /\ UNCHANGED <<now, reports>>

\* Mutant: a report whose status changed is not reconciled again, nor is one
\* whose update failed.
markProcessedOnce ==
    \E outcome \in Outcome :
        /\ pc = "report"
        /\ Write(~reports[cur].deleted, outcome)
        /\ reports' = IF outcome = "refused" THEN reports
                      ELSE [reports EXCEPT ![cur].status = verdict.vstatus]
        /\ Done
        /\ UNCHANGED <<now, evidence, queue, timers, appraisedAt>>

\* Mark the report processed.  A change of its status is an event that enqueues
\* it again; a simulated report is also requeued after the refresh interval.
markProcessed ==
    \E outcome \in Outcome :
        /\ pc = "report"
        /\ Write(~reports[cur].deleted, outcome)
        /\ reports' = IF outcome = "refused" THEN reports
                      ELSE [reports EXCEPT ![cur].status = verdict.vstatus]
        /\ Done
        /\ queue' = IF outcome # "applied" \/ reports' # reports
                    THEN queue \cup {cur} ELSE queue
        /\ timers' = IF outcome = "applied" /\ reports[cur].simulated
                     THEN timers \cup {cur} ELSE timers
        /\ UNCHANGED <<now, evidence, appraisedAt>>

\* The refresh interval of a simulated report is over.
Refresh(r) ==
    /\ r \in timers
    /\ timers' = timers \ {r} /\ queue' = queue \cup {r}
    /\ UNCHANGED <<now, reports, evidence, worker, faults, appraisedAt>>

\* The verifier restarts and its informer lists every report again.
Restart ==
    /\ Count /\ Done
    /\ queue' = {r \in Report : reports[r] # None /\ ~reports[r].deleted}
    /\ timers' = {}
    /\ UNCHANGED <<now, reports, evidence, appraisedAt>>

-----------------------------------------------------------------------------
\* Others.

\* The manager's evidence reconciler, where it is enabled, writes the revocation and
\* a verdict of its own (see Revocation).  The specs the verifier writes have neither
\* digest nor signatures, so it verifies the simulated ones.
RefreshEvidence(n, revoked) ==
    LET ev == evidence[n]
        verified == ~revoked /\ ev.spec.simulated
    IN  /\ ev # None
        /\ evidence' = [evidence EXCEPT ![n].status =
              [ev.status EXCEPT !.revoked = revoked, !.verified = verified,
                                !.lastVerified = IF verified THEN now ELSE @]]
        /\ evidence' # evidence
        /\ stale' = (stale \/ (pc = "status" /\ reports[cur].node = n))
        /\ Count
        /\ UNCHANGED <<now, reports, queue, timers, pc, cur, verdict, appraisedAt>>

DeleteEvidence(n) ==
    /\ evidence[n] # None
    /\ evidence' = [evidence EXCEPT ![n] = None]
    /\ Count
    /\ UNCHANGED <<now, reports, queue, timers, worker, appraisedAt>>

\* A user removes a report; the verifier is told.  Its content is kept for the
\* properties.
DeleteReport(r) ==
    /\ reports[r] # None /\ ~reports[r].deleted
    /\ reports' = [reports EXCEPT ![r].deleted = TRUE]
    /\ queue' = queue \cup {r}
    /\ Count
    /\ UNCHANGED <<now, evidence, timers, worker, appraisedAt>>

Tick ==
    /\ now < MaxTime
    /\ now' = now + 1
    /\ UNCHANGED <<reports, evidence, queue, timers, worker, faults, appraisedAt>>

-----------------------------------------------------------------------------
ReconcileReport ==
    upsertEvidence \/ updateEvidenceStatus \/ markProcessed

Next ==
    \/ \E n \in Node, agent \in Agents : createReport(n, agent)
    \/ \E r \in Report, doc \in KeyDocs : Reconcile(r, doc)
    \/ ReconcileReport
    \/ \E r \in Report : Refresh(r) \/ DeleteReport(r)
    \/ Restart
    \/ \E n \in Node :
          \/ DeleteEvidence(n)
          \/ \E revoked \in BOOLEAN : RefreshEvidence(n, revoked)
    \/ Tick

Spec == Init /\ [][Next]_vars

\* The worker runs, and the workqueue gives every report in it its turn.
Fairness ==
    /\ WF_vars(ReconcileReport)
    /\ \A r \in Report : SF_vars(\E doc \in KeyDocs : Reconcile(r, doc))

FairSpec == Spec /\ Fairness

-----------------------------------------------------------------------------
Verdict == {"Verified", "Failed", "Unavailable"}
ReportObject == [node : Node, simulated : BOOLEAN,
                 token : [kind : TokenKind, iat : Int, nonce : Report \cup {None}],
                 status : Verdict \cup {None}, deleted : BOOLEAN]
Mode == {"real", "simulated", "unverified"}
Status == [verified : BOOLEAN, mode : Mode \cup {None},
           nonce : Report \cup {None}, issuedAt : Int \cup {None},
           lastVerified : Time \cup {None}, revoked : BOOLEAN]
EvidenceSpec == [simulated : BOOLEAN, tee : {"TDX", "SEV-SNP"}]
EvidenceObject == [spec : EvidenceSpec, status : Status]

\* What the readers of evidence see of it.
EvidenceView == [spec : EvidenceSpec, verified : BOOLEAN, revoked : BOOLEAN,
                 lastVerified : Time \cup {None}]

ASSUME NoneIsNoObject ==
    None \notin ReportObject \cup EvidenceObject \cup EvidenceView \cup Report
                \cup Mode \cup Verdict \cup [vstatus : Verdict, at : Time]

\* The objects have the shape of their CRDs, and the worker's locals are set
\* exactly while it works on a report that exists.
TypeOK ==
    /\ now \in Time /\ faults \in 0 .. MaxFaults
    /\ reports \in [Report -> ReportObject \cup {None}]
    /\ evidence \in [Node -> EvidenceObject \cup {None}]
    /\ queue \subseteq {r \in Report : reports[r] # None}
    /\ timers \subseteq {r \in Report : reports[r] # None}
    /\ pc \in {"idle", "spec", "status", "report"}
    /\ IF pc = "idle" THEN cur = None /\ verdict = None
       ELSE /\ cur \in Report /\ reports[cur] # None
            /\ verdict \in [vstatus : Verdict, at : Time]
    /\ stale \in BOOLEAN
    /\ appraisedAt \in [Node -> Time \cup {None}]

Published(key) == \E doc \in KeyDocs \ {None} : \E i \in fetchJWKS(doc) : doc[i].key = key

Verified(n) == evidence[n] # None /\ evidence[n].status.verified

\* Evidence that says "real" rests on a report of its own node whose token was signed by a
\* key the issuer published, was obtained for that report's nonce, has the expected TEE
\* and was no older than the verifier allows when it was verified; a simulated report
\* never makes it.
RealIsAttested ==
    \A n \in Node : Verified(n) /\ evidence[n].status.mode = "real" =>
        LET r == reports[evidence[n].status.nonce]
        IN  /\ r.node = n /\ ~r.simulated
            /\ Published(r.token.kind.signer)
            /\ r.token.nonce = evidence[n].status.nonce
            /\ r.token.kind.type = ExpectedTEE
            /\ appraisedAt[n] - r.token.iat <= MaxTokenAge
            /\ evidence[n].status.lastVerified >= appraisedAt[n]

\* A token of a helper, for the nonce of report r, that repeats the payload as MAA does
\* (its values base64-encoded once), and that the issuer signed with a key which its key
\* list has whenever it has any.
Genuine(r) ==
    LET report == reports[r]
        kind == report.token.kind
    IN  /\ ~report.simulated /\ report.token.nonce = r
        /\ kind.jwt /\ kind.type = ExpectedTEE
        /\ kind.echo.layers = IF kind.echo.at = "top" THEN 0 ELSE 1
        /\ kind.echo.wrap <= 1
        /\ \A doc \in KeyDocs \ {None} :
              fetchJWKS(doc) # {} => keyFunc(doc, kind.kid) = {kind.signer}

\* No genuine token that is still fresh has been marked Failed: keys that cannot be fetched
\* or used, other keys in the list, the place of the nonce and its encoding, and tokens
\* without a kid cost no node its attestation.
GenuineNotFailed ==
    \A r \in Report : reports[r] # None /\ Genuine(r) =>
        LET tok == reports[r].token
        IN  /\ now < tok.iat + tok.kind.life /\ now - tok.iat <= MaxTokenAge
            /\ tok.kind.wait <= tok.kind.delay
            => reports[r].status # "Failed"

\* The verifier has nothing left to do for the evidence of n.
Settled(n) ==
    /\ \A r \in queue : reports[r].node # n
    /\ pc # "idle" => reports[cur].node # n

\* The two writes of an appraisal are never left half done: refused or lost
\* updates, conflicts and restarts are retried, so that once the verifier is
\* through, spec and status come from the same report.  (A report deleted before
\* its retry is the exception.)
AppraisedTogether ==
    \A n \in Node :
        /\ Settled(n) /\ evidence[n] # None
        /\ \A r \in Report : reports[r] # None => ~reports[r].deleted
        => /\ evidence[n].status.nonce # None
           /\ evidence[n].spec = SpecOf(reports[evidence[n].status.nonce])
           /\ evidence[n].spec.simulated <=> evidence[n].status.mode = "simulated"

\* A step of the verifier never clears or sets the revocation of evidence, not
\* even when it races with whoever revokes it.
RevocationSurvives ==
    [][ReconcileReport =>
          \A n \in Node : evidence[n] # None =>
              evidence'[n].status.revoked = evidence[n].status.revoked]_vars

\* The evidence as its readers see it.
View(ev) ==
    IF ev = None THEN None ELSE
    [spec |-> ev.spec, verified |-> ev.status.verified, revoked |-> ev.status.revoked,
     lastVerified |-> ev.status.lastVerified]

Visible == [n \in Node |-> View(evidence[n])]

A == INSTANCE Attestations WITH Evidence <- Node, Specs <- EvidenceSpec, evidence <- Visible

\* The verifier keeps the contract of AttestationEvidence although it writes spec and
\* status apart, loses answers, conflicts with the manager and restarts.
ImplementsAttestations == A!Spec

\* Every report is processed, or removed.
ReportsProcessed ==
    \A r \in Report :
        reports[r] # None ~>
            reports[r] # None /\ (reports[r].status # None \/ reports[r].deleted)

-----------------------------------------------------------------------------
\* What the documentation says and the code does not do.

\* "chaque objet simule est marque simulated: true ... jamais silencieusement pris
\* pour une attestation reelle" (README.md): evidence that is verified and not
\* marked simulated was verified from a real attestation.
SimulatedNeverReal ==
    \A n \in Node : Verified(n) /\ ~evidence[n].spec.simulated =>
        evidence[n].status.mode = "real"

\* "tee: TEE atteste" (docs/attestationevidence.md): the TEE of settled real
\* evidence is the one its token attests.
TEEIsAttested ==
    \A n \in Node :
        Verified(n) /\ evidence[n].status.mode = "real" /\ Settled(n) =>
            evidence[n].spec.tee =
                teeFromAttestationType(reports[evidence[n].status.nonce].token.kind.type)

=============================================================================
