-------------------------- MODULE KeyReleaseProofs --------------------------
(***************************************************************************)
(* The key release gateway, for any pods, tokens and requests, and the     *)
(* reconciler of key release policies, for any policies and evidence.      *)
(***************************************************************************)
EXTENDS KeyGateway, KeyReleasePolicy, FiniteSetTheorems, TLAPS

-----------------------------------------------------------------------------
(***************************************************************************)
(* KeyGateway: the decision, as functions of the request.                  *)
(***************************************************************************)

\* A request as the gateway decodes it, when the tokens shown are those of the set known.
Shown(req, known) ==
    /\ req.pod \in UID /\ req.keyID \in KeyID
    /\ req.model \in Model \cup {None} /\ req.image \in Image \cup {None}
    /\ req.policy \in PolicyHash \cup {None}
    /\ req.token \in known \cup Garbled \cup {None}
    /\ req.required \in BOOLEAN /\ req.revocationActive \in BOOLEAN
    /\ req.revoked \in BOOLEAN /\ req.verified \in BOOLEAN /\ req.audit \in BOOLEAN
    /\ req.ttl \in Int /\ req.maxAge \in Int /\ req.lastSeen \in Int \cup {None}

LEMMA RequestShown ==
    ASSUME NEW pod \in UID, NEW id \in KeyID, NEW model \in Model \cup {None},
           NEW image \in Image \cup {None}, NEW policy \in PolicyHash \cup {None},
           NEW token \in tokens \cup Garbled \cup {None}, NEW in \in Inputs
    PROVE  Shown(Request(pod, id, model, image, policy, token, in), tokens)
  BY KeyGatewayConstants DEF Shown, Request

\* The conditions under which Evaluate allows, without their order.
Granted(req, pub, t) ==
    \/ ~req.required
    \/ /\ EvidenceGood(req, t)
       /\ req.token # None => verifyToken(req, pub, t) = None

LEMMA EvaluateGrants ==
    ASSUME NEW req, NEW known, NEW pub, NEW t \in Int, Shown(req, known)
    PROVE  /\ Evaluate(req, pub, t).allowed \in BOOLEAN
           /\ Evaluate(req, pub, t).allowed <=> Granted(req, pub, t)
           /\ Evaluate(req, pub, t).reason \in Reason
           /\ Evaluate(req, pub, t).reason \in {"ALLOWED", "POLICY_NOT_REQUIRED"}
                 <=> Evaluate(req, pub, t).allowed
  <1> DEFINE bad == req.token # None /\ verifyToken(req, pub, t) # None
             why == TokenReason(verifyToken(req, pub, t))
             old == EvidenceTooOld(req, t)
  <1>1. why \in Reason \ {"ALLOWED", "POLICY_NOT_REQUIRED"}
    BY DEF TokenReason, Reason
  <1>2. old <=> ~(req.maxAge > 0 /\ req.lastSeen # None => t <= req.lastSeen + req.maxAge)
    BY DEF EvidenceTooOld, Shown
  <1>3. EvidenceGood(req, t) <=>
           /\ ~(req.ttl <= 0) /\ ~req.revocationActive /\ ~req.revoked /\ req.verified
           /\ ~old /\ (req.audit => req.evidenceHash # None)
    BY <1>2 DEF EvidenceGood, Shown
  <1>4. Granted(req, pub, t) <=> ~req.required \/ (EvidenceGood(req, t) /\ ~bad)
    BY DEF Granted
  <1> HIDE DEF bad, why, old
  <1>5. Evaluate(req, pub, t) =
           IF ~req.required
           THEN [allowed |-> TRUE, reason |-> "POLICY_NOT_REQUIRED", ttl |-> req.ttl]
           ELSE IF req.ttl <= 0 THEN deny("TTL_INVALID")
           ELSE IF req.revocationActive THEN deny("REVOCATION_ACTIVE")
           ELSE IF req.revoked THEN deny("EVIDENCE_REVOKED")
           ELSE IF ~req.verified THEN deny("EVIDENCE_NOT_VERIFIED")
           ELSE IF old THEN deny("EVIDENCE_EXPIRED")
           ELSE IF bad THEN deny(why)
           ELSE IF req.audit /\ req.evidenceHash = None THEN deny("AUDIT_REQUIRED_NOT_MET")
           ELSE [allowed |-> TRUE, reason |-> "ALLOWED", ttl |-> req.ttl]
    BY DEF Evaluate, bad, why, old
  <1>6. \A r : deny(r).allowed = FALSE /\ deny(r).reason = r
    BY DEF deny
  <1>7. CASE ~req.required
    BY <1>4, <1>5, <1>7 DEF Reason
  <1>8. CASE req.required /\ EvidenceGood(req, t) /\ ~bad
    <2>1. Evaluate(req, pub, t) = [allowed |-> TRUE, reason |-> "ALLOWED", ttl |-> req.ttl]
      BY <1>3, <1>5, <1>8
    <2> QED
      BY <1>4, <1>8, <2>1 DEF Reason
  <1>9. CASE req.required /\ ~(EvidenceGood(req, t) /\ ~bad)
    <2>1. \E r \in Reason \ {"ALLOWED", "POLICY_NOT_REQUIRED"} : Evaluate(req, pub, t) = deny(r)
      BY <1>1, <1>3, <1>5, <1>9 DEF Reason
    <2> QED
      BY <1>4, <1>6, <1>9, <2>1
  <1> QED
    BY <1>7, <1>8, <1>9

\* With a public key, verifyToken accepts exactly the tokens the scheduler signed with it
\* for this pod, that are not over and that no digest of the request contradicts.
LEMMA TokenAccepted ==
    ASSUME NEW known \in SUBSET Token, NEW req, Shown(req, known), req.token # None,
           NEW pub \in SigningKey, NEW t \in Int
    PROVE  verifyToken(req, pub, t) = None <=>
              /\ req.token \in known /\ req.token.signer = pub /\ t <= req.token.expires
              /\ req.token.pod = req.pod
              /\ ~Contradicts(req.model, req.token.model)
              /\ ~Contradicts(req.image, req.token.image)
              /\ ~Contradicts(req.policy, req.token.policy)
  <1> DEFINE tok == req.token
  <1>1. \A error \in SUBSET Word : error # None
    BY NoneIsNoAnswer
  <1>2. CASE tok \in Garbled
    <2>1. verifyToken(req, pub, t) \in SUBSET Word
      BY <1>2, NoneIsNoAnswer DEF verifyToken
    <2> QED
      BY <1>1, <1>2, <2>1, NoneIsNoAnswer
  <1>3. CASE tok \notin Garbled
    <2>1. tok \in known /\ tok \in Token
      BY <1>3 DEF Shown
    <2>2. pub # None /\ tok.expires \in Int
      BY <2>1, KeyGatewayConstants DEF SigningKey, Token
    <2>3. /\ Verify(pub, tok, t) = None \/ Verify(pub, tok, t) \in SUBSET Word
          /\ Verify(pub, tok, t) = None <=> tok.signer = pub /\ t <= tok.expires
      <3>1. {"expired"} \in SUBSET Word /\ {} \in SUBSET Word
        BY DEF Word
      <3>2. {"expired"} # None /\ {} # None
        BY <1>1, <3>1
      <3>3. ~(t > tok.expires) <=> t <= tok.expires
        BY <2>2
      <3> HIDE DEF tok
      <3>4. Verify(pub, tok, t) = IF t > tok.expires THEN {"expired"}
                                  ELSE IF tok.signer # pub THEN {} ELSE None
        BY <2>2 DEF Verify
      <3>5. CASE t > tok.expires
        BY <3>1, <3>2, <3>3, <3>4, <3>5
      <3>6. CASE ~(t > tok.expires) /\ tok.signer # pub
        <4>1. Verify(pub, tok, t) = {}
          BY <3>4, <3>6
        <4> QED
          BY <3>1, <3>2, <3>6, <4>1, Zenon
      <3>7. CASE ~(t > tok.expires) /\ tok.signer = pub
        <4>1. Verify(pub, tok, t) = None
          BY <3>4, <3>7
        <4>2. tok.signer = pub /\ t <= tok.expires
          BY <3>3, <3>7
        <4> QED
          BY <4>1, <4>2, Zenon
      <3> QED
        BY <3>5, <3>6, <3>7
    <2>4. req.pod # None
      BY KeyGatewayConstants DEF Shown
    <2>5. /\ Quoting("pod UID mismatch", tok.pod, req.pod) \in SUBSET Word
          /\ Quoting("model", tok.model, req.model) \in SUBSET Word
          /\ Quoting("image", tok.image, req.image) \in SUBSET Word
          /\ Quoting("policy", tok.policy, req.policy) \in SUBSET Word
      <3> DEFINE values == UID \cup Image \cup Model \cup PolicyHash \cup Garbled \cup {None}
      <3>1. \A word \in Word, a, b \in values : Quoting(word, a, b) \in SUBSET Word
        BY NoneIsNoAnswer DEF Quoting
      <3>2. {tok.pod, req.pod, tok.model, req.model, tok.image, req.image, tok.policy,
             req.policy} \subseteq values
        BY <2>1 DEF Token, Shown
      <3>3. {"pod UID mismatch", "model", "image", "policy"} \subseteq Word
        BY DEF Word
      <3> HIDE DEF values, tok
      <3> QED
        BY <3>1, <3>2, <3>3
    <2> HIDE DEF tok
    <2>6. verifyToken(req, pub, t) =
             IF Verify(pub, tok, t) # None THEN Verify(pub, tok, t)
             ELSE IF tok.pod # req.pod THEN Quoting("pod UID mismatch", tok.pod, req.pod)
             ELSE IF Contradicts(req.model, tok.model)
             THEN Quoting("model", tok.model, req.model)
             ELSE IF Contradicts(req.image, tok.image)
             THEN Quoting("image", tok.image, req.image)
             ELSE IF Contradicts(req.policy, tok.policy)
             THEN Quoting("policy", tok.policy, req.policy)
             ELSE None
      BY <1>3, <2>2, <2>4 DEF verifyToken, tok
    <2> QED
      BY <1>1, <2>1, <2>3, <2>5, <2>6 DEF tok
  <1> QED
    BY <1>2, <1>3


-----------------------------------------------------------------------------
\* The gateway.

\* Every answer is that of Evaluate, on the state it is given in.
Answered ==
    answer # None /\ answer.status # 400 =>
        /\ Shown(answer.req, tokens)
        /\ answer.decision = Evaluate(answer.req, tokenPub, now)

GatewayType ==
    /\ now \in Time /\ signingKey \in SigningKey /\ tokenPub \in SigningKey \cup {None}
    /\ tokens \subseteq Token /\ IsFiniteSet(tokens) /\ Cardinality(tokens) <= MaxTokens

AnswerType ==
    answer # None =>
        /\ answer.status \in {200, 400, 403}
        /\ answer.status # 400 => answer.keyRef # None <=> answer.decision.allowed

GatewayInv == GatewayType /\ AnswerType /\ Answered

LEMMA MintedType ==
    ASSUME GatewayType, NEW w \in Workload, NEW p \in Placement, Mint(w, p)
    PROVE  GatewayType'
  <1> DEFINE tok == [pod |-> w.uid, image |-> w.image, model |-> w.model,
                     specHash |-> p.specHash, node |-> p.node,
                     evidenceHash |-> p.evidenceHash, policy |-> p.policy,
                     expires |-> now + TTL, signer |-> signingKey]
  <1>1. tok \in Token
    <2>1. w \in [uid : UID, image : Image, model : Model \cup {None}]
      BY KeyGatewayConstants
    <2>2. now + TTL \in Nat /\ p.policy \in PolicyHash \cup {None}
      BY KeyGatewayConstants DEF GatewayType, Time
    <2> QED
      BY <2>1, <2>2 DEF Token, GatewayType
  <1>2. tokens' = tokens \cup {tok} /\ Cardinality(tokens) < MaxTokens
    BY DEF Mint
  <1> HIDE DEF tok
  <1>3. IsFiniteSet(tokens) /\ Cardinality(tokens) \in Nat
    BY FS_CardinalityType DEF GatewayType
  <1>4. /\ IsFiniteSet(tokens')
        /\ Cardinality(tokens') \in {Cardinality(tokens), Cardinality(tokens) + 1}
    BY <1>2, <1>3, FS_AddElement
  <1>5. Cardinality(tokens') <= MaxTokens
    BY <1>2, <1>3, <1>4, KeyGatewayConstants
  <1> QED
    BY <1>1, <1>2, <1>4, <1>5 DEF GatewayType, Mint

\* The one action that answers.
LEMMA HandleAnswers ==
    ASSUME GatewayType, NEW req, req = None \/ Shown(req, tokens), handleKeyRelease(req)
    PROVE  GatewayInv'
  <1>1. GatewayType' /\ tokens' = tokens /\ tokenPub' = tokenPub /\ now' = now
    BY DEF handleKeyRelease, GatewayType
  <1>2. CASE req = None
    <2>1. answer' = [req |-> req, status |-> 400]
      BY <1>2 DEF handleKeyRelease
    <2> QED
      BY <1>1, <2>1 DEF GatewayInv, AnswerType, Answered
  <1>3. CASE req # None
    <2> DEFINE decision == Evaluate(req, tokenPub, now)
               ref == IF decision.allowed THEN KeyRef(req.keyID) ELSE None
    <2>1. answer' = [req |-> req, status |-> IF decision.allowed THEN 200 ELSE 403,
                     decision |-> decision, keyRef |-> ref]
      BY <1>3 DEF handleKeyRelease
    <2>2. KeyRef(req.keyID) # None
      BY <1>3, NoneIsNoAnswer DEF KeyRef, Shown
    <2>3. now \in Int
      BY KeyGatewayConstants DEF GatewayType, Time
    <2>4. decision.allowed \in BOOLEAN
      BY <1>3, <2>3, EvaluateGrants
    <2> HIDE DEF decision
    <2>5. AnswerType'
      BY <2>1, <2>2, <2>4 DEF AnswerType
    <2>6. Answered'
      BY <1>1, <1>3, <2>1 DEF Answered, decision
    <2> QED
      BY <1>1, <2>5, <2>6 DEF GatewayInv
  <1> QED
    BY <1>2, <1>3

LEMMA GatewayStep == GatewayInv /\ [Next]_vars => GatewayInv'
  <1> SUFFICES ASSUME GatewayInv, [Next]_vars PROVE GatewayInv'
    OBVIOUS
  <1>1. ASSUME GatewayType', answer' = None PROVE GatewayInv'
    BY <1>1 DEF GatewayInv, AnswerType, Answered
  <1>2. ASSUME NEW w \in Workload, NEW p \in Placement, Mint(w, p) PROVE GatewayInv'
    BY <1>1, <1>2, MintedType DEF Mint, GatewayInv
  <1>3. CASE loadOrGenerateSigningKey
    <2>1. signingKey' \in SigningKey
      BY <1>3, KeyGatewayConstants
      DEF loadOrGenerateSigningKey, GatewayInv, GatewayType, SigningKey
    <2> QED
      BY <1>1, <1>3, <2>1 DEF loadOrGenerateSigningKey, GatewayInv, GatewayType
  <1>4. ASSUME NEW pub \in 1 .. signingKey \cup {None}, StartGateway(pub) PROVE GatewayInv'
    <2>1. pub \in SigningKey \cup {None}
      BY <1>4, KeyGatewayConstants DEF GatewayInv, GatewayType, SigningKey
    <2> QED
      BY <1>1, <1>4, <2>1 DEF StartGateway, GatewayInv, GatewayType
  <1>5. CASE Tick
    <2>1. now' \in Time
      BY <1>5, KeyGatewayConstants DEF Tick, GatewayInv, GatewayType, Time
    <2> QED
      BY <1>1, <1>5, <2>1 DEF Tick, GatewayInv, GatewayType
  <1>6. CASE UNCHANGED vars
    BY <1>6 DEF vars, GatewayInv, GatewayType, AnswerType, Answered
  <1> QED
    BY <1>2, <1>3, <1>4, <1>5, <1>6, HandleAnswers, RequestShown DEF Next, GatewayInv

LEMMA GatewayInvariant == Spec => []GatewayInv
  <1>1. Init => GatewayInv
    BY FS_EmptySet, KeyGatewayConstants
    DEF Init, GatewayInv, GatewayType, AnswerType, Answered, Time, SigningKey
  <1> QED
    BY <1>1, GatewayStep, PTL DEF Spec


\* The gateway's state and its answers keep their shape, and an answer refers to a key
\* exactly when it allows.
THEOREM TypeCorrect == Spec => []TypeOK
  <1>1. GatewayInv => TypeOK
    <2> SUFFICES ASSUME GatewayInv PROVE TypeOK
      OBVIOUS
    <2>1. ASSUME Evaluated
          PROVE  /\ answer.decision.reason \in Reason
                 /\ answer.keyRef # None <=> answer.decision.allowed
                 /\ answer.decision.reason \in {"ALLOWED", "POLICY_NOT_REQUIRED"}
                       <=> answer.decision.allowed
      <3>1. now \in Int
        BY KeyGatewayConstants DEF GatewayInv, GatewayType, Time
      <3> QED
        BY <2>1, <3>1, EvaluateGrants DEF GatewayInv, AnswerType, Answered, Evaluated
    <2> QED
      BY <2>1 DEF TypeOK, GatewayInv, GatewayType, AnswerType
  <1> QED
    BY <1>1, GatewayInvariant, PTL

\* What an evaluated answer says of its request.
LEMMA AnswerGrants ==
    ASSUME GatewayInv, Evaluated
    PROVE  /\ Shown(answer.req, tokens) /\ now \in Int /\ tokens \in SUBSET Token
           /\ answer.decision.allowed <=> Granted(answer.req, tokenPub, now)
  <1>1. now \in Int
    BY KeyGatewayConstants DEF GatewayInv, GatewayType, Time
  <1> QED
    BY <1>1, EvaluateGrants DEF GatewayInv, GatewayType, Answered, Evaluated

\* A gateway with a public key releases a key on a token only if the scheduler minted
\* the token with that key, for this pod, at most its lifetime ago.
THEOREM KeysReleasedOnGenuineTokens == Spec => []ReleasedOnGenuineToken
  <1>1. GatewayInv => ReleasedOnGenuineToken
    <2> SUFFICES ASSUME GatewayInv, Released, answer.req.required
                 PROVE  /\ EvidenceGood(answer.req, now)
                        /\ answer.req.token # None /\ tokenPub # None =>
                              Genuine(answer.req, tokenPub, now)
      BY DEF ReleasedOnGenuineToken
    <2>1. /\ EvidenceGood(answer.req, now)
          /\ answer.req.token # None => verifyToken(answer.req, tokenPub, now) = None
      BY AnswerGrants DEF Released, Granted
    <2>2. ASSUME answer.req.token # None, tokenPub # None
          PROVE  Genuine(answer.req, tokenPub, now)
      <3>1. tokenPub \in SigningKey
        BY <2>2 DEF GatewayInv, GatewayType
      <3> QED
        BY <2>1, <2>2, <3>1, AnswerGrants, TokenAccepted DEF Released, Genuine
    <2> QED
      BY <2>1, <2>2
  <1> QED
    BY <1>1, GatewayInvariant, PTL

\* With good evidence, a genuine token is never refused.
THEOREM GenuineTokensHonoured == Spec => []GenuineTokenHonoured
  <1>1. GatewayInv => GenuineTokenHonoured
    <2> SUFFICES ASSUME GatewayInv, Evaluated, EvidenceGood(answer.req, now),
                        answer.req.token \in tokens, Genuine(answer.req, tokenPub, now)
                 PROVE  answer.decision.allowed
      BY DEF GenuineTokenHonoured
    <2>1. answer.req.token \in Token /\ answer.req.token # None
      BY NoneIsNoAnswer DEF GatewayInv, GatewayType
    <2>2. tokenPub \in SigningKey
      BY <2>1 DEF Genuine, Token
    <2>3. verifyToken(answer.req, tokenPub, now) = None
      BY <2>1, <2>2, AnswerGrants, TokenAccepted DEF Genuine
    <2> QED
      BY <2>3, AnswerGrants DEF Granted
  <1> QED
    BY <1>1, GatewayInvariant, PTL

\* Whatever token the gateway releases a key on, verify-placement accepts as well.
THEOREM OfflineVerifierAgrees == Spec => []OfflineAgrees
  <1>1. GatewayInv => OfflineAgrees
    <2> DEFINE req == answer.req
               tok == answer.req.token
               policy == IF tok.policy = None THEN None ELSE req.policy
               expected == [specHash |-> None, node |-> None, evidenceHash |-> None,
                            policy |-> policy]
    <2> SUFFICES ASSUME GatewayInv, Released, req.required, tok # None, tokenPub # None,
                        NEW uid \in {req.pod, None}
                 PROVE  verifyPlacement(tokenPub, tok, uid, expected, now)
      BY DEF OfflineAgrees
    <2>1. tokenPub \in SigningKey /\ Shown(req, tokens) /\ now \in Int
      BY AnswerGrants DEF GatewayInv, GatewayType, Released
    <2>2. verifyToken(req, tokenPub, now) = None
      BY AnswerGrants DEF Released, Granted
    <2>3. /\ tok \in tokens /\ tok.signer = tokenPub /\ now <= tok.expires
          /\ tok.pod = req.pod /\ ~Contradicts(req.policy, tok.policy)
      BY <2>1, <2>2, AnswerGrants, TokenAccepted DEF Released
    <2>4. tok \in Token /\ tok \notin Garbled \cup {None} /\ tok.expires \in Int
      BY <2>3, NoneIsNoAnswer DEF GatewayInv, GatewayType, Token
    <2>5. Verify(tokenPub, tok, now) = None
      BY <2>1, <2>3, <2>4 DEF Verify
    <2>6. \A f \in DOMAIN expected : expected[f] # None => tok[f] = expected[f]
      <3>1. policy # None => tok.policy = policy
        BY <2>3 DEF Contradicts
      <3> HIDE DEF policy, tok
      <3> QED
        BY <3>1
    <2> HIDE DEF tok, expected, req
    <2> QED
      BY <2>3, <2>4, <2>5, <2>6 DEF verifyPlacement, VerifyForPod
  <1> QED
    BY <1>1, GatewayInvariant, PTL

-----------------------------------------------------------------------------
(***************************************************************************)
(* KeyReleasePolicy: the reconciler of key release policies.               *)
(***************************************************************************)

WorkerType == [at : {"idle", "evidence", "write"}, on : Policy \cup {None},
               read : PolicyObject \cup {None}, stale : BOOLEAN,
               ev : EvidenceState \cup {None}]

\* What one stored policy is like.
StatusBehindSpec(policy) ==
    /\ policy.observed <= policy.generation
    /\ policy.lastDecision = None <=> policy.lastDecisionTime = None

\* The copy the worker holds is the stored policy until somebody writes that ...
CopyCurrent ==
    worker.at # "idle" /\ ~worker.stale => policies[worker.on] = worker.read

\* ... evidence that is good now counts for the policies that refer to it ...
GoodCounted == \A k \in Policy : RefGood(policies[k], evidence) => wasGood[k]

\* ... and so does evidence the worker has read, unless the spec was written since.
ReadCounted ==
    worker.at = "write" /\ ~worker.stale /\ worker.read.evidenceRef # None /\ Good(worker.ev)
        => wasGood[worker.on]

\* A policy without a reference is judged on unverified evidence.
NoRefUnverified ==
    worker.at = "write" /\ worker.read.evidenceRef = None => ~worker.ev.verified

EarnedInv == CopyCurrent /\ GoodCounted /\ ReadCounted /\ NoRefUnverified /\ AllowWasEarned


-----------------------------------------------------------------------------
\* Types.

\* What PolicyTypeOK says of the worker and of the policies.
LEMMA TypeParts ==
    ASSUME PolicyTypeOK
    PROVE  /\ clock \in 0 .. MaxClock /\ clock \in Nat /\ edits \in 0 .. MaxEdits
           /\ policies \in [Policy -> PolicyObject \cup {None}]
           /\ evidence \in [Evidence -> EvidenceState \cup {None}]
           /\ queue \subseteq Policy /\ wasGood \in [Policy -> BOOLEAN]
           /\ worker \in WorkerType
           /\ worker.at # "idle" => worker.on \in Policy /\ worker.read \in PolicyObject
           /\ worker.at = "write" => worker.ev \in EvidenceState
           /\ \A k \in Policy : policies[k] # None => StatusBehindSpec(policies[k])
  <1>1. clock \in Nat
    BY KeyReleasePolicyConstants DEF PolicyTypeOK
  <1>2. worker \in WorkerType
    BY DEF PolicyTypeOK, WorkerType
  <1>3. worker.at # "idle" => worker.on \in Policy /\ worker.read \in PolicyObject
    BY <1>2 DEF PolicyTypeOK, WorkerType
  <1>4. worker.at = "write" => worker.ev \in EvidenceState
    BY <1>2 DEF PolicyTypeOK, WorkerType
  <1> QED
    BY <1>1, <1>2, <1>3, <1>4 DEF PolicyTypeOK, StatusBehindSpec

LEMMA IdleType == Idle \in WorkerType /\ Idle.at = "idle"
  BY DEF Idle, WorkerType

LEMMA CountType == ASSUME PolicyTypeOK, Count PROVE edits' \in 0 .. MaxEdits
  BY KeyReleasePolicyConstants DEF PolicyTypeOK, Count

LEMMA GoodType ==
    ASSUME NEW policy \in PolicyObject \cup {None},
           NEW ev \in [Evidence -> EvidenceState \cup {None}]
    PROVE  RefGood(policy, ev) \in BOOLEAN
  <1>1. ASSUME NEW e \in Evidence PROVE Good(ev[e]) \in BOOLEAN
    BY <1>1, Zenon DEF Good
  <1> QED
    BY Zenon DEF RefGood

\* The status of a policy that was read.
LEMMA StatusType ==
    ASSUME PolicyTypeOK, NEW policy \in PolicyObject
    PROVE  /\ StatusOf(policy) \in PolicyObject /\ StatusBehindSpec(StatusOf(policy))
           /\ StatusOf(policy).observed = StatusOf(policy).generation
           /\ StatusOf(policy).evidenceRef = policy.evidenceRef
           /\ StatusOf(policy).required = policy.required
           /\ StatusOf(policy).ttl = policy.ttl
           /\ StatusOf(policy).lastDecision = "allow" <=> Decide(policy, worker.ev)
  <1>1. PICK verdict \in {"allow", "deny"} :
           verdict = (IF Decide(policy, worker.ev) THEN "allow" ELSE "deny")
    BY Zenon
  <1>2. StatusOf(policy) = [policy EXCEPT !.observed = policy.generation,
                               !.lastDecision = verdict, !.lastDecisionTime = clock]
    BY <1>1 DEF StatusOf
  <1>3. verdict = "allow" <=> Decide(policy, worker.ev)
    BY <1>1
  <1>4. clock \in 0 .. MaxClock /\ clock # None /\ verdict # None
    BY <1>1, TypeParts, KeyReleasePolicyConstants, NoneIsNoObject
  <1>5. /\ StatusOf(policy) \in PolicyObject
        /\ StatusOf(policy).observed = policy.generation
        /\ StatusOf(policy).generation = policy.generation /\ policy.generation \in Nat
        /\ StatusOf(policy).evidenceRef = policy.evidenceRef
        /\ StatusOf(policy).required = policy.required
        /\ StatusOf(policy).ttl = policy.ttl
        /\ StatusOf(policy).lastDecision = verdict
        /\ StatusOf(policy).lastDecisionTime = clock
    BY <1>2, <1>4, Zenon DEF PolicyObject
  <1> QED
    BY <1>3, <1>4, <1>5 DEF StatusBehindSpec

\* PolicyTypeOK from its parts, for the steps that write at most one policy.
LEMMA TypeFrom ==
    ASSUME PolicyTypeOK, clock' \in 0 .. MaxClock, edits' \in 0 .. MaxEdits,
           evidence' \in [Evidence -> EvidenceState \cup {None}],
           queue' \subseteq Policy, wasGood' \in [Policy -> BOOLEAN], worker' \in WorkerType,
           worker'.at # "idle" => worker'.on # None /\ worker'.read # None,
           worker'.at = "write" => worker'.ev # None,
           \/ policies' = policies
           \/ \E k \in Policy, new \in PolicyObject \cup {None} :
                 /\ policies' = [policies EXCEPT ![k] = new]
                 /\ new # None => StatusBehindSpec(new)
    PROVE  PolicyTypeOK'
  <1>1. policies' \in [Policy -> PolicyObject \cup {None}]
    BY DEF PolicyTypeOK
  <1>2. \A k \in Policy : policies'[k] # None => StatusBehindSpec(policies'[k])
    BY DEF PolicyTypeOK, StatusBehindSpec
  <1> QED
    BY <1>1, <1>2 DEF PolicyTypeOK, WorkerType, StatusBehindSpec

LEMMA ReconcileTypes == ASSUME PolicyTypeOK, Reconcile PROVE PolicyTypeOK'
  <1> USE TypeParts
  <1>1. ASSUME NEW k \in Policy, Get(k) PROVE PolicyTypeOK'
    <2>1. CASE policies[k] = None
      BY <1>1, <2>1, IdleType, TypeFrom DEF Get
    <2>2. CASE policies[k] # None
      <3>1. worker' = [Idle EXCEPT !.at = "evidence", !.on = k, !.read = policies[k]]
        BY <1>1, <2>2 DEF Get
      <3>2. /\ worker' \in WorkerType /\ worker'.at = "evidence"
            /\ worker'.on # None /\ worker'.read # None
        BY <2>2, <3>1, KeyReleasePolicyConstants, Zenon DEF Idle, WorkerType
      <3> QED
        BY <1>1, <3>2, TypeFrom DEF Get
    <2> QED
      BY <2>1, <2>2
  <1>2. CASE resolveEvidenceState
    <2> DEFINE ref == worker.read.evidenceRef
    <2>1. /\ worker.on \in Policy /\ worker.on # None /\ worker.read \in PolicyObject
          /\ worker.read # None /\ ref \in Evidence \cup {None}
      BY <1>2, KeyReleasePolicyConstants, NoneIsNoObject
      DEF resolveEvidenceState, PolicyObject
    <2>2. CASE ref # None /\ evidence[ref] = None
      BY <1>2, <2>1, <2>2, IdleType, TypeFrom DEF resolveEvidenceState
    <2>3. CASE ~(ref # None /\ evidence[ref] = None)
      <3>1. PICK ev \in EvidenceState : worker' = [worker EXCEPT !.at = "write", !.ev = ev]
        BY <1>2, <2>1, <2>3, Zenon DEF resolveEvidenceState, EvidenceState
      <3>2. worker' \in WorkerType /\ worker'.on = worker.on /\ worker'.read = worker.read
            /\ worker'.ev # None
        BY <3>1, NoneIsNoObject, Zenon DEF WorkerType
      <3> QED
        BY <1>2, <2>1, <2>3, <3>2, TypeFrom DEF resolveEvidenceState
    <2> QED
      BY <2>2, <2>3
  <1>3. CASE UpdateStatus
    <2>1. worker.on \in Policy /\ worker.read \in PolicyObject
      BY <1>3 DEF UpdateStatus
    <2>2. /\ worker' = Idle /\ UNCHANGED <<clock, evidence, edits, wasGood>>
          /\ queue' \subseteq Policy
          /\ \/ policies' = policies
             \/ policies' = [policies EXCEPT ![worker.on] = StatusOf(worker.read)]
      BY <1>3, <2>1 DEF UpdateStatus
    <2> QED
      BY <2>1, <2>2, StatusType, IdleType, TypeFrom
  <1>4. CASE CallFails
    <2>1. worker.on \in Policy
      BY <1>4 DEF CallFails
    <2> QED
      BY <1>4, <2>1, CountType, IdleType, TypeFrom DEF CallFails
  <1> QED
    BY <1>1, <1>2, <1>3, <1>4 DEF Reconcile


\* What a write of a policy by a user does.
LEMMA PolicyWritten ==
    ASSUME PolicyTypeOK, NEW k \in Policy, NEW new \in PolicyObject \cup {None}, WritePolicy(k, new),
           new # None => StatusBehindSpec(new)
    PROVE  /\ PolicyTypeOK'
           /\ worker'.at = worker.at /\ worker'.on = worker.on
           /\ worker'.read = worker.read /\ worker'.ev = worker.ev
           /\ worker'.stale <=> worker.stale \/ worker.on = k
  <1> USE TypeParts
  <1>1. PICK stale \in BOOLEAN : stale = (worker.stale \/ worker.on = k)
    BY Zenon
  <1>2. worker' = [worker EXCEPT !.stale = stale]
    BY <1>1 DEF WritePolicy
  <1>3. /\ worker' \in WorkerType /\ worker'.stale = stale
        /\ worker'.at = worker.at /\ worker'.on = worker.on
        /\ worker'.read = worker.read /\ worker'.ev = worker.ev
    BY <1>2 DEF WorkerType
  <1>4. wasGood' \in [Policy -> BOOLEAN]
    BY GoodType DEF WritePolicy
  <1>5. /\ worker.at # "idle" => worker.on # None /\ worker.read # None
        /\ worker.at = "write" => worker.ev # None
    BY DEF PolicyTypeOK
  <1>6. edits' \in 0 .. MaxEdits
    BY CountType DEF WritePolicy
  <1>7. PolicyTypeOK'
    BY <1>3, <1>4, <1>5, <1>6, TypeFrom, Zenon DEF WritePolicy
  <1> QED
    BY <1>1, <1>3, <1>7, Zenon

\* The policies users write are such, and never have a decision of their new spec.
Undecided(new) == new # None => new.observed < new.generation

LEMMA UsersWrite ==
    ASSUME PolicyTypeOK, NEW k \in Policy, NEW ref \in Evidence \cup {None}, NEW required \in BOOLEAN,
           NEW ttl \in TTLs,
           CreatePolicy(k, ref, required, ttl) \/ EditPolicy(k, ref, required, ttl) \/ DeletePolicy(k)
    PROVE  \E new \in PolicyObject \cup {None} :
              /\ WritePolicy(k, new) /\ Undecided(new)
              /\ new # None => StatusBehindSpec(new)
  <1>1. CASE CreatePolicy(k, ref, required, ttl)
    <2> DEFINE new == [evidenceRef |-> ref, required |-> required, ttl |-> ttl,
                       generation |-> 1, observed |-> 0, lastDecision |-> None,
                       lastDecisionTime |-> None]
    <2>1. new \in PolicyObject /\ StatusBehindSpec(new) /\ Undecided(new)
      BY DEF PolicyObject, StatusBehindSpec, Undecided
    <2> QED
      BY <1>1, <2>1 DEF CreatePolicy
  <1>2. CASE EditPolicy(k, ref, required, ttl)
    <2> DEFINE old == policies[k]
               new == [old EXCEPT !.evidenceRef = ref, !.required = required,
                                  !.ttl = ttl, !.generation = @ + 1]
    <2>1. old \in PolicyObject /\ StatusBehindSpec(old)
      BY <1>2, TypeParts DEF EditPolicy
    <2>2. /\ new \in PolicyObject /\ new.generation = old.generation + 1
          /\ new.observed = old.observed /\ new.lastDecision = old.lastDecision
          /\ new.lastDecisionTime = old.lastDecisionTime
          /\ old.generation \in Nat /\ old.observed \in Nat
      <3> HIDE DEF old
      <3>1. old.generation \in Nat /\ old.observed \in Nat
        BY <2>1 DEF PolicyObject
      <3>2. PICK g \in Nat \ {0} : g = old.generation + 1
        BY <3>1
      <3>3. new = [old EXCEPT !.evidenceRef = ref, !.required = required,
                              !.ttl = ttl, !.generation = g]
        BY <3>2
      <3> HIDE DEF new
      <3> QED
        BY <2>1, <3>1, <3>2, <3>3, Zenon DEF PolicyObject
    <2>3. WritePolicy(k, new)
      BY <1>2 DEF EditPolicy
    <2> HIDE DEF new, old
    <2>4. StatusBehindSpec(new) /\ Undecided(new)
      BY <2>1, <2>2 DEF StatusBehindSpec, Undecided
    <2> QED
      BY <2>2, <2>3, <2>4
  <1>3. CASE DeletePolicy(k)
    BY <1>3 DEF DeletePolicy, Undecided
  <1> QED
    BY <1>1, <1>2, <1>3

LEMMA OthersTypes == ASSUME PolicyTypeOK, Others PROVE PolicyTypeOK'
  <1> USE TypeParts
  <1>1. ASSUME NEW k \in Policy, NEW ref \in Evidence \cup {None}, NEW required \in BOOLEAN,
               NEW ttl \in TTLs,
               CreatePolicy(k, ref, required, ttl) \/ EditPolicy(k, ref, required, ttl)
        PROVE  PolicyTypeOK'
    BY <1>1, UsersWrite, PolicyWritten
  <1>2. ASSUME NEW k \in Policy, DeletePolicy(k) PROVE PolicyTypeOK'
    BY <1>2, PolicyWritten DEF DeletePolicy
  <1>3. ASSUME NEW e \in Evidence, NEW ev \in EvidenceState \cup {None}, WriteEvidence(e, ev)
        PROVE  PolicyTypeOK'
    <2>1. evidence' \in [Evidence -> EvidenceState \cup {None}]
      BY <1>3 DEF WriteEvidence
    <2>2. \A k \in Policy : RefGood(policies[k], evidence') \in BOOLEAN
      BY <2>1, GoodType
    <2>3. wasGood' \in [Policy -> BOOLEAN]
      BY <1>3, <2>2 DEF WriteEvidence
    <2> QED
      BY <1>3, <2>1, <2>3, CountType, TypeFrom DEF WriteEvidence, PolicyTypeOK
  <1>4. CASE Restart
    BY <1>4, CountType, IdleType, TypeFrom DEF Restart
  <1>5. CASE ClockTick
    <2>1. clock' \in 0 .. MaxClock
      BY <1>5, KeyReleasePolicyConstants DEF ClockTick
    <2> QED
      BY <1>5, <2>1, TypeFrom DEF ClockTick, PolicyTypeOK
  <1> QED
    BY <1>1, <1>2, <1>3, <1>4, <1>5, Zenon DEF Others, EvidenceState

LEMMA TypeStep == PolicyTypeOK /\ [PolicyNext]_policyVars => PolicyTypeOK'
  <1>1. ASSUME PolicyTypeOK, UNCHANGED policyVars PROVE PolicyTypeOK'
    BY <1>1 DEF PolicyTypeOK, policyVars
  <1> QED
    BY <1>1, ReconcileTypes, OthersTypes DEF PolicyNext

\* Policies keep the shape of their CRD, no status gets ahead of its spec, and a
\* decision always comes with its time.
THEOREM PolicyTypeCorrect == PolicySpec => []PolicyTypeOK
  <1>1. PolicyInit => PolicyTypeOK
    BY KeyReleasePolicyConstants DEF PolicyInit, PolicyTypeOK, Idle
  <1> QED
    BY <1>1, TypeStep, PTL DEF PolicySpec


-----------------------------------------------------------------------------
\* Every policy is in the queue, with the worker, or has the status of its spec.

LEMMA SettledStep == PolicyTypeOK /\ SettledIsObserved /\ [PolicyNext]_policyVars => SettledIsObserved'
  <1> SUFFICES ASSUME PolicyTypeOK, SettledIsObserved, [PolicyNext]_policyVars PROVE SettledIsObserved'
    OBVIOUS
  <1> USE TypeParts
  <1>1. ASSUME policies' = policies, \A k \in Policy : Settled(k)' /\ policies[k] # None => Settled(k)
        PROVE  SettledIsObserved'
    BY <1>1 DEF SettledIsObserved
  <1>2. ASSUME NEW k \in Policy, Get(k) PROVE SettledIsObserved'
    <2>1. policies[k] # None => worker'.at # "idle" /\ worker'.on = k
      BY <1>2 DEF Get, Idle
    <2> QED
      BY <1>1, <1>2, <2>1 DEF Get, Settled
  <1>3. CASE resolveEvidenceState
    <2>1. worker'.at # "idle" => worker'.on = worker.on
      BY <1>3, IdleType, Zenon DEF resolveEvidenceState, WorkerType
    <2>2. worker'.at = "idle" => worker.on \in queue'
      BY <1>3, Zenon DEF resolveEvidenceState, WorkerType
    <2> QED
      BY <1>1, <1>3, <2>1, <2>2 DEF resolveEvidenceState, Settled
  <1>4. CASE UpdateStatus
    <2>1. worker.on \in Policy /\ worker.read \in PolicyObject /\ worker'.at = "idle"
      BY <1>4, IdleType DEF UpdateStatus
    <2>2. CASE worker.stale \/ policies[worker.on] = None
      BY <1>1, <1>4, <2>1, <2>2 DEF UpdateStatus, Settled
    <2>3. CASE ~(worker.stale \/ policies[worker.on] = None)
      <3>1. /\ policies' = [policies EXCEPT ![worker.on] = StatusOf(worker.read)]
            /\ queue \subseteq queue'
        BY <1>4, <2>3 DEF UpdateStatus
      <3>2. policies'[worker.on].observed = policies'[worker.on].generation
        BY <2>1, <3>1, StatusType
      <3>3. ASSUME NEW k \in Policy, k # worker.on, Settled(k)'
            PROVE  Settled(k) /\ policies'[k] = policies[k]
        BY <3>1, <3>3 DEF Settled
      <3> QED
        BY <3>2, <3>3 DEF SettledIsObserved
    <2> QED
      BY <2>2, <2>3
  <1>5. CASE CallFails
    BY <1>1, <1>5, IdleType DEF CallFails, Settled
  <1>6. ASSUME NEW k \in Policy, NEW new \in PolicyObject \cup {None}, WritePolicy(k, new),
               new # None => StatusBehindSpec(new)
        PROVE  SettledIsObserved'
    <2>1. ASSUME NEW j \in Policy, Settled(j)' PROVE Settled(j) /\ policies'[j] = policies[j]
      <3>1. j \notin queue' /\ j # k
        BY <1>6, <2>1 DEF WritePolicy, Settled
      <3>2. policies'[j] = policies[j] /\ j \notin queue
        BY <1>6, <3>1 DEF WritePolicy
      <3> QED
        BY <1>6, <2>1, <3>2, PolicyWritten DEF Settled
    <2> QED
      BY <2>1 DEF SettledIsObserved
  <1>7. ASSUME NEW e \in Evidence, NEW ev \in EvidenceState \cup {None}, WriteEvidence(e, ev)
        PROVE  SettledIsObserved'
    BY <1>1, <1>7 DEF WriteEvidence, Settled
  <1>8. CASE Restart
    BY <1>1, <1>8 DEF Restart, Settled
  <1>9. CASE ClockTick \/ UNCHANGED policyVars
    BY <1>1, <1>9 DEF ClockTick, policyVars, Settled
  <1>10. ASSUME NEW k \in Policy, DeletePolicy(k) PROVE SettledIsObserved'
    BY <1>6, <1>10 DEF DeletePolicy
  <1>11. ASSUME NEW k \in Policy, NEW ref \in Evidence \cup {None}, NEW required \in BOOLEAN,
                NEW ttl \in TTLs,
                CreatePolicy(k, ref, required, ttl) \/ EditPolicy(k, ref, required, ttl)
         PROVE  SettledIsObserved'
    BY <1>6, <1>11, UsersWrite
  <1>12. CASE Reconcile
    BY <1>2, <1>3, <1>4, <1>5, <1>12 DEF Reconcile
  <1>13. CASE Others
    BY <1>7, <1>8, <1>9, <1>10, <1>11, <1>13 DEF Others, EvidenceState
  <1> QED
    BY <1>9, <1>12, <1>13 DEF PolicyNext

\* When the reconciler is through with a policy, its status is that of its current spec,
\* whatever edits, conflicts, failures and restarts there were.
THEOREM SettledStatusObserved == PolicySpec => []SettledIsObserved
  <1>1. PolicyInit => SettledIsObserved
    BY DEF PolicyInit, SettledIsObserved
  <1> QED
    BY <1>1, SettledStep, PolicyTypeCorrect, PTL DEF PolicySpec

-----------------------------------------------------------------------------
\* A required release is allowed only on good evidence and with a positive TTL.
LEMMA DecideEarned ==
    ASSUME NEW policy \in PolicyObject, NEW ev \in EvidenceState, policy.required,
           Decide(policy, ev)
    PROVE  Good(ev) /\ policy.ttl > 0
  <1>1. policy.ttl \in Int /\ ev # None
    BY KeyReleasePolicyConstants, NoneIsNoObject, Zenon DEF PolicyObject
  <1>2. ~(policy.ttl <= 0) /\ ev.verified /\ ~ev.revoked
    BY DEF Decide, Evaluate, deny
  <1> QED
    BY <1>1, <1>2 DEF Good

LEMMA UpdateEarns == ASSUME PolicyTypeOK, EarnedInv, UpdateStatus PROVE EarnedInv'
  <1> USE TypeParts
  <1> DEFINE k == worker.on
  <1>1. /\ k \in Policy /\ worker.read \in PolicyObject /\ worker.ev \in EvidenceState
        /\ worker.at = "write" /\ worker'.at = "idle"
        /\ evidence' = evidence /\ wasGood' = wasGood
    BY IdleType DEF UpdateStatus
  <1>2. CopyCurrent' /\ ReadCounted' /\ NoRefUnverified'
    BY <1>1 DEF CopyCurrent, ReadCounted, NoRefUnverified
  <1>3. CASE policies' = policies
    BY <1>1, <1>2, <1>3 DEF EarnedInv, GoodCounted, AllowWasEarned
  <1>4. CASE /\ ~worker.stale
             /\ policies' = [policies EXCEPT ![k] = StatusOf(worker.read)]
    <2>1. policies[k] = worker.read /\ policies'[k] = StatusOf(worker.read)
      BY <1>1, <1>4 DEF EarnedInv, CopyCurrent
    <2>2. \A j \in Policy : j # k => policies'[j] = policies[j]
      BY <1>4
    <2>3. policies[k] # None /\ policies'[k].evidenceRef = policies[k].evidenceRef
      BY <1>1, <2>1, StatusType, NoneIsNoObject
    <2>4. GoodCounted'
      <3>1. RefGood(policies'[k], evidence) => RefGood(policies[k], evidence)
        BY <2>3 DEF RefGood
      <3> QED
        BY <1>1, <2>2, <3>1 DEF EarnedInv, GoodCounted
    <2>5. ASSUME policies'[k].required, policies'[k].lastDecision = "allow"
          PROVE  wasGood[k] /\ policies'[k].ttl > 0
      <3>1. Good(worker.ev) /\ worker.read.ttl > 0
        BY <1>1, <2>1, <2>5, StatusType, DecideEarned
      <3>2. worker.read.evidenceRef # None
        BY <1>1, <3>1 DEF Good, EarnedInv, NoRefUnverified
      <3> QED
        BY <1>1, <1>4, <2>1, <3>1, <3>2, StatusType DEF EarnedInv, ReadCounted
    <2>6. AllowWasEarned'
      BY <1>1, <2>2, <2>5 DEF EarnedInv, AllowWasEarned
    <2> QED
      BY <1>2, <2>4, <2>6 DEF EarnedInv
  <1> QED
    BY <1>3, <1>4 DEF UpdateStatus


\* A write of the spec makes the worker's copy stale, and starts over.
LEMMA WriteEarns ==
    ASSUME PolicyTypeOK, EarnedInv, NEW k \in Policy, NEW new \in PolicyObject \cup {None},
           WritePolicy(k, new), Undecided(new), new # None => StatusBehindSpec(new)
    PROVE  EarnedInv'
  <1> USE TypeParts
  <1>1. /\ worker'.at = worker.at /\ worker'.on = worker.on
        /\ worker'.read = worker.read /\ worker'.ev = worker.ev
        /\ ~worker'.stale => ~worker.stale /\ worker.on # k
    BY PolicyWritten
  <1>2. /\ policies'[k] = new /\ evidence' = evidence
        /\ wasGood'[k] = RefGood(new, evidence)
        /\ \A j \in Policy : j # k => policies'[j] = policies[j] /\ wasGood'[j] = wasGood[j]
    BY DEF WritePolicy
  <1>3. CopyCurrent'
    BY <1>1, <1>2 DEF EarnedInv, CopyCurrent
  <1>4. GoodCounted'
    <2>1. ASSUME NEW j \in Policy, RefGood(policies'[j], evidence) PROVE wasGood'[j]
      <3>1. CASE j = k
        BY <1>2, <2>1, <3>1
      <3>2. CASE j # k
        BY <1>2, <2>1, <3>2 DEF EarnedInv, GoodCounted
      <3> QED
        BY <3>1, <3>2
    <2> QED
      BY <1>2, <2>1 DEF GoodCounted
  <1>5. ReadCounted' /\ NoRefUnverified'
    BY <1>1, <1>2 DEF EarnedInv, ReadCounted, NoRefUnverified
  <1>6. AllowWasEarned'
    <2>1. new # None => new.observed # new.generation
      BY DEF Undecided, PolicyObject
    <2> QED
      BY <1>2, <2>1 DEF EarnedInv, AllowWasEarned
  <1> QED
    BY <1>3, <1>4, <1>5, <1>6 DEF EarnedInv

LEMMA EarnedStep == PolicyTypeOK /\ EarnedInv /\ [PolicyNext]_policyVars => EarnedInv'
  <1> SUFFICES ASSUME PolicyTypeOK, EarnedInv, [PolicyNext]_policyVars PROVE EarnedInv'
    OBVIOUS
  <1> USE TypeParts
  <1>1. ASSUME UNCHANGED <<policies, evidence, wasGood>>, worker'.at = "idle" PROVE EarnedInv'
    BY <1>1
    DEF EarnedInv, CopyCurrent, GoodCounted, ReadCounted, NoRefUnverified, AllowWasEarned
  <1>2. ASSUME NEW k \in Policy, Get(k) PROVE EarnedInv'
    <2>1. CASE policies[k] = None
      BY <1>1, <1>2, <2>1, IdleType DEF Get
    <2>2. CASE policies[k] # None
      <3>1. /\ worker'.at = "evidence" /\ worker'.on = k /\ worker'.read = policies[k]
            /\ UNCHANGED <<policies, evidence, wasGood>>
        BY <1>2, <2>2 DEF Get, Idle
      <3> QED
        BY <3>1
        DEF EarnedInv, CopyCurrent, GoodCounted, ReadCounted, NoRefUnverified, AllowWasEarned
    <2> QED
      BY <2>1, <2>2
  <1>3. CASE resolveEvidenceState
    <2> DEFINE ref == worker.read.evidenceRef
    <2>1. /\ worker.on \in Policy /\ worker.read \in PolicyObject /\ worker.read # None
          /\ ref \in Evidence \cup {None} /\ UNCHANGED <<policies, evidence, wasGood>>
      BY <1>3, NoneIsNoObject DEF resolveEvidenceState, PolicyObject
    <2>2. CASE ref # None /\ evidence[ref] = None
      BY <1>1, <1>3, <2>2, IdleType DEF resolveEvidenceState
    <2>3. CASE ~(ref # None /\ evidence[ref] = None)
      <3>1. PICK ev \in EvidenceState :
               /\ worker' = [worker EXCEPT !.at = "write", !.ev = ev]
               /\ ref = None => ~ev.verified
               /\ ref # None => ev = evidence[ref]
        BY <1>3, <2>1, <2>3, Zenon DEF resolveEvidenceState, EvidenceState
      <3>2. /\ worker'.on = worker.on /\ worker'.read = worker.read
            /\ worker'.stale = worker.stale /\ worker'.ev = ev /\ worker'.at = "write"
        BY <3>1 DEF WorkerType
      <3>3. CopyCurrent'
        BY <1>3, <2>1, <3>2 DEF EarnedInv, CopyCurrent, resolveEvidenceState
      <3>4. ReadCounted'
        <4> SUFFICES ASSUME ~worker.stale, ref # None, Good(ev) PROVE wasGood[worker.on]
          BY <2>1, <3>2 DEF ReadCounted
        <4>1. policies[worker.on] = worker.read
          BY <1>3 DEF EarnedInv, CopyCurrent, resolveEvidenceState
        <4>2. RefGood(policies[worker.on], evidence)
          BY <2>1, <3>1, <4>1 DEF RefGood
        <4> QED
          BY <2>1, <4>2 DEF EarnedInv, GoodCounted
      <3>5. NoRefUnverified'
        BY <3>1, <3>2 DEF NoRefUnverified
      <3> QED
        BY <2>1, <3>3, <3>4, <3>5 DEF EarnedInv, GoodCounted, AllowWasEarned
    <2> QED
      BY <2>2, <2>3
  <1>4. CASE CallFails \/ Restart
    BY <1>1, <1>4, IdleType DEF CallFails, Restart
  <1>5. ASSUME NEW e \in Evidence, NEW ev \in EvidenceState \cup {None}, WriteEvidence(e, ev)
        PROVE  EarnedInv'
    <2>1. /\ policies' = policies /\ worker' = worker
          /\ \A k \in Policy : /\ wasGood[k] => wasGood'[k]
                               /\ RefGood(policies[k], evidence') => wasGood'[k]
      BY <1>5, Zenon DEF WriteEvidence
    <2> QED
      BY <2>1
      DEF EarnedInv, CopyCurrent, GoodCounted, ReadCounted, NoRefUnverified, AllowWasEarned
  <1>6. CASE ClockTick \/ UNCHANGED policyVars
    <2>1. UNCHANGED <<policies, evidence, wasGood, worker>>
      BY <1>6 DEF ClockTick, policyVars
    <2> QED
      BY <2>1
      DEF EarnedInv, CopyCurrent, GoodCounted, ReadCounted, NoRefUnverified, AllowWasEarned
  <1>7. ASSUME NEW k \in Policy, DeletePolicy(k) PROVE EarnedInv'
    BY <1>7, WriteEarns DEF DeletePolicy, Undecided
  <1>8. ASSUME NEW k \in Policy, NEW ref \in Evidence \cup {None}, NEW required \in BOOLEAN,
               NEW ttl \in TTLs,
               CreatePolicy(k, ref, required, ttl) \/ EditPolicy(k, ref, required, ttl)
        PROVE  EarnedInv'
    <2>1. PICK new \in PolicyObject \cup {None} :
             /\ WritePolicy(k, new) /\ Undecided(new)
             /\ new # None => StatusBehindSpec(new)
      BY <1>8, UsersWrite, Zenon
    <2> QED
      BY <2>1, WriteEarns
  <1>9. CASE Reconcile
    BY <1>2, <1>3, <1>4, <1>9, UpdateEarns DEF Reconcile
  <1>10. CASE Others
    BY <1>4, <1>5, <1>6, <1>7, <1>8, <1>10 DEF Others, EvidenceState
  <1> QED
    BY <1>6, <1>9, <1>10 DEF PolicyNext

\* An "allow" for the current spec of a policy that requires key release was earned
\* under that spec, with evidence that was verified and not revoked at some time since.
THEOREM AllowsEarned == PolicySpec => []AllowWasEarned
  <1>1. PolicyInit => EarnedInv
    BY DEF PolicyInit, Idle, EarnedInv, CopyCurrent, GoodCounted, ReadCounted, NoRefUnverified,
           AllowWasEarned, RefGood
  <1>2. EarnedInv => AllowWasEarned
    BY DEF EarnedInv
  <1> QED
    BY <1>1, <1>2, EarnedStep, PolicyTypeCorrect, PTL DEF PolicySpec

=============================================================================
