----------------------------- MODULE KeyGateway -----------------------------
(***************************************************************************)
(* The key-release-gateway (cmd/key-release-gateway/main.go) with the      *)
(* scheduler that signs the tokens it is shown: the scheduler's signing    *)
(* key comes from its environment or is generated anew at every start      *)
(* (cmd/attestation-scheduler/main.go); the gateway reads one public key   *)
(* when it starts, and verifies with that key until it is restarted.       *)
(***************************************************************************)
EXTENDS KeyRelease, FiniteSets

CONSTANTS
    UID,            \* pod UIDs
    Workload,       \* the pods: records [uid, image, model]
    Image,          \* image references
    Model,          \* model digests
    Placement,      \* what else a token binds: records [specHash, node, evidenceHash, policy]
    PolicyHash,     \* policy hashes
    KeyID,          \* identifiers of the keys asked for
    Stored,         \* those the in-memory store holds
    Inputs,         \* the policy and evidence part of requests
    Ephemeral,      \* SCHEDULER_SIGNING_KEY_HEX is not set
    TTL,            \* tokenTTL
    MaxTime, MaxKeys, MaxTokens     \* bounds

ASSUME KeyGatewayConstants ==
    /\ TTL \in Nat /\ MaxTime \in Nat /\ MaxKeys \in Nat \ {0} /\ MaxTokens \in Nat
    /\ Workload \subseteq [uid : UID, image : Image, model : Model \cup {None}]
    /\ \A p \in Placement : p.policy \in PolicyHash \cup {None}
    /\ \A in \in Inputs :
          /\ {in.required, in.revocationActive, in.revoked, in.verified, in.audit} \subseteq BOOLEAN
          /\ {in.ttl, in.maxAge} \subseteq Int /\ in.lastSeen \in Int \cup {None}
    /\ Ephemeral \in BOOLEAN /\ Stored \subseteq KeyID
    /\ None \notin UID \cup Image \cup Model \cup KeyID \cup Garbled \cup Int

VARIABLES
    now,
    signingKey,     \* of the running scheduler
    tokenPub,       \* of the running gateway, or None
    tokens,         \* the tokens minted so far
    answer          \* the request just served with its answer, or None

vars == <<now, signingKey, tokenPub, tokens, answer>>

SigningKey == 1 .. MaxKeys
Time == 0 .. MaxTime

Token == [pod : UID, image : Image, model : Model \cup {None},
          specHash : {p.specHash : p \in Placement}, node : {p.node : p \in Placement},
          evidenceHash : {p.evidenceHash : p \in Placement}, policy : PolicyHash \cup {None},
          expires : Nat, signer : SigningKey]

\* None is no token, error or reference to a key; a garbled token is not one of the
\* scheduler's; and Words gives words.
ASSUME NoneIsNoAnswer ==
    /\ None \notin Token \cup [memory : KeyID] \cup [name : KeyID]
    /\ \A error \in SUBSET Word : error # None
    /\ \A token \in Garbled : token \notin Token
    /\ \A v \in UID \cup Image \cup Model \cup PolicyHash \cup Garbled \cup {None} :
          Words[v] \subseteq Word

Init ==
    /\ now = 0 /\ signingKey = 1 /\ tokenPub \in {None, 1}
    /\ tokens = {} /\ answer = None

-----------------------------------------------------------------------------
\* The scheduler signs a token for a pod.
Mint(w, p) ==
    /\ Cardinality(tokens) < MaxTokens
    /\ tokens' = tokens \cup
          {[pod |-> w.uid, image |-> w.image, model |-> w.model, specHash |-> p.specHash,
            node |-> p.node, evidenceHash |-> p.evidenceHash, policy |-> p.policy,
            expires |-> now + TTL, signer |-> signingKey]}
    /\ answer' = None
    /\ UNCHANGED <<now, signingKey, tokenPub>>

\* The scheduler restarts: a configured key is loaded again, an ephemeral one is new.
loadOrGenerateSigningKey ==
    /\ Ephemeral /\ signingKey < MaxKeys
    /\ signingKey' = signingKey + 1
    /\ answer' = None
    /\ UNCHANGED <<now, tokenPub, tokens>>

\* The gateway restarts with the key its environment holds, if that is a key.
StartGateway(pub) ==
    /\ tokenPub' = pub
    /\ answer' = None
    /\ UNCHANGED <<now, signingKey, tokens>>

\* The material a released key refers to: from the store, or only by its name.
KeyRef(id) == IF id \in Stored THEN [memory |-> id] ELSE [name |-> id]

\* Mutant: refusals carry the reference as well.
handleWithReference(req) ==
    /\ answer = None
    /\ answer' =
          IF req = None THEN [req |-> req, status |-> 400]
          ELSE LET decision == Evaluate(req, tokenPub, now)
               IN  [req |-> req, status |-> IF decision.allowed THEN 200 ELSE 403,
                    decision |-> decision, keyRef |-> KeyRef(req.keyID)]
    /\ UNCHANGED <<now, signingKey, tokenPub, tokens>>

\* A request: one that is not a POST, is not JSON or lacks podUID or keyID (None) is
\* turned away, the others are evaluated.
handleKeyRelease(req) ==
    /\ answer = None
    /\ answer' =
          IF req = None THEN [req |-> req, status |-> 400]
          ELSE LET decision == Evaluate(req, tokenPub, now)
               IN  [req |-> req,
                    status |-> IF decision.allowed THEN 200 ELSE 403,
                    decision |-> decision,
                    keyRef |-> IF decision.allowed THEN KeyRef(req.keyID) ELSE None]
    /\ UNCHANGED <<now, signingKey, tokenPub, tokens>>

Tick ==
    /\ now < MaxTime /\ now' = now + 1
    /\ answer' = None
    /\ UNCHANGED <<signingKey, tokenPub, tokens>>

-----------------------------------------------------------------------------
\* A request for token, with the policy and evidence part in.
Request(pod, id, model, image, policy, token, in) ==
    [pod |-> pod, keyID |-> id, model |-> model, image |-> image, policy |-> policy,
     token |-> token, required |-> in.required, ttl |-> in.ttl,
     revocationActive |-> in.revocationActive, revoked |-> in.revoked,
     verified |-> in.verified, lastSeen |-> in.lastSeen, maxAge |-> in.maxAge,
     audit |-> in.audit, evidenceHash |-> in.evidenceHash]

Next ==
    \/ \E w \in Workload, p \in Placement : Mint(w, p)
    \/ loadOrGenerateSigningKey
    \/ \E pub \in 1 .. signingKey \cup {None} : StartGateway(pub)
    \/ handleKeyRelease(None)
    \/ \E pod \in UID, id \in KeyID, model \in Model \cup {None},
          image \in Image \cup {None}, policy \in PolicyHash \cup {None},
          token \in tokens \cup Garbled \cup {None}, in \in Inputs :
          handleKeyRelease(Request(pod, id, model, image, policy, token, in))
    \/ Tick

Spec == Init /\ [][Next]_vars

-----------------------------------------------------------------------------
Evaluated == answer # None /\ answer.status # 400
Released == Evaluated /\ answer.decision.allowed

\* The gateway answers with a reason of the enumeration, and refers to the key
\* asked for exactly when it allows.
TypeOK ==
    /\ now \in Time /\ signingKey \in SigningKey /\ tokenPub \in SigningKey \cup {None}
    /\ tokens \subseteq Token /\ Cardinality(tokens) <= MaxTokens
    /\ answer # None => answer.status \in {200, 400, 403}
    /\ Evaluated =>
          /\ answer.decision.reason \in Reason
          /\ answer.keyRef # None <=> answer.decision.allowed
          /\ answer.decision.reason \in {"ALLOWED", "POLICY_NOT_REQUIRED"}
                <=> answer.decision.allowed

\* What the evidence part of a request must show for a required release.
EvidenceGood(req, t) ==
    /\ req.ttl > 0 /\ ~req.revocationActive /\ ~req.revoked /\ req.verified
    /\ req.maxAge > 0 /\ req.lastSeen # None => t <= req.lastSeen + req.maxAge
    /\ req.audit => req.evidenceHash # None

\* The token is one the scheduler minted with the gateway's key at most TTL seconds
\* before t, for the pod of the request, and no digest of the request contradicts it.
Genuine(req, pub, t) ==
    /\ req.token \in tokens /\ req.token.signer = pub /\ t <= req.token.expires
    /\ req.token.pod = req.pod
    /\ ~Contradicts(req.model, req.token.model)
    /\ ~Contradicts(req.image, req.token.image)
    /\ ~Contradicts(req.policy, req.token.policy)

\* A gateway that has a public key releases a key on a placement token only if the
\* scheduler minted it, with that key, for the same pod, and within its lifetime,
\* however the scheduler and the gateway were restarted in between.
ReleasedOnGenuineToken ==
    Released /\ answer.req.required =>
        /\ EvidenceGood(answer.req, now)
        /\ answer.req.token # None /\ tokenPub # None =>
              Genuine(answer.req, tokenPub, now)

\* The converse: with good evidence and a genuine token a release is never refused.
GenuineTokenHonoured ==
    Evaluated /\ EvidenceGood(answer.req, now) /\ answer.req.token \in tokens
        /\ Genuine(answer.req, tokenPub, now)
    => answer.decision.allowed

\* A token the gateway released a key on passes verify-placement with the same
\* public key and policy hash, with the pod's UID and without: the two verifiers agree.
OfflineAgrees ==
    Released /\ answer.req.required /\ answer.req.token # None /\ tokenPub # None =>
        LET policy == IF answer.req.token.policy = None THEN None ELSE answer.req.policy
            expected == [specHash |-> None, node |-> None, evidenceHash |-> None,
                         policy |-> policy]
        IN  \A uid \in {answer.req.pod, None} :
                verifyPlacement(tokenPub, answer.req.token, uid, expected, now)

-----------------------------------------------------------------------------
\* What the documentation says and the code does not do.

\* "une cle n'est jamais liberee si [...] le jeton de placement ne correspond pas
\* exactement au pod/a l'image/au modele attendus" (README.md).
ExactlyBound ==
    Released /\ answer.req.required /\ answer.req.token \in tokens =>
        /\ answer.req.token.pod = answer.req.pod
        /\ answer.req.token.image = answer.req.image
        /\ answer.req.token.model = answer.req.model

\* A gateway without a public key says "token signatures will NOT be verified"
\* (main.go); tokens still expire ("avec une expiration", README.md).
ExpiredTokenRefused ==
    Released /\ answer.req.required /\ answer.req.token \in tokens =>
        now <= answer.req.token.expires

=============================================================================
