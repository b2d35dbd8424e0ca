----------------------------- MODULE KeyRelease -----------------------------
(***************************************************************************)
(* The key release decision (internal/keyrelease/keyrelease.go) and the    *)
(* verification of placement tokens (pkg/token/token.go): pure functions,  *)
(* called by the key-release-gateway, by the AIKeyReleasePolicy reconciler *)
(* and by the verify-placement command.                                    *)
(*                                                                         *)
(* None is the empty string, the nil key and the zero time.  A key signs   *)
(* with its own name.  An error is the set of the words in its text that   *)
(* the code looks for; Words gives those of the values quoted in a text.   *)
(***************************************************************************)
EXTENDS Integers

CONSTANTS
    None,
    Garbled,        \* placement tokens that are not JSON, or have a field of another type
    Words           \* what the text of a value, or the error of a garbled token, contains

Word == {"expired", "pod UID mismatch", "model", "image", "policy"}

-----------------------------------------------------------------------------
\* pkg/token.

\* Mutant: a token is dead in the very second it expires.
VerifyBefore(pub, tok, t) ==
    IF pub = None THEN {}
    ELSE IF t >= tok.expires THEN {"expired"}
    ELSE IF tok.signer # pub THEN {}
    ELSE None

\* The error of Verify, or None.  "public key is nil", "token expired" and
\* "token signature invalid".
Verify(pub, tok, t) ==
    IF pub = None THEN {}
    ELSE IF t > tok.expires THEN {"expired"}
    ELSE IF tok.signer # pub THEN {}
    ELSE None

\* Mutant: a value that is not given is compared as well.
VerifyForPodAll(pub, tok, uid, expected, t) ==
    /\ Verify(pub, tok, t) = None
    /\ tok.pod = uid
    /\ \A f \in DOMAIN expected : tok[f] = expected[f]

\* VerifyForPod succeeds: expected holds the spec hash, node, evidence hash and
\* policy hash of the caller; those it leaves empty are not compared.
VerifyForPod(pub, tok, uid, expected, t) ==
    /\ Verify(pub, tok, t) = None
    /\ tok.pod = uid
    /\ \A f \in DOMAIN expected : expected[f] # None => tok[f] = expected[f]

\* verify-placement says PASS: it is given a public key and a token that decodes, and a
\* pod UID or none; without one the other values are not compared.
verifyPlacement(pub, tok, uid, expected, t) ==
    /\ pub # None /\ tok \notin Garbled \cup {None}
    /\ IF uid = None THEN Verify(pub, tok, t) = None
       ELSE VerifyForPod(pub, tok, uid, expected, t)

-----------------------------------------------------------------------------
\* internal/keyrelease.

\* Two digests contradict each other: both are given, and differ.
Contradicts(asked, bound) == asked # None /\ bound # None /\ bound # asked

Quoting(word, a, b) == {word} \cup Words[a] \cup Words[b]

\* Mutant: the pod the token was minted for is not compared.
verifyTokenAnyPod(req, pub, t) ==
    LET tok == req.token
    IN  IF tok \in Garbled THEN Words[tok]
        ELSE IF pub # None /\ Verify(pub, tok, t) # None THEN Verify(pub, tok, t)
        ELSE IF Contradicts(req.model, tok.model) THEN Quoting("model", tok.model, req.model)
        ELSE IF Contradicts(req.image, tok.image) THEN Quoting("image", tok.image, req.image)
        ELSE IF Contradicts(req.policy, tok.policy) THEN Quoting("policy", tok.policy, req.policy)
        ELSE None

\* The error of verifyToken, or None: the first check that fails.
verifyToken(req, pub, t) ==
    LET tok == req.token
    IN  IF tok \in Garbled THEN Words[tok]
        ELSE IF pub # None /\ Verify(pub, tok, t) # None THEN Verify(pub, tok, t)
        ELSE IF req.pod # None /\ tok.pod # req.pod
             THEN Quoting("pod UID mismatch", tok.pod, req.pod)
        ELSE IF Contradicts(req.model, tok.model) THEN Quoting("model", tok.model, req.model)
        ELSE IF Contradicts(req.image, tok.image) THEN Quoting("image", tok.image, req.image)
        ELSE IF Contradicts(req.policy, tok.policy) THEN Quoting("policy", tok.policy, req.policy)
        ELSE None

\* The reason given for an error of verifyToken: found by searching its text.
TokenReason(err) ==
    IF "expired" \in err THEN "TOKEN_EXPIRED"
    ELSE IF "pod UID mismatch" \in err THEN "POD_UID_MISMATCH"
    ELSE IF "model" \in err THEN "MODEL_DIGEST_MISMATCH"
    ELSE IF "image" \in err THEN "IMAGE_DIGEST_MISMATCH"
    ELSE IF "policy" \in err THEN "POLICY_HASH_MISMATCH"
    ELSE "TOKEN_INVALID"

deny(reason) == [allowed |-> FALSE, reason |-> reason, ttl |-> 0]

\* Evidence last seen at lastSeen is older than maxAge; without either no age is checked.
EvidenceTooOld(req, t) ==
    req.maxAge > 0 /\ req.lastSeen # None /\ t - req.lastSeen > req.maxAge

Evaluate(req, pub, t) ==
    IF ~req.required
    THEN [allowed |-> TRUE, reason |-> "POLICY_NOT_REQUIRED", ttl |-> req.ttl]
    ELSE IF req.ttl <= 0 THEN deny("TTL_INVALID")
    ELSE IF req.revocationActive THEN deny("REVOCATION_ACTIVE")
    ELSE IF req.revoked THEN deny("EVIDENCE_REVOKED")
    ELSE IF ~req.verified THEN deny("EVIDENCE_NOT_VERIFIED")
    ELSE IF EvidenceTooOld(req, t) THEN deny("EVIDENCE_EXPIRED")
    ELSE IF req.token # None /\ verifyToken(req, pub, t) # None
         THEN deny(TokenReason(verifyToken(req, pub, t)))
    ELSE IF req.audit /\ req.evidenceHash = None THEN deny("AUDIT_REQUIRED_NOT_MET")
    ELSE [allowed |-> TRUE, reason |-> "ALLOWED", ttl |-> req.ttl]

Reason == {"ALLOWED", "POLICY_NOT_REQUIRED", "EVIDENCE_REVOKED", "EVIDENCE_EXPIRED",
           "EVIDENCE_NOT_VERIFIED", "TOKEN_INVALID", "TOKEN_EXPIRED", "POD_UID_MISMATCH",
           "MODEL_DIGEST_MISMATCH", "IMAGE_DIGEST_MISMATCH", "POLICY_HASH_MISMATCH",
           "REVOCATION_ACTIVE", "TTL_INVALID", "AUDIT_REQUIRED_NOT_MET"}

=============================================================================
