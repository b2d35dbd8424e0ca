------------------------------- MODULE Approvals -------------------------------
(***************************************************************************)
(* Signatures of people: approvals of AIChangeRequests                     *)
(* (internal/approval/approval.go) and signed evidence ConfigMaps          *)
(* (internal/evidence/configmap.go), which share the Ed25519 primitives of *)
(* pkg/crypto/ed25519.go, the trusted key set and its key ids.             *)
(*                                                                         *)
(* The code is pure: operators, and properties over bounded inputs.  A key *)
(* stands for its pair: the seed that signs and the public key that is     *)
(* trusted.                                                                *)
(***************************************************************************)
EXTENDS Naturals, Sequences

CONSTANTS
    Key,        \* Ed25519 key pairs
    KeyID,      \* ids of keys, trimmed and not blank
    NoID,       \* the blank key id
    Text,       \* namespaces, names and models
    Content,    \* what the maps of a ConfigMap hold
    KeyLists    \* the lists of entries operators configure

\* An entry of AIOPS_APPROVAL_PUBKEYS: blank, a key ("hex" or "id=hex"), or text that is
\* not the hex of a public key.
Entry == [form : {"blank", "key", "bad"}, id : KeyID \cup {NoID}, key : Key]

ASSUME KeysAssumption == KeyLists \subseteq Seq(Entry) /\ NoID \notin KeyID

Decision ==
    [namespace : Text, name : Text, action : {"reroute"}, sourceModel : Text,
     targetModel : Text, approval : {"Approved", "Rejected"}]

\* A map of a ConfigMap is nil, is empty, or holds something.
Maps == {<<"nil">>, <<"empty">>} \cup {<<"holds", c>> : c \in Content}

ConfigMap ==
    [namespace : Text, name : Text, labels : Maps, data : Maps, binaryData : Maps,
     signatureRequired : BOOLEAN]

-----------------------------------------------------------------------------
\* A signature in hex determines the signing key and the bytes it is of.
Ed25519Sign(priv, msg) == [encoding |-> "hex", by |-> priv, of |-> msg]

\* The answer of a verification: accepted, refused, or an error.
Ed25519Verify(pub, msg, sig) ==
    IF sig.encoding = "not hex" THEN "error"
    ELSE IF sig = Ed25519Sign(pub, msg) THEN "accepted" ELSE "refused"

\* An entry that holds no key is an error for the whole list, and leaves the empty set,
\* which trusts nobody.
NewKeySet(entries) ==
    IF \E i \in DOMAIN entries : entries[i].form = "bad" THEN <<>> ELSE entries

\* The entries of the list that are keys (anyID), and those with an id.
listed(trusted) == {i \in DOMAIN trusted : trusted[i].form = "key"}
named(trusted, keyID) == {i \in listed(trusted) : trusted[i].id = keyID}

\* The keys to try.  The last entry with an id is the key of that id (byID); a key that a
\* later entry replaced is still tried for a signature that names no id.
candidates(trusted, keyID) ==
    {trusted[i].key : i \in IF keyID = NoID THEN listed(trusted)
                            ELSE {i \in named(trusted, keyID) :
                                    \A j \in named(trusted, keyID) : j <= i}}

\* The first candidate reports an encoding that no candidate can accept.
VerifyCanonical(trusted, keyID, msg, sig) ==
    LET answers == {Ed25519Verify(pub, msg, sig) : pub \in candidates(trusted, keyID)}
    IN  IF sig.encoding = "blank" THEN "refused"
        ELSE IF "error" \in answers THEN "error"
        ELSE IF "accepted" \in answers THEN "accepted" ELSE "refused"

-----------------------------------------------------------------------------
\* Canonical JSON names its fields, which tells the two kinds of payload apart.
CanonicalJSON(kind, v) == [type |-> kind, json |-> v]

CanonicalMessage(d) == CanonicalJSON("Decision", d)

SignApproval(priv, d) == Ed25519Sign(priv, CanonicalMessage(d))

VerifyApproval(trusted, keyID, d, sig) ==
    VerifyCanonical(trusted, keyID, CanonicalMessage(d), sig)

\* A map that is empty is left out, as one that is nil is.
OmitEmpty(map) == IF map = <<"empty">> THEN <<"nil">> ELSE map

\* Binary data is signed by its digest.
BinaryDigest(map) == IF map = <<"nil">> THEN map ELSE <<"sha256", map>>

\* The annotations, signatureRequired among them, are not signed.
Canonicalize(cm) ==
    [namespace |-> cm.namespace, name |-> cm.name, labels |-> OmitEmpty(cm.labels),
     data |-> OmitEmpty(cm.data), binaryData |-> BinaryDigest(OmitEmpty(cm.binaryData))]

SignEvidence(priv, cm) == Ed25519Sign(priv, CanonicalJSON("ConfigMap", Canonicalize(cm)))

VerifyEvidence(trusted, keyID, cm, sig) ==
    VerifyCanonical(trusted, keyID, CanonicalJSON("ConfigMap", Canonicalize(cm)), sig)

-----------------------------------------------------------------------------
WellFormed(entries) == \A i \in DOMAIN entries : entries[i].form # "bad"

IDs == KeyID \cup {NoID}

SameMap(a, b) == a = b \/ {a, b} = {<<"nil">>, <<"empty">>}

\* An approval is accepted only for the decision it was given for, name, models and
\* verdict included, and only from a key of the configured list; every such approval is
\* accepted when it names no key id.  Evidence signatures never pass as approvals.
ApprovalsBind ==
    \A entries \in KeyLists, keyID \in IDs, d \in Decision, priv \in Key :
        LET accepts(sig) == VerifyApproval(NewKeySet(entries), keyID, d, sig) = "accepted"
            trusted == /\ WellFormed(entries)
                       /\ \E i \in listed(entries) : entries[i].key = priv
        IN  /\ \A e \in Decision : accepts(SignApproval(priv, e)) => e = d /\ trusted
            /\ \A cm \in ConfigMap : ~accepts(SignEvidence(priv, cm))
            /\ keyID = NoID /\ trusted => accepts(SignApproval(priv, d))

\* Rotation: appending an entry for an id moves that id, and no other, to the new key
\* from then on.
RotationTakesEffect ==
    \A entries \in KeyLists, rotated \in KeyID, keyID \in KeyID, new \in Key, priv \in Key,
       d \in Decision :
        LET verdict(list) == VerifyApproval(NewKeySet(list), keyID, d, SignApproval(priv, d))
            after == verdict(Append(entries, [form |-> "key", id |-> rotated, key |-> new]))
        IN  WellFormed(entries) =>
                IF keyID = rotated THEN (after = "accepted") = (priv = new)
                ELSE after = verdict(entries)

\* A signature of an evidence ConfigMap holds for the objects with the same namespace,
\* name, labels, data and binary data, whatever the annotations and whether a map
\* without entries is nil or empty, and for no other object.
EvidenceBinds ==
    \A cm \in ConfigMap, cn \in ConfigMap, trusted \in Key, priv \in Key :
        LET entries == <<[form |-> "key", id |-> NoID, key |-> trusted]>>
        IN  VerifyEvidence(NewKeySet(entries), NoID, cn, SignEvidence(priv, cm)) = "accepted"
            <=> /\ priv = trusted
                /\ cm.namespace = cn.namespace /\ cm.name = cn.name
                /\ SameMap(cm.labels, cn.labels) /\ SameMap(cm.data, cn.data)
                /\ SameMap(cm.binaryData, cn.binaryData)
=============================================================================
