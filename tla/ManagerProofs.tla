---------------------------- MODULE ManagerProofs ---------------------------
(***************************************************************************)
(* The manager's audit chain, for any records and edits; the approvals and *)
(* evidence it signs, for any keys and texts; the webhooks it registers,   *)
(* for any replicas and crashes; and the console, for any clients and      *)
(* fields.                                                                 *)
(***************************************************************************)
EXTENDS EvidenceRecord, Approvals, Bootstrap, Console, TLAPS

(***************************************************************************)
(* EvidenceRecord: the audit chain.                                        *)
(***************************************************************************)

\* None, a nil or a missing object, is none of the objects.  (A digest contains the
\* digest of the record before it, so that there is no set of all digests.)
NoneIsNoObject ==
    /\ \A spec, digest, anchored :
          None # [spec |-> spec, digest |-> digest, anchored |-> anchored]
    /\ \A name, spec, stale : None # [name |-> name, spec |-> spec, stale |-> stale]
    /\ \A spec : None # SHA256Hex(spec)

IsSpec(s) ==
    /\ s = [payload |-> s.payload, previous |-> s.previous, checkpoint |-> s.checkpoint]
    /\ s.payload \in Payload /\ s.checkpoint \in BOOLEAN

\* A stored record: digest and anchoring are of one version of the spec.
IsRecord(r) ==
    /\ r = [spec |-> r.spec, digest |-> r.digest, anchored |-> r.anchored]
    /\ IsSpec(r.spec)
    /\ r.anchored = (r.digest # None /\ r.digest.sha256.checkpoint)

\* What Reconcile read is what is stored, until somebody writes that.
IsWork(w) ==
    /\ w = [name |-> w.name, spec |-> w.spec, stale |-> w.stale]
    /\ w.name \in Name /\ w.stale \in BOOLEAN /\ IsSpec(w.spec)
    /\ ~w.stale => records[w.name] # None /\ records[w.name].spec = w.spec

RecordType ==
    /\ records = [n \in Name |-> records[n]]
    /\ queue \subseteq Name /\ edits \in 0 .. MaxEdits
    /\ \A n \in Name : records[n] # None => IsRecord(records[n])
    /\ work # None => IsWork(work)

\* A record without the digest of its spec is one the reconciler still has before it.
Pending(n) == n \in queue \/ (work # None /\ work.name = n)

DigestInv ==
    \A n \in Name : records[n] # None /\ ~Pending(n) =>
        records[n].digest = SHA256Hex(records[n].spec)

\* While nobody edits, a digest is set once.
ChainInv ==
    edits = 0 =>
        /\ \A n \in Name : records[n] # None =>
              records[n].digest \in {None, SHA256Hex(records[n].spec)}
        /\ Linked

RecordInv == RecordType /\ DigestInv /\ ChainInv

-----------------------------------------------------------------------------
LEMMA RecordInit == Init => RecordInv
  BY RecordConstants DEF RecordConstants, Init, RecordInv, RecordType, DigestInv, ChainInv,
     Linked

\* A write of a record by somebody else: the new record is waiting in the queue, and
\* the copy Reconcile may hold of the old one is marked.
LEMMA WriteKeeps ==
    ASSUME RecordType, DigestInv, NoneIsNoObject, NEW n \in Name, NEW record,
           record # None => IsRecord(record), Write(n, record), edits' \in 0 .. MaxEdits
    PROVE  RecordType' /\ DigestInv'
  <1>1. /\ records' = [m \in Name |-> IF m = n THEN record ELSE records[m]]
        /\ queue' = queue \cup {n}
    BY DEF Write, RecordType
  <1>2. work' # None => work # None /\ IsWork(work)'
    <2>1. CASE work = None
      BY <2>1 DEF Write
    <2>2. CASE work # None
      <3>1. IsWork(work)
        BY <2>2 DEF RecordType
      <3>2. CASE work.name = n
        <4>1. work' = [name |-> work.name, spec |-> work.spec, stale |-> TRUE]
          BY <2>2, <3>1, <3>2 DEF Write, IsWork
        <4> QED BY <2>2, <3>1, <4>1 DEF IsWork
      <3>3. CASE work.name # n
        <4>1. work' = work
          BY <3>3 DEF Write
        <4>2. records'[work.name] = records[work.name]
          BY <1>1, <3>1, <3>3 DEF IsWork
        <4> QED BY <2>2, <3>1, <4>1, <4>2 DEF IsWork
      <3> QED BY <3>2, <3>3
    <2> QED BY <2>1, <2>2
  <1>3. \A m \in Name : Pending(m) => Pending(m)'
    <2>1. work # None => work' # None /\ work'.name = work.name
      <3>1. ASSUME work # None, work.name = n
            PROVE  work' # None /\ work'.name = work.name
        <4>1. work' = [name |-> work.name, spec |-> work.spec, stale |-> TRUE]
          BY <3>1 DEF Write, IsWork, RecordType
        <4> QED BY <4>1 DEF NoneIsNoObject
      <3> QED BY <3>1 DEF Write
    <2> QED BY <1>1, <2>1 DEF Pending
  <1>4. RecordType'
    BY <1>1, <1>2 DEF RecordType
  <1>5. DigestInv'
    BY <1>1, <1>3 DEF DigestInv, Pending
  <1> QED BY <1>4, <1>5

\* Reconcile's first step.
LEMMA GetKeeps ==
    ASSUME RecordInv, NoneIsNoObject, NEW n \in Name, Get(n)
    PROVE  RecordInv'
  <1>1. /\ work = None /\ queue' = queue \ {n}
        /\ UNCHANGED <<records, edits>>
    BY DEF Get
  <1>2. CASE records[n] = None
    <2>1. work' = None
      BY <1>2 DEF Get
    <2> QED
      BY <1>1, <1>2, <2>1 DEF RecordInv, RecordType, DigestInv, ChainInv, Linked, Digests, Pending
  <1>3. CASE records[n] # None
    <2>1. work' = [name |-> n, spec |-> records[n].spec, stale |-> FALSE]
      BY <1>3 DEF Get
    <2>2. work' # None /\ work'.name = n
      BY <2>1 DEF NoneIsNoObject
    <2>3. IsWork(work)'
      BY <1>1, <1>3, <2>1 DEF IsWork, RecordInv, RecordType, IsRecord
    <2>4. RecordType'
      BY <1>1, <2>3 DEF RecordInv, RecordType, IsRecord
    <2>5. DigestInv'
      BY <1>1, <2>2 DEF RecordInv, DigestInv, Pending
    <2>6. ChainInv'
      BY <1>1 DEF RecordInv, ChainInv, Linked, Digests
    <2> QED BY <2>4, <2>5, <2>6 DEF RecordInv
  <1> QED BY <1>2, <1>3

\* Whatever ends a Reconcile without a write puts its record back in the queue.
LEMMA RetryKeeps ==
    ASSUME RecordInv, work # None, Retry, UNCHANGED <<records, edits>>
    PROVE  RecordInv'
  <1>1. work.name \in Name
    BY DEF RecordInv, RecordType, IsWork
  <1>2. RecordType'
    BY <1>1 DEF Retry, RecordInv, RecordType, IsRecord
  <1>3. DigestInv'
    BY DEF Retry, RecordInv, DigestInv, Pending
  <1>4. ChainInv'
    BY DEF RecordInv, ChainInv, Linked, Digests
  <1> QED BY <1>2, <1>3, <1>4 DEF RecordInv

\* The status of a record whose spec is still the one that was read.
LEMMA ChainedRecord ==
    ASSUME RecordType, NoneIsNoObject, work # None, ~work.stale
    PROVE  LET old == records[work.name]
               new == Chained(old, work.spec)
           IN  /\ work.name \in Name /\ old # None /\ new # None /\ IsRecord(new)
               /\ new.spec = old.spec /\ new.digest = SHA256Hex(old.spec)
  <1> DEFINE old == records[work.name]
             new == Chained(old, work.spec)
  <1>1. work.name \in Name /\ old # None /\ old.spec = work.spec /\ IsRecord(old)
    BY DEF RecordType, IsWork
  <1>2. new = [spec |-> old.spec, digest |-> SHA256Hex(old.spec),
               anchored |-> old.spec.checkpoint]
    <2>1. PICK spec, digest, anchored :
             old = [spec |-> spec, digest |-> digest, anchored |-> anchored]
      BY <1>1 DEF IsRecord
    <2>2. new = [old EXCEPT !.digest = SHA256Hex(work.spec), !.anchored = work.spec.checkpoint]
      BY DEF Chained
    <2> HIDE DEF old, new
    <2> QED BY <1>1, <2>1, <2>2
  <1>3. new # None
    BY <1>2 DEF NoneIsNoObject
  <1>4. IsSpec(new.spec) /\ new.spec = old.spec /\ new.digest = SHA256Hex(old.spec)
        /\ new = [spec |-> new.spec, digest |-> new.digest, anchored |-> new.anchored]
    BY <1>1, <1>2 DEF IsRecord
  <1>5. new.anchored = (new.digest # None /\ new.digest.sha256.checkpoint)
    <2>1. new.digest # None
      BY <1>4 DEF NoneIsNoObject
    <2>2. new.digest.sha256 = old.spec
      BY <1>4 DEF SHA256Hex
    <2>3. new.anchored = old.spec.checkpoint /\ old.spec.checkpoint \in BOOLEAN
      BY <1>1, <1>2 DEF IsRecord, IsSpec
    <2> QED BY <2>1, <2>2, <2>3
  <1> HIDE DEF new
  <1>6. IsRecord(new)
    BY <1>4, <1>5 DEF IsRecord
  <1> QED BY <1>1, <1>3, <1>4, <1>6 DEF new

LEMMA UpdateStatusKeeps ==
    ASSUME RecordInv, NoneIsNoObject, UpdateStatus
    PROVE  RecordInv'
  <1>0. work # None /\ UNCHANGED edits
    BY DEF UpdateStatus
  <1>1. CASE work.stale
    BY <1>0, <1>1, RetryKeeps DEF UpdateStatus
  <1>2. CASE ~work.stale
    <2> DEFINE old == records[work.name]
               new == Chained(old, work.spec)
    <2>1. /\ work.name \in Name /\ old # None /\ new # None /\ IsRecord(new)
          /\ new.spec = old.spec /\ new.digest = SHA256Hex(old.spec)
      BY <1>0, <1>2, ChainedRecord DEF RecordInv
    <2>2. /\ records' = [records EXCEPT ![work.name] = new]
          /\ work' = None
          /\ queue' = queue \/ queue' = queue \cup {work.name}
      BY <1>0, <1>2 DEF UpdateStatus
    <2> HIDE DEF old, new
    <2>3. records' = [m \in Name |-> IF m = work.name THEN new ELSE records[m]]
      BY <2>2 DEF RecordInv, RecordType
    <2>4. RecordType'
      BY <1>0, <2>1, <2>2, <2>3 DEF RecordInv, RecordType, IsRecord
    <2>5. DigestInv'
      BY <2>1, <2>2, <2>3 DEF RecordInv, DigestInv, Pending
    <2>6. ASSUME edits = 0
          PROVE  Digests \subseteq Digests'
      <3>1. old.digest \in {None, new.digest}
        BY <2>1, <2>6 DEF RecordInv, ChainInv, old
      <3>2. SUFFICES ASSUME NEW m \in Name, records[m] # None, records[m].digest # None
                     PROVE  records'[m] # None /\ records'[m].digest = records[m].digest
        BY DEF Digests
      <3> QED BY <2>1, <2>3, <3>1, <3>2 DEF old
    <2>7. ChainInv'
      <3>1. SUFFICES ASSUME edits = 0
                     PROVE  /\ \A n \in Name : records'[n] # None =>
                                  records'[n].digest \in {None, SHA256Hex(records'[n].spec)}
                            /\ Linked'
        BY <1>0 DEF ChainInv
      <3>2. \A n \in Name : records'[n] # None => records[n] # None
                                 /\ records'[n].spec = records[n].spec
        BY <2>1, <2>3 DEF old
      <3>3. Linked'
        BY <2>6, <3>1, <3>2 DEF Linked, RecordInv, ChainInv
      <3>4. \A n \in Name : records'[n] # None =>
                records'[n].digest \in {None, SHA256Hex(records'[n].spec)}
        BY <2>1, <2>3, <3>1 DEF RecordInv, ChainInv
      <3> QED BY <3>3, <3>4
    <2> QED BY <2>4, <2>5, <2>7 DEF RecordInv
  <1> QED BY <1>1, <1>2

LEMMA RestartKeeps ==
    ASSUME RecordInv, Restart
    PROVE  RecordInv'
  <1>1. RecordType'
    BY DEF Restart, RecordInv, RecordType, IsRecord
  <1>2. DigestInv'
    BY DEF Restart, DigestInv, Pending
  <1>3. ChainInv'
    BY DEF Restart, RecordInv, ChainInv, Linked, Digests
  <1> QED BY <1>1, <1>2, <1>3 DEF RecordInv

\* A record that is appended names a digest that is there, or none.
LEMMA AppendKeeps ==
    ASSUME RecordInv, NoneIsNoObject,
           NEW n \in Name, NEW payload \in Payload, NEW checkpoint \in BOOLEAN,
           NEW previous \in Digests \cup {None}, AppendRecord(n, payload, previous, checkpoint)
    PROVE  RecordInv'
  <1> DEFINE spec == [payload |-> payload, previous |-> previous, checkpoint |-> checkpoint]
             new == [spec |-> spec, digest |-> None, anchored |-> FALSE]
  <1>1. records[n] = None /\ Write(n, new) /\ UNCHANGED edits
    BY DEF AppendRecord
  <1>2. IsRecord(new) /\ new.spec.previous = previous /\ new.digest = None
    BY DEF IsRecord, IsSpec
  <1> HIDE DEF new
  <1>3. RecordType' /\ DigestInv'
    BY <1>1, <1>2, WriteKeeps DEF RecordInv, RecordType
  <1>4. records' = [m \in Name |-> IF m = n THEN new ELSE records[m]]
    BY <1>1 DEF Write, RecordInv, RecordType
  <1>5. Digests \subseteq Digests'
    BY <1>1, <1>4 DEF Digests
  <1>6. ChainInv'
    BY <1>1, <1>2, <1>4, <1>5 DEF ChainInv, Linked, RecordInv
  <1> QED BY <1>3, <1>6 DEF RecordInv

LEMMA EditKeeps ==
    ASSUME RecordInv, NoneIsNoObject,
           NEW n \in Name, NEW payload \in Payload, NEW checkpoint \in BOOLEAN,
           Edit(n, payload, checkpoint)
    PROVE  RecordInv'
  <1> DEFINE spec == [records[n].spec EXCEPT !.payload = payload, !.checkpoint = checkpoint]
             new == [records[n] EXCEPT !.spec = spec]
  <1>1. /\ records[n] # None /\ Write(n, new)
        /\ edits < MaxEdits /\ edits' = edits + 1
    BY DEF Edit
  <1>2. edits' \in 0 .. MaxEdits /\ edits' # 0
    BY <1>1, RecordConstants DEF RecordConstants, RecordInv, RecordType
  <1>3. IsRecord(records[n])
    BY <1>1 DEF RecordInv, RecordType
  <1>4. spec = [payload |-> payload, previous |-> records[n].spec.previous,
                checkpoint |-> checkpoint]
    <2>1. PICK p, q, c : records[n].spec = [payload |-> p, previous |-> q, checkpoint |-> c]
      BY <1>3 DEF IsRecord, IsSpec
    <2>2. PICK t : t = [records[n].spec EXCEPT !.payload = payload]
      OBVIOUS
    <2>3. t = [payload |-> payload, previous |-> q, checkpoint |-> c]
      BY <2>1, <2>2
    <2>4. [t EXCEPT !.checkpoint = checkpoint]
          = [payload |-> payload, previous |-> q, checkpoint |-> checkpoint]
      BY <2>3
    <2>5. spec = [t EXCEPT !.checkpoint = checkpoint]
      BY <2>2
    <2>6. records[n].spec.previous = q
      BY <2>1
    <2> QED BY <2>4, <2>5, <2>6, Zenon
  <1>5. IsSpec(spec)
    BY <1>4 DEF IsSpec
  <1> HIDE DEF spec
  <1>6. new = [spec |-> spec, digest |-> records[n].digest, anchored |-> records[n].anchored]
    <2>1. PICK s, d, a : records[n] = [spec |-> s, digest |-> d, anchored |-> a]
      BY <1>3 DEF IsRecord
    <2> QED BY <2>1
  <1> HIDE DEF new
  <1>7. IsRecord(new)
    BY <1>3, <1>5, <1>6 DEF IsRecord
  <1>8. RecordType' /\ DigestInv'
    BY <1>1, <1>2, <1>7, WriteKeeps DEF RecordInv
  <1> QED BY <1>2, <1>8 DEF RecordInv, ChainInv

LEMMA DeleteKeeps ==
    ASSUME RecordInv, NoneIsNoObject, NEW n \in Name, Delete(n)
    PROVE  RecordInv'
  <1>1. edits' \in 0 .. MaxEdits /\ edits' # 0
    BY RecordConstants DEF RecordConstants, Delete, RecordInv, RecordType
  <1>2. RecordType' /\ DigestInv'
    BY <1>1, WriteKeeps DEF Delete, RecordInv
  <1> QED BY <1>1, <1>2 DEF RecordInv, ChainInv

LEMMA RecordStep ==
    ASSUME RecordInv, NoneIsNoObject, [Next]_vars
    PROVE  RecordInv'
  <1>1. CASE Reconcile
    BY <1>1, GetKeeps, UpdateStatusKeeps DEF Reconcile
  <1>2. CASE CallFails
    BY <1>2, RetryKeeps DEF CallFails
  <1>3. CASE Restart
    BY <1>3, RestartKeeps
  <1>4. ASSUME NEW n \in Name, NEW payload \in Payload, NEW checkpoint \in BOOLEAN,
               \/ \E previous \in Digests \cup {None} :
                     AppendRecord(n, payload, previous, checkpoint)
               \/ Edit(n, payload, checkpoint)
        PROVE  RecordInv'
    BY <1>4, AppendKeeps, EditKeeps
  <1>5. ASSUME NEW n \in Name, Delete(n)
        PROVE  RecordInv'
    BY <1>5, DeleteKeeps
  <1>6. CASE UNCHANGED vars
    BY <1>6 DEF vars, RecordInv, RecordType, IsRecord, IsWork, DigestInv, Pending, ChainInv,
       Linked, Digests
  <1> QED BY <1>1, <1>2, <1>3, <1>4, <1>5, <1>6 DEF Next

LEMMA RecordInvariant ==
    ASSUME NoneIsNoObject
    PROVE  Spec => []RecordInv
  <1>1. RecordInv /\ [Next]_vars => RecordInv'
    BY RecordStep
  <1> QED BY <1>1, RecordInit, PTL DEF Spec

-----------------------------------------------------------------------------
\* The two parts of a record's status are of one version of its spec
\* (aievidencerecord_controller.go, Reconcile), whatever is edited in between.
THEOREM RecordTypeCorrect ==
    ASSUME NoneIsNoObject
    PROVE  Spec => []TypeOK
  <1>1. RecordInv => TypeOK
    BY DEF RecordInv, RecordType, IsWork, IsRecord, IsSpec, TypeOK
  <1> QED BY <1>1, RecordInvariant, PTL

\* When the workqueue is empty every record has the digest of its spec, after any
\* number of edits, conflicts, failed calls and restarts of the manager.
THEOREM StatusCatchesUp ==
    ASSUME NoneIsNoObject
    PROVE  Spec => []DigestsCurrent
  <1>1. RecordInv => DigestsCurrent
    BY DEF RecordInv, DigestInv, Pending, DigestsCurrent, Quiet
  <1> QED BY <1>1, RecordInvariant, PTL

\* While nobody edits a record, the reconciler never changes a digest that another
\* record already names.
THEOREM ChainUnbroken ==
    ASSUME NoneIsNoObject
    PROVE  Spec => []ChainHolds
  <1>1. RecordInv => ChainHolds
    BY DEF RecordInv, ChainInv, ChainHolds
  <1> QED BY <1>1, RecordInvariant, PTL

-----------------------------------------------------------------------------
(***************************************************************************)
(* Approvals: signatures of decisions and of evidence.                     *)
(***************************************************************************)

\* A signature is accepted exactly when its key is a candidate and it is of the message.
LEMMA AcceptedSignature ==
    ASSUME NEW trusted, NEW keyID, NEW msg, NEW priv, NEW signed
    PROVE  VerifyCanonical(trusted, keyID, msg, Ed25519Sign(priv, signed)) = "accepted"
           <=> priv \in candidates(trusted, keyID) /\ signed = msg
<1> DEFINE sig == Ed25519Sign(priv, signed)
           keys == candidates(trusted, keyID)
           answers == {Ed25519Verify(pub, msg, sig) : pub \in keys}
<1>1. sig.encoding = "hex"
  BY DEF Ed25519Sign
<1>2. \A pub : Ed25519Verify(pub, msg, sig) =
                 IF pub = priv /\ signed = msg THEN "accepted" ELSE "refused"
  BY <1>1 DEF Ed25519Verify, Ed25519Sign
<1>3. "error" \notin answers
  BY <1>2
<1>4. "accepted" \in answers <=> priv \in keys /\ signed = msg
  BY <1>2
<1>5. VerifyCanonical(trusted, keyID, msg, sig) =
        IF "accepted" \in answers THEN "accepted" ELSE "refused"
  BY <1>1, <1>3 DEF VerifyCanonical
<1> QED
  BY <1>4, <1>5

\* Only listed keys of a well-formed list are candidates, and all are for no id.
LEMMA CandidatesAreListed ==
    ASSUME NEW entries \in Seq(Entry), NEW keyID, NEW priv
    PROVE  LET trusted == WellFormed(entries) /\ \E i \in listed(entries) : entries[i].key = priv
               candidate == priv \in candidates(NewKeySet(entries), keyID)
           IN  (candidate => trusted) /\ (keyID = NoID /\ trusted => candidate)
<1>1. CASE WellFormed(entries)
  <2>1. NewKeySet(entries) = entries
    BY <1>1 DEF NewKeySet, WellFormed
  <2> QED
    BY <1>1, <2>1 DEF candidates, named
<1>2. CASE ~WellFormed(entries)
  <2>1. NewKeySet(entries) = <<>>
    BY <1>2 DEF NewKeySet, WellFormed
  <2>2. listed(<<>>) = {}
    BY DEF listed
  <2> QED
    BY <1>2, <2>1, <2>2 DEF candidates, named
<1> QED
  BY <1>1, <1>2

\* Approvals hold for one decision and come from listed keys, for all key lists.
THEOREM ApprovalsAreBound == ApprovalsBind
<1> SUFFICES ASSUME NEW entries \in KeyLists, NEW keyID \in IDs, NEW d \in Decision,
                    NEW priv \in Key
             PROVE  LET accepts(sig) ==
                            VerifyApproval(NewKeySet(entries), keyID, d, sig) = "accepted"
                        trusted == /\ WellFormed(entries)
                                   /\ \E i \in listed(entries) : entries[i].key = priv
                    IN  /\ \A e \in Decision : accepts(SignApproval(priv, e)) => e = d /\ trusted
                        /\ \A cm \in ConfigMap : ~accepts(SignEvidence(priv, cm))
                        /\ keyID = NoID /\ trusted => accepts(SignApproval(priv, d))
  BY DEF ApprovalsBind
<1> DEFINE candidate == priv \in candidates(NewKeySet(entries), keyID)
<1>1. entries \in Seq(Entry)
  BY KeysAssumption
<1>2. \A e : VerifyApproval(NewKeySet(entries), keyID, d, SignApproval(priv, e)) = "accepted"
             <=> candidate /\ CanonicalMessage(e) = CanonicalMessage(d)
  BY AcceptedSignature DEF VerifyApproval, SignApproval
<1>3. \A e : CanonicalMessage(e) = CanonicalMessage(d) <=> e = d
  BY DEF CanonicalMessage, CanonicalJSON
<1>4. \A cm : VerifyApproval(NewKeySet(entries), keyID, d, SignEvidence(priv, cm)) # "accepted"
  <2> TAKE cm
  <2>1. CanonicalJSON("ConfigMap", Canonicalize(cm)) # CanonicalMessage(d)
    BY DEF CanonicalMessage, CanonicalJSON
  <2> QED
    BY <2>1, AcceptedSignature DEF VerifyApproval, SignEvidence
<1> QED
  BY <1>1, <1>2, <1>3, <1>4, CandidatesAreListed

\* The entry appended last is the one key of its id, and other ids keep theirs.
LEMMA LastEntryWins ==
    ASSUME NEW entries \in Seq(Entry), WellFormed(entries),
           NEW entry \in Entry, entry.form = "key", NEW keyID \in KeyID
    PROVE  candidates(NewKeySet(Append(entries, entry)), keyID) =
             IF keyID = entry.id THEN {entry.key} ELSE candidates(NewKeySet(entries), keyID)
<1> DEFINE more == Append(entries, entry)
           last == Len(entries) + 1
<1>2. /\ DOMAIN more = DOMAIN entries \cup {last} /\ DOMAIN entries = 1 .. Len(entries)
      /\ last \notin DOMAIN entries
      /\ more[last] = entry /\ \A i \in DOMAIN entries : more[i] = entries[i]
  OBVIOUS
<1> HIDE DEF more
<1>3. NewKeySet(more) = more /\ NewKeySet(entries) = entries
  BY <1>2 DEF NewKeySet, WellFormed
<1>4. listed(more) = listed(entries) \cup {last}
  BY <1>2 DEF listed
<1>5. keyID # NoID
  BY KeysAssumption
<1>6. CASE keyID = entry.id
  <2>1. last \in named(more, keyID) /\ \A i \in named(more, keyID) : i <= last
    BY <1>2, <1>4, <1>6 DEF named, listed
  <2>2. {i \in named(more, keyID) : \A j \in named(more, keyID) : j <= i} = {last}
    <3>1. \A i \in named(more, keyID) : i \in 1 .. last
      BY <1>2, <1>4 DEF named, listed
    <3> QED
      BY <2>1, <3>1
  <2>3. candidates(more, keyID) = {more[i].key : i \in {last}}
    BY <1>5, <2>2 DEF candidates
  <2>4. {more[i].key : i \in {last}} = {entry.key}
    BY <1>2
  <2> QED
    BY <1>3, <1>6, <2>3, <2>4 DEF more
<1>7. CASE keyID # entry.id
  <2>1. named(more, keyID) = named(entries, keyID)
    BY <1>2, <1>4, <1>7 DEF named, listed
  <2>2. \A i \in named(entries, keyID) : more[i].key = entries[i].key
    BY <1>2 DEF named, listed
  <2> DEFINE latest == {i \in named(entries, keyID) :
                            \A j \in named(entries, keyID) : j <= i}
  <2>3. candidates(more, keyID) = {more[i].key : i \in latest}
    BY <1>5, <2>1 DEF candidates
  <2>4. candidates(entries, keyID) = {entries[i].key : i \in latest}
    BY <1>5 DEF candidates
  <2>5. \A i \in latest : more[i].key = entries[i].key
    BY <2>2
  <2> HIDE DEF latest
  <2>6. {more[i].key : i \in latest} = {entries[i].key : i \in latest}
    BY <2>5
  <2> QED
    BY <1>3, <1>7, <2>3, <2>4, <2>6 DEF more
<1> QED
  BY <1>6, <1>7

\* Rotating a key id takes effect for that id and no other, for all key lists.
THEOREM RotationHolds == RotationTakesEffect
<1> SUFFICES ASSUME NEW entries \in KeyLists, NEW rotated \in KeyID, NEW keyID \in KeyID,
                    NEW new \in Key, NEW priv \in Key, NEW d \in Decision,
                    WellFormed(entries)
             PROVE  LET verdict(list) ==
                            VerifyApproval(NewKeySet(list), keyID, d, SignApproval(priv, d))
                        after == verdict(Append(entries,
                                     [form |-> "key", id |-> rotated, key |-> new]))
                    IN  IF keyID = rotated THEN (after = "accepted") = (priv = new)
                        ELSE after = verdict(entries)
  BY DEF RotationTakesEffect
<1> DEFINE entry == [form |-> "key", id |-> rotated, key |-> new]
           more == Append(entries, entry)
<1>1. entries \in Seq(Entry)
  BY KeysAssumption
<1>2. candidates(NewKeySet(more), keyID) =
        IF keyID = rotated THEN {new} ELSE candidates(NewKeySet(entries), keyID)
  <2>1. /\ entry \in Entry /\ entry.form = "key" /\ entry.id = rotated /\ entry.key = new
        /\ WellFormed(entries)
    BY DEF Entry
  <2> HIDE DEF entry
  <2> QED
    BY <1>1, <2>1, LastEntryWins
<1>3. VerifyApproval(NewKeySet(more), keyID, d, SignApproval(priv, d)) = "accepted"
      <=> priv \in candidates(NewKeySet(more), keyID)
  BY AcceptedSignature DEF VerifyApproval, SignApproval
<1>4. CASE keyID = rotated
  BY <1>2, <1>3, <1>4
<1>5. CASE keyID # rotated
  BY <1>2, <1>5 DEF VerifyApproval, VerifyCanonical
<1> QED
  BY <1>4, <1>5

\* Leaving out empty maps identifies a nil map with an empty one and nothing else, and
\* digests of binary data tell apart what they are of.
LEMMA OmittedMaps ==
    ASSUME NEW a \in Maps, NEW b \in Maps
    PROVE  /\ OmitEmpty(a) = OmitEmpty(b) <=> SameMap(a, b)
           /\ BinaryDigest(OmitEmpty(a)) = BinaryDigest(OmitEmpty(b)) <=> SameMap(a, b)
<1>1. <<"nil">> # <<"empty">>
  OBVIOUS
<1>2. OmitEmpty(a) = OmitEmpty(b) <=> SameMap(a, b)
  BY <1>1 DEF OmitEmpty, SameMap
<1>3. \A m : <<"sha256", m>> # <<"nil">>
  OBVIOUS
<1>4. \A m, n : <<"sha256", m>> = <<"sha256", n>> => m = n
  OBVIOUS
<1>5. \A m, n : BinaryDigest(m) = BinaryDigest(n) <=> m = n
  BY <1>3, <1>4 DEF BinaryDigest
<1> QED
  BY <1>2, <1>5

\* Evidence signatures are bound to the content of one ConfigMap.
THEOREM EvidenceIsBound == EvidenceBinds
<1> SUFFICES ASSUME NEW cm \in ConfigMap, NEW cn \in ConfigMap, NEW trusted \in Key,
                    NEW priv \in Key
             PROVE  LET entries == <<[form |-> "key", id |-> NoID, key |-> trusted]>>
                    IN  VerifyEvidence(NewKeySet(entries), NoID, cn, SignEvidence(priv, cm))
                            = "accepted"
                        <=> /\ priv = trusted
                            /\ cm.namespace = cn.namespace /\ cm.name = cn.name
                            /\ SameMap(cm.labels, cn.labels) /\ SameMap(cm.data, cn.data)
                            /\ SameMap(cm.binaryData, cn.binaryData)
  BY DEF EvidenceBinds
<1> DEFINE entries == <<[form |-> "key", id |-> NoID, key |-> trusted]>>
<1>1. candidates(NewKeySet(entries), NoID) = {trusted}
  <2>1. DOMAIN entries = {1} /\ entries[1].form = "key" /\ entries[1].key = trusted
    OBVIOUS
  <2>2. NewKeySet(entries) = entries /\ listed(entries) = {1}
    BY <2>1 DEF NewKeySet, listed
  <2> QED
    BY <2>1, <2>2 DEF candidates
<1>2. VerifyEvidence(NewKeySet(entries), NoID, cn, SignEvidence(priv, cm)) = "accepted"
      <=> /\ priv = trusted
          /\ CanonicalJSON("ConfigMap", Canonicalize(cm))
                = CanonicalJSON("ConfigMap", Canonicalize(cn))
  BY <1>1, AcceptedSignature DEF VerifyEvidence, SignEvidence
<1>3. \A v, w : CanonicalJSON("ConfigMap", v) = CanonicalJSON("ConfigMap", w) <=> v = w
  BY DEF CanonicalJSON
<1>4. Canonicalize(cm) = Canonicalize(cn)
      <=> /\ cm.namespace = cn.namespace /\ cm.name = cn.name
          /\ OmitEmpty(cm.labels) = OmitEmpty(cn.labels)
          /\ OmitEmpty(cm.data) = OmitEmpty(cn.data)
          /\ BinaryDigest(OmitEmpty(cm.binaryData)) = BinaryDigest(OmitEmpty(cn.binaryData))
  BY DEF Canonicalize
<1>5. \A c \in {cm, cn} : c.labels \in Maps /\ c.data \in Maps /\ c.binaryData \in Maps
  BY DEF ConfigMap
<1> QED
  BY <1>2, <1>3, <1>4, <1>5, OmittedMaps

-----------------------------------------------------------------------------
(***************************************************************************)
(* Bootstrap: the replicas register their webhooks.                        *)
(***************************************************************************)

Registering == {"getMutating", "putMutating", "getValidating", "putValidating"}

BootTypes ==
    /\ at \in [Replica -> {"none", "starting", "serving"} \cup Registering]
    /\ ca = [r \in Replica |-> ca[r]]
    /\ alone \subseteq Replica

\* While a replica counts as the last to start, it is the only one that writes the
\* configurations, and has written those it is past.
AloneInv ==
    \A r \in alone :
        /\ alone = {r}
        /\ \A q \in Replica \ {r} : at[q] \notin Registering
        /\ at[r] \in {"serving"} \cup Registering
        /\ at[r] \in {"getValidating", "putValidating", "serving"} => mutating = ca[r]
        /\ at[r] = "serving" => validating = ca[r]

BootInv == BootTypes /\ AloneInv

-----------------------------------------------------------------------------
LEMMA AloneInit == BootInit => BootInv
  BY DEF BootInit, BootInv, BootTypes, AloneInv

LEMMA CreatePodKeeps ==
    ASSUME BootInv, NEW r \in Replica, CreatePod(r)
    PROVE  BootInv'
  BY DEF CreatePod, BootInv, BootTypes, AloneInv, Registering

LEMMA GenerateKeeps ==
    ASSUME BootInv, NEW r \in Replica, generateServingBundle(r)
    PROVE  BootInv'
  <1> DEFINE a == CHOOSE x \in Authority \ Known : TRUE
  <1>1. ca' = [ca EXCEPT ![r] = a] /\ at' = [at EXCEPT ![r] = "getMutating"]
    BY DEF generateServingBundle
  <1> HIDE DEF a
  <1>2. alone' = {} \/ (alone' = {r} /\ \A q \in Replica \ {r} : at[q] \in {"none", "serving"})
    BY DEF generateServingBundle
  <1>3. BootTypes'
    BY <1>1, <1>2 DEF BootInv, BootTypes, Registering
  <1>4. AloneInv'
    BY <1>1, <1>2 DEF BootInv, BootTypes, AloneInv, Registering
  <1> QED BY <1>3, <1>4 DEF BootInv

\* A read of a configuration moves the replica on and changes nothing else.
LEMMA ReadKeeps ==
    ASSUME BootInv, NEW r \in Replica, NEW bundle,
           \/ ReadConfiguration(r, "getMutating", "putMutating", bundle)
           \/ ReadConfiguration(r, "getValidating", "putValidating", bundle)
    PROVE  BootInv'
  BY DEF ReadConfiguration, BootInv, BootTypes, AloneInv, Registering

\* Only the replica that counts writes a configuration, if one does.
LEMMA PutKeeps ==
    ASSUME BootInv, NEW r \in Replica,
           \/ at[r] = "putMutating" /\ Ensure(r)
           \/ at[r] = "putValidating" /\ EnsureValidation(r)
    PROVE  BootInv'
  <1>1. alone = {} \/ alone = {r}
    BY DEF BootInv, BootTypes, AloneInv, Registering
  <1>2. ASSUME at[r] = "putMutating", Ensure(r), mutating = seen[r]
        PROVE  BootInv'
    BY <1>1, <1>2 DEF Ensure, ReadConfiguration, BootInv, BootTypes, AloneInv, Registering
  <1>3. ASSUME at[r] = "putValidating", EnsureValidation(r), validating = seen[r]
        PROVE  BootInv'
    <2>1. /\ validating' = ca[r] /\ at' = [at EXCEPT ![r] = "serving"]
          /\ UNCHANGED <<ca, mutating, alone>>
      BY <1>3 DEF EnsureValidation, ReadConfiguration
    <2>2. BootTypes'
      BY <2>1 DEF BootInv, BootTypes
    <2>3. AloneInv'
      BY <1>1, <1>3, <2>1 DEF BootInv, BootTypes, AloneInv, Registering
    <2> QED BY <2>2, <2>3 DEF BootInv
  <1>4. ASSUME Exit(r), UNCHANGED ca
        PROVE  BootInv'
    BY <1>1, <1>4 DEF Exit, BootInv, BootTypes, AloneInv, Registering
  <1> QED BY <1>2, <1>3, <1>4 DEF Ensure, EnsureValidation, ReadConfiguration

LEMMA FaultKeeps ==
    ASSUME BootInv, NEW r \in Replica, Crash(r) \/ DeletePod(r)
    PROVE  BootInv'
  BY DEF Crash, DeletePod, Exit, BootInv, BootTypes, AloneInv, Registering

LEMMA AloneStep == BootInv /\ [BootNext]_bootVars => BootInv'
  <1> SUFFICES ASSUME BootInv, [BootNext]_bootVars PROVE BootInv'
    OBVIOUS
  <1>1. ASSUME NEW r \in Replica, Start(r) PROVE BootInv'
    <2>1. ASSUME Ensure(r) \/ EnsureValidation(r)
          PROVE  \/ \E bundle : \/ ReadConfiguration(r, "getMutating", "putMutating", bundle)
                                \/ ReadConfiguration(r, "getValidating", "putValidating", bundle)
                 \/ at[r] = "putMutating" /\ Ensure(r)
                 \/ at[r] = "putValidating" /\ EnsureValidation(r)
      BY <2>1 DEF Ensure, EnsureValidation
    <2> QED BY <1>1, <2>1, CreatePodKeeps, GenerateKeeps, ReadKeeps, PutKeeps DEF Start
  <1>2. CASE UNCHANGED bootVars
    BY <1>2 DEF bootVars, BootInv, BootTypes, AloneInv
  <1> QED BY <1>1, <1>2, FaultKeeps DEF BootNext

-----------------------------------------------------------------------------
\* The replica that started last, with none starting beside it, serves with a
\* certificate both configurations trust (internal/webhook/bootstrap, Ensure and
\* EnsureValidation), whatever crashed starts have left in them.
THEOREM LastStarterServes == BootSpec => []LastStarterTrusted
  <1>1. BootInv => LastStarterTrusted
    BY DEF BootInv, BootTypes, AloneInv, LastStarterTrusted
  <1> QED BY <1>1, AloneInit, AloneStep, PTL DEF BootSpec

-----------------------------------------------------------------------------
(***************************************************************************)
(* Console: what its REST API writes.                                      *)
(***************************************************************************)

\* A new version is written by any change of the status: the count of those stays
\* below the version.
ObjectInv ==
    /\ writes \in 1 .. MaxWrites
    /\ object # Null => /\ object \in Object
                        /\ object.version <= writes /\ object.status < object.version

\* A form holds a version the object really had; that of a script's request is the
\* version of what it read.  The answer of a request under way is not known yet.
SessionInv(c) ==
    /\ answer[c] \in Code \cup {Null}
    /\ session[c] # Null =>
          /\ session[c] \in Session /\ session[c].base.version <= writes
          /\ object # Null /\ session[c].base.version = object.version => object = session[c].base
          /\ answer[c] # "200"
          /\ c \in Script /\ session[c].at # "form" =>
                session[c].version = session[c].base.version

ConsoleInv ==
    /\ ObjectInv
    /\ session = [c \in Client |-> session[c]] /\ answer = [c \in Client |-> answer[c]]
    /\ \A c \in Client : SessionInv(c)

-----------------------------------------------------------------------------
LEMMA ConsoleStarts == ConsoleInit => ConsoleInv
  <1> SUFFICES ASSUME ConsoleInit PROVE ConsoleInv
    OBVIOUS
  <1>1. PICK spec \in Specs, annotated \in BOOLEAN :
           object = [spec |-> spec, annotated |-> annotated, status |-> 0, version |-> 1]
    BY DEF ConsoleInit
  <1>2. writes = 1 /\ 1 \in 1 .. MaxWrites /\ 0 \in 0 .. MaxWrites
    BY ConsoleConstants DEF ConsoleInit, ConsoleConstants
  <1>3. object \in Object /\ object.version = 1 /\ object.status = 0
    BY <1>1, <1>2 DEF Object
  <1>4. ObjectInv
    BY <1>2, <1>3 DEF ObjectInv
  <1>5. /\ session = [c \in Client |-> session[c]] /\ answer = [c \in Client |-> answer[c]]
        /\ \A c \in Client : SessionInv(c)
    BY DEF ConsoleInit, SessionInv
  <1> QED BY <1>4, <1>5 DEF ConsoleInv

\* What may become of the object in a step: nothing, its end, or a version that has not
\* been seen before.
ObjectStep ==
    /\ ObjectInv'
    /\ \/ UNCHANGED <<object, writes>>
       \/ object' = Null /\ UNCHANGED writes
       \/ writes' = writes + 1 /\ object' # Null /\ object'.version = writes'

\* What Store leaves: the values it was given, under the old version or a new one.
LEMMA Stored ==
    ASSUME ObjectInv, NEW new, NEW spec \in Specs, NEW annotated \in BOOLEAN,
           NEW status \in 0 .. writes, NEW version,
           new = [spec |-> spec, annotated |-> annotated, status |-> status, version |-> version],
           object = Null => status = 0,
           Store(new)
    PROVE  /\ ObjectStep /\ object' # Null
           /\ object'.spec = spec /\ object'.annotated = annotated /\ object'.status = status
  <1> DEFINE same == [new EXCEPT !.version = object.version]
             next == [new EXCEPT !.version = writes']
  <1>1. CASE object # Null /\ same = object
    <2>1. UNCHANGED <<object, writes>>
      BY <1>1 DEF Store
    <2>2. same.spec = spec /\ same.annotated = annotated /\ same.status = status
      OBVIOUS
    <2>3. ObjectInv'
      BY <2>1 DEF ObjectInv
    <2> QED BY <1>1, <2>1, <2>2, <2>3 DEF ObjectStep
  <1>2. CASE ~(object # Null /\ same = object)
    <2>1. writes < MaxWrites /\ writes' = writes + 1 /\ object' = next
      BY <1>2 DEF Store
    <2>2. next = [spec |-> spec, annotated |-> annotated, status |-> status,
                  version |-> writes']
      OBVIOUS
    <2>3. writes' \in 1 .. MaxWrites /\ status \in 0 .. MaxWrites /\ status < writes'
      BY <2>1, ConsoleConstants DEF ConsoleConstants, ObjectInv
    <2> HIDE DEF next
    <2>4. next \in Object
      BY <2>2, <2>3 DEF Object
    <2>5. /\ next.spec = spec /\ next.annotated = annotated
          /\ next.status = status /\ next.version = writes'
      BY <2>2
    <2>6. next # Null
      BY <2>4, ConsoleConstants DEF ConsoleConstants
    <2>7. ObjectInv'
      BY <2>1, <2>3, <2>4, <2>5 DEF ObjectInv
    <2> QED BY <2>1, <2>5, <2>6, <2>7 DEF ObjectStep
  <1> QED BY <1>1, <1>2

\* A client that takes no part in a step keeps its form: the object is what it read, or
\* has another version.
LEMMA BystanderKeeps ==
    ASSUME ConsoleInv, ObjectStep, NEW c \in Client,
           session'[c] = session[c], answer'[c] = answer[c]
    PROVE  SessionInv(c)'
  <1>1. writes \in Nat /\ writes' \in Nat /\ writes <= writes'
    BY DEF ConsoleInv, ObjectInv, ObjectStep
  <1>2. CASE session[c] = Null
    BY <1>2 DEF ConsoleInv, SessionInv
  <1>3. CASE session[c] # Null
    <2>1. session[c].base.version \in Nat /\ session[c].base.version <= writes
      BY <1>3 DEF ConsoleInv, SessionInv, Session, Object
    <2>2. session[c].base.version <= writes'
      BY <1>1, <2>1
    <2>3. object' # Null /\ session[c].base.version = object'.version => object' = session[c].base
      <3>1. CASE writes' = writes + 1 /\ object'.version = writes'
        BY <1>1, <2>1, <3>1
      <3> QED BY <1>3, <3>1 DEF ObjectStep, ConsoleInv, SessionInv
    <2> QED BY <1>3, <2>2, <2>3 DEF ConsoleInv, SessionInv
  <1> QED BY <1>2, <1>3

\* So a step of one client keeps the invariant if it does for that client.
LEMMA ClientKeeps ==
    ASSUME ConsoleInv, ObjectStep, NEW c \in Client, NEW s, NEW code,
           session' = [session EXCEPT ![c] = s] \/ (s = session[c] /\ UNCHANGED session),
           answer' = [answer EXCEPT ![c] = code] \/ (code = answer[c] /\ UNCHANGED answer),
           code \in Code \cup {Null},
           s # Null => /\ s \in Session /\ s.base.version <= writes'
                       /\ object' # Null /\ s.base.version = object'.version => object' = s.base
                       /\ code # "200"
                       /\ c \in Script /\ s.at # "form" => s.version = s.base.version
    PROVE  ConsoleInv'
  <1>1. session' = [d \in Client |-> IF d = c THEN s ELSE session[d]]
    BY DEF ConsoleInv
  <1>2. answer' = [d \in Client |-> IF d = c THEN code ELSE answer[d]]
    BY DEF ConsoleInv
  <1>3. SessionInv(c)'
    BY <1>1, <1>2 DEF SessionInv
  <1>4. \A d \in Client \ {c} : SessionInv(d)'
    BY <1>1, <1>2, BystanderKeeps
  <1> QED BY <1>1, <1>2, <1>3, <1>4 DEF ConsoleInv, ObjectStep

-----------------------------------------------------------------------------
Refusal == Code \ {"200", "201", "204"}

LEMMA ErrorCodes == \A err : writeError(err) \in Refusal
  BY DEF writeError, Refusal, Code

LEMMA Unchanged ==
    ASSUME ConsoleInv, UNCHANGED <<object, writes>>
    PROVE  ObjectStep
  BY DEF ConsoleInv, ObjectInv, ObjectStep

\* A request that failed leaves the form as it was, to be sent again.
LEMMA RefusedKeeps ==
    ASSUME ConsoleInv, NEW c \in Client, session[c] # Null, NEW code \in Refusal,
           Respond(c, code), UNCHANGED <<object, writes>>
    PROVE  ConsoleInv'
  <1>1. /\ session[c] \in Session /\ session[c].base.version <= writes
        /\ object # Null /\ session[c].base.version = object.version => object = session[c].base
    BY DEF ConsoleInv, SessionInv
  <1>2. session[c].base # Null
    BY <1>1, ConsoleConstants DEF ConsoleConstants, Session
  <1> DEFINE s == [session[c] EXCEPT !.at = "form", !.version = Null]
  <1>3. session' = [session EXCEPT ![c] = s] /\ answer' = [answer EXCEPT ![c] = code]
    BY <1>2 DEF Respond, Refusal
  <1>4. s \in Session /\ s.at = "form" /\ s.base = session[c].base
    BY <1>1 DEF Session
  <1>5. code \in Code /\ code # "200"
    BY DEF Refusal
  <1> HIDE DEF s
  <1> QED BY <1>1, <1>3, <1>4, <1>5, Unchanged, ClientKeeps

\* A request that succeeded closes the form.
LEMMA AcceptedKeeps ==
    ASSUME ConsoleInv, ObjectStep, NEW c \in Client, Respond(c, "200")
    PROVE  ConsoleInv'
  <1>1. session' = [session EXCEPT ![c] = Null] /\ answer' = [answer EXCEPT ![c] = "200"]
    BY DEF Respond
  <1> QED BY <1>1, ClientKeeps DEF Code

LEMMA OpenFormKeeps ==
    ASSUME ConsoleInv, NEW c \in Client, NEW crd, OpenForm(c, crd)
    PROVE  ConsoleInv'
  <1> DEFINE codes == {handleGet} \cup IF c \in Browser THEN {handleSchema(crd)} ELSE {}
             s == [at |-> "form", base |-> object, spec |-> object.spec, version |-> Null]
  <1>0. session[c] = Null /\ UNCHANGED <<object, writes>>
    BY DEF OpenForm
  <1>1. CASE codes = {"200"}
    <2>1. object # Null
      <3>1. writeError("NotFound") # "200"
        BY ErrorCodes DEF Refusal
      <3> QED BY <1>1, <3>1 DEF handleGet
    <2>2. object \in Object /\ object.version <= writes
      BY <2>1 DEF ConsoleInv, ObjectInv
    <2>3. s \in Session /\ s.base = object /\ s.at = "form"
      BY <2>2 DEF Session, Object
    <2>4. session' = [session EXCEPT ![c] = s] /\ answer' = [answer EXCEPT ![c] = Null]
      BY <1>1 DEF OpenForm
    <2>5. Null # "200"
      BY ConsoleConstants DEF ConsoleConstants, Code
    <2> HIDE DEF s
    <2> QED BY <1>0, <2>2, <2>3, <2>4, <2>5, Unchanged, ClientKeeps
  <1>2. CASE codes # {"200"}
    <2>1. PICK code \in codes : answer' = [answer EXCEPT ![c] = code]
      BY <1>2 DEF OpenForm
    <2>2. UNCHANGED session
      BY <1>2 DEF OpenForm
    <2>3. code \in Code
      <3>1. handleGet \in Code
        BY ErrorCodes DEF handleGet, Refusal, Code
      <3>2. handleSchema(crd) \in Code
        BY ErrorCodes DEF handleSchema, Refusal, Code
      <3> QED BY <3>1, <3>2
    <2> QED BY <1>0, <2>1, <2>2, <2>3, Unchanged, ClientKeeps
  <1> QED BY <1>1, <1>2

LEMMA SubmitKeeps ==
    ASSUME ConsoleInv, NEW c \in Client, NEW f \in Field, NEW v \in Value, handleSubmit(c, f, v)
    PROVE  ConsoleInv'
  <1> DEFINE old == session[c]
             version == IF c \in Browser THEN Null ELSE old.base.version
             s == [at |-> "sent", base |-> old.base, spec |-> [old.spec EXCEPT ![f] = v],
                   version |-> version]
  <1>1. /\ old # Null /\ UNCHANGED <<object, writes>>
        /\ answer' = [answer EXCEPT ![c] = Null]
    BY DEF handleSubmit
  <1>2. /\ old \in Session /\ old.base.version <= writes
        /\ object # Null /\ old.base.version = object.version => object = old.base
    BY <1>1 DEF ConsoleInv, SessionInv
  <1>3. session' = [session EXCEPT ![c] = s]
    <2>1. PICK stage, base, spec, ver :
             old = [at |-> stage, base |-> base, spec |-> spec, version |-> ver]
      BY <1>2 DEF Session
    <2>2. session' = [session EXCEPT ![c] =
             [old EXCEPT !.at = "sent", !.spec[f] = v, !.version = version]]
      BY DEF handleSubmit, ConsoleInv
    <2>3. [old EXCEPT !.at = "sent", !.spec[f] = v, !.version = version] = s
      <3> HIDE DEF old, version
      <3>1. PICK t : t = [old EXCEPT !.at = "sent"]
        OBVIOUS
      <3>2. t = [at |-> "sent", base |-> base, spec |-> spec, version |-> ver]
        BY <2>1, <3>1
      <3>3. PICK u : u = [t EXCEPT !.spec[f] = v]
        OBVIOUS
      <3>4. u = [at |-> "sent", base |-> base, spec |-> [spec EXCEPT ![f] = v], version |-> ver]
        BY <3>2, <3>3
      <3>5. [u EXCEPT !.version = version] = s
        BY <2>1, <3>4
      <3>6. [old EXCEPT !.at = "sent", !.spec[f] = v, !.version = version]
            = [u EXCEPT !.version = version]
        BY <3>1, <3>3
      <3> QED BY <3>5, <3>6
    <2> QED BY <2>2, <2>3
  <1>4. old.base \in Object /\ old.base.version \in 1 .. MaxWrites /\ old.spec \in Specs
    BY <1>2 DEF Session, Object
  <1>5. [old.spec EXCEPT ![f] = v] \in Specs
    BY <1>4 DEF Specs
  <1>6. s \in Session /\ s.base = old.base
    BY <1>4, <1>5 DEF Session
  <1>7. c \in Script => s.version = s.base.version
    BY ConsoleConstants DEF ConsoleConstants
  <1>8. Null # "200"
    BY ConsoleConstants DEF ConsoleConstants, Code
  <1> HIDE DEF s, old
  <1> QED BY <1>1, <1>2, <1>3, <1>6, <1>7, <1>8, Unchanged, ClientKeeps

LEMMA ResolveKeeps ==
    ASSUME ConsoleInv, NEW c \in Client, ResolveVersion(c)
    PROVE  ConsoleInv'
  <1> DEFINE old == session[c]
             version == IF old.version = Null THEN object.version ELSE old.version
             s == [at |-> "update", base |-> old.base, spec |-> old.spec, version |-> version]
  <1>1. old # Null /\ old.at = "sent" /\ UNCHANGED <<object, writes>>
    BY DEF ResolveVersion
  <1>2. CASE old.version = Null /\ object = Null
    BY <1>1, <1>2, ErrorCodes, RefusedKeeps DEF ResolveVersion
  <1>3. CASE ~(old.version = Null /\ object = Null)
    <2>1. /\ old \in Session /\ old.base.version <= writes /\ answer[c] # "200"
          /\ answer[c] \in Code \cup {Null}
          /\ object # Null /\ old.base.version = object.version => object = old.base
          /\ c \in Script => old.version = old.base.version
      BY <1>1 DEF ConsoleInv, SessionInv
    <2>2. session' = [session EXCEPT ![c] = s] /\ UNCHANGED answer
      <3>1. PICK stage, base, spec, ver :
               old = [at |-> stage, base |-> base, spec |-> spec, version |-> ver]
        BY <2>1 DEF Session
      <3>2. session' = [session EXCEPT ![c] = [old EXCEPT !.at = "update", !.version = version]]
        BY <1>3, <3>1 DEF ResolveVersion, ConsoleInv
      <3>3. [old EXCEPT !.at = "update", !.version = version] = s
        <4> HIDE DEF old, version
        <4>1. PICK t : t = [old EXCEPT !.at = "update"]
          OBVIOUS
        <4>2. t = [at |-> "update", base |-> base, spec |-> spec, version |-> ver]
          BY <3>1, <4>1
        <4>3. [t EXCEPT !.version = version] = s
          BY <3>1, <4>2
        <4>4. [old EXCEPT !.at = "update", !.version = version] = [t EXCEPT !.version = version]
          BY <4>1
        <4> QED BY <4>3, <4>4
      <3>4. UNCHANGED answer
        BY <1>3 DEF ResolveVersion
      <3> QED BY <3>2, <3>3, <3>4
    <2>3. version \in 1 .. MaxWrites
      BY <1>3, <2>1 DEF Session, ConsoleInv, ObjectInv, Object
    <2>4. s \in Session /\ s.base = old.base
      BY <2>1, <2>3 DEF Session
    <2>5. c \in Script => s.version = s.base.version
      <3>1. old.base.version # Null
        BY <2>1, ConsoleConstants DEF ConsoleConstants, Session, Object
      <3> QED BY <2>1, <3>1
    <2> HIDE DEF s, old
    <2> QED BY <1>1, <2>1, <2>2, <2>4, <2>5, Unchanged, ClientKeeps DEF old
  <1> QED BY <1>2, <1>3

\* What a successful handleUpdate writes.
LEMMA UpdateWrites ==
    ASSUME ConsoleInv, NEW c \in Client, handleUpdate(c), object # Null,
           object.version = session[c].version
    PROVE  /\ ObjectStep /\ object' # Null /\ Respond(c, "200")
           /\ object'.spec = session[c].spec /\ object'.status = object.status
           /\ object'.annotated = (c \in Script /\ session[c].base.annotated)
  <1>1. session[c] \in Session /\ object \in Object
    BY DEF handleUpdate, ConsoleInv, SessionInv, ObjectInv
  <1>2. PICK annotated \in BOOLEAN :
           annotated = (c \in Script /\ session[c].base.annotated)
    BY Zenon
  <1>3. session[c].spec \in Specs /\ object.status \in 0 .. writes
    BY <1>1 DEF Session, Object, ConsoleInv, ObjectInv
  <1>4. PICK new : new = [spec |-> session[c].spec, annotated |-> annotated,
                          status |-> object.status, version |-> Null]
    OBVIOUS
  <1>5. Respond(c, "200") /\ Store(new)
    <2>1. Respond(c, "200")
          /\ Store([spec |-> session[c].spec, version |-> Null,
                    annotated |-> c \in Script /\ session[c].base.annotated,
                    status |-> object.status])
      BY Zenon DEF handleUpdate
    <2>2. Store([spec |-> session[c].spec, version |-> Null, annotated |-> annotated,
                 status |-> object.status])
      BY <1>2, <2>1, Zenon
    <2>3. [spec |-> session[c].spec, version |-> Null, annotated |-> annotated,
           status |-> object.status] = new
      BY <1>4
    <2> QED BY <2>1, <2>2, <2>3, Zenon
  <1>6. /\ ObjectStep /\ object' # Null /\ object'.spec = session[c].spec
        /\ object'.annotated = annotated /\ object'.status = object.status
    BY <1>3, <1>4, <1>5, Stored DEF ConsoleInv
  <1> QED BY <1>2, <1>5, <1>6, Zenon

LEMMA UpdateKeeps ==
    ASSUME ConsoleInv, NEW c \in Client, handleUpdate(c)
    PROVE  ConsoleInv'
  <1>1. CASE object # Null /\ object.version = session[c].version
    BY <1>1, UpdateWrites, AcceptedKeeps
  <1>2. CASE ~(object # Null /\ object.version = session[c].version)
    <2>1. /\ session[c] # Null /\ UNCHANGED <<object, writes>>
          /\ Respond(c, writeError("NotFound")) \/ Respond(c, writeError("Conflict"))
      BY <1>2 DEF handleUpdate
    <2> QED BY <2>1, ErrorCodes, RefusedKeeps
  <1> QED BY <1>1, <1>2

LEMMA CreateKeeps ==
    ASSUME ConsoleInv, NEW c \in Client, NEW spec \in Specs, handleCreate(c, spec)
    PROVE  ConsoleInv'
  <1>0. session[c] = Null /\ UNCHANGED session
    BY DEF handleCreate
  <1>1. CASE object # Null
    <2>1. UNCHANGED <<object, writes>> /\ answer' = [answer EXCEPT ![c] = writeError("AlreadyExists")]
      BY <1>1 DEF handleCreate
    <2>2. writeError("AlreadyExists") \in Code
      BY ErrorCodes DEF Refusal
    <2> QED BY <1>0, <2>1, <2>2, Unchanged, ClientKeeps
  <1>2. CASE object = Null
    <2>1. /\ Store([spec |-> spec, annotated |-> FALSE, status |-> 0, version |-> Null])
          /\ answer' = [answer EXCEPT ![c] = "201"]
      BY <1>2 DEF handleCreate
    <2>2. ObjectInv /\ 0 \in 0 .. writes
      BY DEF ConsoleInv, ObjectInv
    <2>3. ObjectStep
      BY <2>1, <2>2, Stored
    <2>4. "201" \in Code
      BY DEF Code
    <2> QED BY <1>0, <2>1, <2>3, <2>4, ClientKeeps
  <1> QED BY <1>1, <1>2

LEMMA ObjectDeleteKeeps ==
    ASSUME ConsoleInv, NEW c \in Client, handleDelete(c)
    PROVE  ConsoleInv'
  <1>1. session[c] = Null /\ UNCHANGED session
    BY DEF handleDelete
  <1>2. ObjectStep
    BY DEF handleDelete, ConsoleInv, ObjectInv, ObjectStep
  <1>3. PICK code \in Code : answer' = [answer EXCEPT ![c] = code]
    BY ErrorCodes DEF handleDelete, Refusal, Code
  <1> QED BY <1>1, <1>2, <1>3, ClientKeeps

LEMMA RejectedKeeps ==
    ASSUME ConsoleInv, NEW c \in Client, Rejected(c)
    PROVE  ConsoleInv'
  <1>1. session[c] = Null /\ UNCHANGED session /\ UNCHANGED <<object, writes>>
    BY DEF Rejected
  <1>2. PICK code \in {"404", "400"} : answer' = [answer EXCEPT ![c] = code]
    BY DEF Rejected
  <1>3. code \in Code
    BY DEF Code
  <1> QED BY <1>1, <1>2, <1>3, Unchanged, ClientKeeps

LEMMA CloseKeeps ==
    ASSUME ConsoleInv, NEW c \in Client, Close(c)
    PROVE  ConsoleInv'
  <1>1. /\ session' = [session EXCEPT ![c] = Null] /\ answer' = [answer EXCEPT ![c] = Null]
        /\ UNCHANGED <<object, writes>>
    BY DEF Close
  <1> QED BY <1>1, Unchanged, ClientKeeps

LEMMA ElsewhereKeeps ==
    ASSUME ConsoleInv, Elsewhere
    PROVE  ConsoleInv'
  <1>1. object # Null /\ object \in Object /\ UNCHANGED <<session, answer>>
    BY DEF Elsewhere, ConsoleInv, ObjectInv
  <1>2. PICK spec \in Specs, annotated \in BOOLEAN, status \in Nat, version \in Nat :
           object = [spec |-> spec, annotated |-> annotated, status |-> status,
                     version |-> version]
    BY <1>1 DEF Object
  <1>3. status + 1 \in 0 .. writes /\ status \in 0 .. writes /\ ObjectInv
    BY <1>1, <1>2 DEF ConsoleInv, ObjectInv
  <1>4. ASSUME Store([object EXCEPT !.status = @ + 1])
        PROVE  ObjectStep
    <2>1. [object EXCEPT !.status = @ + 1] =
            [spec |-> spec, annotated |-> annotated, status |-> status + 1, version |-> version]
      BY <1>2
    <2> QED BY <1>1, <1>3, <1>4, <2>1, Stored
  <1>5. ASSUME Store([object EXCEPT !.annotated = TRUE])
        PROVE  ObjectStep
    <2>1. [object EXCEPT !.annotated = TRUE] =
            [spec |-> spec, annotated |-> TRUE, status |-> status, version |-> version]
      <3>1. PICK b : b = TRUE
        OBVIOUS
      <3>2. [object EXCEPT !.annotated = b] =
              [spec |-> spec, annotated |-> b, status |-> status, version |-> version]
        BY <1>2
      <3> QED BY <3>1, <3>2, Zenon
    <2> QED BY <1>1, <1>3, <1>5, <2>1, Stored
  <1>6. ASSUME NEW f \in Field, NEW v \in Value, Store([object EXCEPT !.spec[f] = v])
        PROVE  ObjectStep
    <2>1. [object EXCEPT !.spec[f] = v] =
            [spec |-> [spec EXCEPT ![f] = v], annotated |-> annotated, status |-> status,
             version |-> version]
      BY <1>2
    <2>2. [spec EXCEPT ![f] = v] \in Specs
      BY DEF Specs
    <2> QED BY <1>1, <1>3, <1>6, <2>1, <2>2, Stored
  <1>7. ObjectStep
    BY <1>4, <1>5, <1>6 DEF Elsewhere
  <1>8. \A c \in Client : SessionInv(c)'
    BY <1>1, <1>7, BystanderKeeps
  <1> QED BY <1>1, <1>7, <1>8 DEF ConsoleInv, ObjectStep

LEMMA ConsoleStep == ConsoleInv /\ [ConsoleNext]_consoleVars => ConsoleInv'
  <1> SUFFICES ASSUME ConsoleInv, [ConsoleNext]_consoleVars PROVE ConsoleInv'
    OBVIOUS
  <1>1. ASSUME NEW c \in Client, NEW crd, OpenForm(c, crd) PROVE ConsoleInv'
    BY <1>1, OpenFormKeeps
  <1>2. ASSUME NEW c \in Client, ResolveVersion(c) \/ handleUpdate(c) PROVE ConsoleInv'
    BY <1>2, ResolveKeeps, UpdateKeeps
  <1>3. ASSUME NEW c \in Client, handleDelete(c) \/ Close(c) \/ Rejected(c) PROVE ConsoleInv'
    BY <1>3, ObjectDeleteKeeps, CloseKeeps, RejectedKeeps
  <1>4. ASSUME NEW c \in Client, NEW err, APICallFails(c, err) PROVE ConsoleInv'
    BY <1>4, ErrorCodes, RefusedKeeps DEF APICallFails
  <1>5. ASSUME NEW c \in Client, NEW f \in Field, NEW v \in Value, handleSubmit(c, f, v)
        PROVE  ConsoleInv'
    BY <1>5, SubmitKeeps
  <1>6. ASSUME NEW c \in Client, NEW spec \in Specs, handleCreate(c, spec) PROVE ConsoleInv'
    BY <1>6, CreateKeeps
  <1>7. CASE UNCHANGED consoleVars
    <2>1. ObjectStep
      BY <1>7, Unchanged DEF consoleVars
    <2> QED BY <1>7, <2>1, BystanderKeeps DEF consoleVars, ConsoleInv, ObjectStep
  <1> QED BY <1>1, <1>2, <1>3, <1>4, <1>5, <1>6, <1>7, ElsewhereKeeps DEF ConsoleNext

LEMMA ConsoleInvariant == ConsoleSpec => []ConsoleInv
  BY ConsoleStarts, ConsoleStep, PTL DEF ConsoleSpec

-----------------------------------------------------------------------------
\* The answer 200 to a request under way is handleUpdate's, for the version that is
\* stored.
LEMMA OnlyUpdateApplies ==
    ASSUME ConsoleInv, [ConsoleNext]_consoleVars, NEW c \in Client, Applies(c)
    PROVE  handleUpdate(c) /\ object # Null /\ object.version = session[c].version
  <1>1. session[c] # Null /\ session[c].at = "update" /\ answer'[c] = "200" /\ answer[c] # "200"
    BY DEF Applies, ConsoleInv, SessionInv
  <1>2. \A d : answer' # [answer EXCEPT ![d] = Null]
    BY <1>1, ConsoleConstants DEF ConsoleConstants, Code, ConsoleInv
  <1>3. ASSUME NEW code \in Refusal, Respond(c, code) PROVE FALSE
    BY <1>1, <1>3 DEF Respond, Refusal, ConsoleInv
  <1>4. ASSUME NEW d \in Client, d # c, NEW code, answer' = [answer EXCEPT ![d] = code]
        PROVE  FALSE
    BY <1>1, <1>4 DEF ConsoleInv
  <1>5. answer' # answer
    BY <1>1
  <1>6. ASSUME NEW d \in Client, NEW crd, OpenForm(d, crd) PROVE FALSE
    <2>1. d # c
      BY <1>1, <1>6 DEF OpenForm
    <2>2. \E code : answer' = [answer EXCEPT ![d] = code]
      BY <1>6 DEF OpenForm
    <2> QED BY <1>4, <2>1, <2>2
  <1>7. ASSUME NEW d \in Client, ResolveVersion(d) PROVE FALSE
    <2>1. d # c
      BY <1>1, <1>7 DEF ResolveVersion
    <2> QED BY <1>4, <1>5, <1>7, <2>1 DEF ResolveVersion, Respond
  <1>8. ASSUME NEW d \in Client, handleUpdate(d)
        PROVE  handleUpdate(c) /\ object # Null /\ object.version = session[c].version
    <2>1. \E code : answer' = [answer EXCEPT ![d] = code]
      BY <1>8 DEF handleUpdate, Respond
    <2>2. d = c
      BY <1>4, <2>1
    <2>3. CASE ~(object # Null /\ object.version = session[c].version)
      <3>1. Respond(c, writeError("NotFound")) \/ Respond(c, writeError("Conflict"))
        BY <1>8, <2>2, <2>3 DEF handleUpdate
      <3> QED BY <1>3, <3>1, ErrorCodes
    <2> QED BY <1>8, <2>2, <2>3
  <1>9. ASSUME NEW d \in Client, NEW err, APICallFails(d, err) PROVE FALSE
    BY <1>3, <1>4, <1>9, ErrorCodes DEF APICallFails, Respond
  <1>10. ASSUME NEW d \in Client, handleDelete(d) \/ Close(d) \/ Rejected(d) PROVE FALSE
    <2>1. d # c
      BY <1>1, <1>10 DEF handleDelete, Close, Rejected
    <2>2. \E code : answer' = [answer EXCEPT ![d] = code]
      BY <1>10 DEF handleDelete, Close, Rejected
    <2> QED BY <1>4, <2>1, <2>2
  <1>11. ASSUME NEW d \in Client, NEW f, NEW v, handleSubmit(d, f, v) PROVE FALSE
    BY <1>2, <1>11 DEF handleSubmit
  <1>12. ASSUME NEW d \in Client, NEW spec, handleCreate(d, spec) PROVE FALSE
    <2>1. d # c
      BY <1>1, <1>12 DEF handleCreate
    <2>2. \E code : answer' = [answer EXCEPT ![d] = code]
      BY <1>12 DEF handleCreate
    <2> QED BY <1>4, <2>1, <2>2
  <1>13. ~(Elsewhere \/ UNCHANGED consoleVars)
    BY <1>5 DEF Elsewhere, consoleVars
  <1> QED BY <1>6, <1>7, <1>8, <1>9, <1>10, <1>11, <1>12, <1>13 DEF ConsoleNext

\* Types, and that no two versions of an object share a number: deleted and created
\* again, it does not match a form of its former self.
THEOREM ConsoleTypeCorrect == ConsoleSpec => []ConsoleTypeOK
  <1>1. ConsoleInv => ConsoleTypeOK
    BY DEF ConsoleInv, ObjectInv, SessionInv, ConsoleTypeOK
  <1> QED BY <1>1, ConsoleInvariant, PTL

\* A client that sends back the version it read writes only the fields it edited
\* (internal/console, handleUpdate).
THEOREM RoundTripsKeepOthersWrites == ConsoleSpec => RoundTripLosesNothing
  <1>1. ConsoleInv /\ [ConsoleNext]_consoleVars =>
          [\A c \in Script : Applies(c) => Kept(c) /\ object'.annotated = object.annotated]_consoleVars
    <2> SUFFICES ASSUME ConsoleInv, [ConsoleNext]_consoleVars, NEW c \in Script, Applies(c)
                 PROVE  Kept(c) /\ object'.annotated = object.annotated
      BY Zenon
    <2>1. c \in Client
      BY DEF Client
    <2>2. handleUpdate(c) /\ object # Null /\ object.version = session[c].version
      BY <2>1, OnlyUpdateApplies
    <2>3. session[c] # Null /\ session[c].at = "update"
      BY DEF Applies
    <2>4. object = session[c].base
      BY <2>1, <2>2, <2>3 DEF ConsoleInv, SessionInv
    <2>5. /\ object'.spec = session[c].spec /\ object'.status = object.status
          /\ object'.annotated = (c \in Script /\ session[c].base.annotated)
      BY <2>1, <2>2, UpdateWrites
    <2>6. Kept(c)
      BY <2>4, <2>5 DEF Kept, Edited
    <2>7. object.annotated \in BOOLEAN
      BY <2>2 DEF ConsoleInv, ObjectInv, Object
    <2>8. object'.annotated = object.annotated
      BY <2>4, <2>5, <2>7
    <2> QED BY <2>6, <2>8
  <1> QED BY <1>1, ConsoleInvariant, PTL DEF ConsoleSpec, RoundTripLosesNothing

\* handleUpdate never creates the object again.
THEOREM UpdateNeverRecreates == ConsoleSpec => NeverRecreates
  <1>1. ConsoleInv /\ [ConsoleNext]_consoleVars => [\A c \in Client : Applies(c) => object # Null]_consoleVars
    BY OnlyUpdateApplies
  <1> QED BY <1>1, ConsoleInvariant, PTL DEF ConsoleSpec, NeverRecreates

=============================================================================
