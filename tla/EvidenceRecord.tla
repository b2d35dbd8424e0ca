---------------------------- MODULE EvidenceRecord ----------------------------
(***************************************************************************)
(* The audit chain: AIEvidenceRecords that name the digest of the record   *)
(* before them, and the manager's reconciler that writes the digest of each*)
(* record's spec into its status                                           *)
(* (internal/controller/aievidencerecord_controller.go).                   *)
(*                                                                         *)
(* No code of the operator creates records: the audit flow does, taking    *)
(* previousRecordDigest from the status of a record it has read.           *)
(***************************************************************************)
EXTENDS Integers, FiniteSets

CONSTANTS
    None,       \* "", nil and NotFound
    Name,       \* names of records
    Payload,    \* payload digests
    MaxEdits    \* bound: edits and deletions of records

ASSUME RecordConstants == MaxEdits \in Nat /\ None \notin Payload

VARIABLES
    records,    \* Name -> [spec, digest, anchored], or None
    queue,      \* records the workqueue holds
    work,       \* the Reconcile under way: [name, spec, stale], or None
    edits

vars == <<records, queue, work, edits>>

\* SHA256Hex of the marshalled spec: it determines the spec, the digest of the record
\* before it included.
SHA256Hex(spec) == [sha256 |-> spec]

Digests == {records[n].digest : n \in {m \in Name : records[m] # None}} \ {None}

Init ==
    /\ records = [n \in Name |-> None]
    /\ queue = {} /\ work = None /\ edits = 0

\* Any write of a record sends an event and outdates the copy Reconcile holds.
Write(n, record) ==
    /\ records' = [records EXCEPT ![n] = record]
    /\ queue' = queue \cup {n}
    /\ work' = IF work # None /\ work.name = n THEN [work EXCEPT !.stale = TRUE] ELSE work

-----------------------------------------------------------------------------
Get(n) ==
    /\ work = None /\ n \in queue
    /\ queue' = queue \ {n}
    /\ work' = IF records[n] = None THEN None
               ELSE [name |-> n, spec |-> records[n].spec, stale |-> FALSE]
    /\ UNCHANGED <<records, edits>>

Retry == work' = None /\ queue' = queue \cup {work.name}

\* Mutant: a record once anchored stays so.
ChainedForGood(old, spec) ==
    [old EXCEPT !.digest = SHA256Hex(spec), !.anchored = @ \/ spec.checkpoint]

\* Mutant: the digest covers the status too.
ChainedToItself(old, spec) ==
    [old EXCEPT !.digest = SHA256Hex([spec EXCEPT !.previous = old.digest]),
                !.anchored = spec.checkpoint]

Chained(old, spec) ==
    [old EXCEPT !.digest = SHA256Hex(spec), !.anchored = spec.checkpoint]

\* Digest and anchoring of the spec that was read, unless the record has changed; a
\* status that changes sends an event of its own.
UpdateStatus ==
    /\ work # None
    /\ LET old == records[work.name]
           new == Chained(old, work.spec)
       IN  IF work.stale THEN Retry /\ UNCHANGED records
           ELSE /\ records' = [records EXCEPT ![work.name] = new]
                /\ queue' = IF new = old THEN queue ELSE queue \cup {work.name}
                /\ work' = None
    /\ UNCHANGED edits

\* Mutant: the error is dropped.
CallFailsQuietly == work # None /\ work' = None /\ UNCHANGED <<records, queue, edits>>

\* A call fails.
CallFails == work # None /\ Retry /\ UNCHANGED <<records, edits>>

\* The manager starts again and lists all records.
Restart ==
    /\ work' = None /\ queue' = {n \in Name : records[n] # None}
    /\ UNCHANGED <<records, edits>>

-----------------------------------------------------------------------------
\* The audit flow appends a record after one whose digest it has read.
AppendRecord(n, payload, previous, checkpoint) ==
    /\ records[n] = None
    /\ Write(n, [spec |-> [payload |-> payload, previous |-> previous, checkpoint |-> checkpoint],
                 digest |-> None, anchored |-> FALSE])
    /\ UNCHANGED edits

\* A user edits a record: its payload, or the checkpoint it is anchored at.
Edit(n, payload, checkpoint) ==
    /\ records[n] # None /\ edits < MaxEdits
    /\ LET spec == [records[n].spec EXCEPT !.payload = payload, !.checkpoint = checkpoint]
       IN  records[n].spec # spec /\ Write(n, [records[n] EXCEPT !.spec = spec])
    /\ edits' = edits + 1

Delete(n) ==
    /\ records[n] # None /\ edits < MaxEdits
    /\ Write(n, None)
    /\ edits' = edits + 1

Reconcile == (\E n \in Name : Get(n)) \/ UpdateStatus

Next ==
    \/ Reconcile \/ CallFails \/ Restart
    \/ \E n \in Name, payload \in Payload, checkpoint \in BOOLEAN :
          \/ \E previous \in Digests \cup {None} : AppendRecord(n, payload, previous, checkpoint)
          \/ Edit(n, payload, checkpoint)
    \/ \E n \in Name : Delete(n)

Spec == Init /\ [][Next]_vars

-----------------------------------------------------------------------------
Quiet == queue = {} /\ work = None

\* Types.  A record says it is anchored only if it had a checkpoint when its digest
\* was taken: the two parts of the status are of one version of the spec.
TypeOK ==
    /\ queue \subseteq Name /\ edits \in 0 .. MaxEdits
    /\ work # None => work.name \in Name /\ work.stale \in BOOLEAN
    /\ \A n \in Name : records[n] # None =>
          /\ records[n].spec.payload \in Payload
          /\ records[n].anchored =
                (records[n].digest # None /\ records[n].digest.sha256.checkpoint)

\* When the reconciler has nothing more to do, every record carries the digest of the
\* spec it has, whatever was edited, lost or retried while it was at work.
DigestsCurrent ==
    Quiet => \A n \in Name : records[n] # None =>
        records[n].digest = SHA256Hex(records[n].spec)

Linked ==
    \A n \in Name : records[n] # None /\ records[n].spec.previous # None =>
        records[n].spec.previous \in Digests

\* The chain holds as long as nobody edits or deletes a record: the reconciler alone
\* never changes a digest another record already names.
ChainHolds == edits = 0 => Linked

-----------------------------------------------------------------------------
\* What the documentation says and the code does not do.

\* "chaque entrée est immuable une fois créée" (README.md), "chaque enregistrement
\* immuable référence le digest du précédent (append-only)" (docs/aievidencerecord.md):
\* the record a record names is there, with that digest.
ChainIntact == Quiet => Linked

=============================================================================
