------------------------------- MODULE Console -------------------------------
(***************************************************************************)
(* The web console: the form of a custom resource in the browser           *)
(* (ui/console) and the REST API behind it (internal/console).  A form is  *)
(* filled with what the object was when it was opened; saving it sends the *)
(* whole spec back, and handleUpdate writes it over the object.  Other     *)
(* clients of the same API send back the object they read, changed, with   *)
(* its resourceVersion.  Controllers and other users write meanwhile.      *)
(*                                                                         *)
(* One object is followed; kinds and names only choose it.                 *)
(***************************************************************************)
EXTENDS Integers, FiniteSets

CONSTANTS
    Null,       \* nil, NotFound and absent
    Browser,    \* sessions of the browser's form
    Script,     \* clients of the REST API that send back what they read
    Field,      \* fields of the spec
    Value,      \* values of a field
    MaxWrites   \* bound: writes to the object

Client == Browser \cup Script

Specs == [Field -> Value]
Object == [spec : Specs, annotated : BOOLEAN, status : 0 .. MaxWrites, version : 1 .. MaxWrites]
Session ==
    [at : {"form", "sent", "update"}, base : Object, spec : Specs,
     version : 1 .. MaxWrites \cup {Null}]
Code == {"200", "201", "204", "400", "403", "404", "409", "500"}

ASSUME ConsoleConstants ==
    /\ Browser \cap Script = {} /\ MaxWrites \in Nat \ {0}
    /\ Null \notin Value /\ Value # {} /\ Field # {}
    /\ Null \notin Object \cup Session \cup Code \cup 1 .. MaxWrites

VARIABLES
    object,     \* the stored object: [spec, annotated, status, version], or Null
    writes,     \* writes so far; the API server numbers versions by it
    session,    \* Client -> its form or request, or Null
    answer      \* Client -> the HTTP status of its last request, or Null

consoleVars == <<object, writes, session, answer>>

ConsoleInit ==
    /\ writes = 1
    /\ \E spec \in Specs, annotated \in BOOLEAN :
          object = [spec |-> spec, annotated |-> annotated, status |-> 0, version |-> 1]
    /\ session = [c \in Client |-> Null]
    /\ answer = [c \in Client |-> Null]

-----------------------------------------------------------------------------
\* writeError: a conflict of versions is none of the cases it tells apart.
writeError(err) ==
    CASE err = "NotFound" -> "404" [] err = "AlreadyExists" -> "409"
      [] err = "Invalid" -> "400" [] err = "Forbidden" -> "403" [] OTHER -> "500"

\* The request ends with this answer; the form stays open after an error, the browser
\* leaves it after success.
Respond(c, code) ==
    /\ answer' = [answer EXCEPT ![c] = code]
    /\ session' = [session EXCEPT ![c] =
          IF code \in {"200", "201", "204"} \/ @.base = Null THEN Null
          ELSE [@ EXCEPT !.at = "form", !.version = Null]]

\* Mutant: annotations do not make a new version.
StoreSpec(new) ==
    IF object # Null /\ [new EXCEPT !.version = object.version, !.annotated = object.annotated] = object
    THEN object' = [new EXCEPT !.version = object.version] /\ UNCHANGED writes
    ELSE /\ writes < MaxWrites /\ writes' = writes + 1
         /\ object' = [new EXCEPT !.version = writes']

\* The API server stores a new version, if anything differs.
Store(new) ==
    IF object # Null /\ [new EXCEPT !.version = object.version] = object
    THEN UNCHANGED <<object, writes>>
    ELSE /\ writes < MaxWrites /\ writes' = writes + 1
         /\ object' = [new EXCEPT !.version = writes']

handleGet == IF object = Null THEN writeError("NotFound") ELSE "200"

\* The schema of the version the console knows, from the CRD on the cluster.
handleSchema(crd) ==
    CASE crd = "served" -> "200" [] crd = "missing" -> writeError("NotFound")
      [] OTHER -> writeError("no such version")

\* ResourceForm in edit mode needs the schema and the object, a script the object: then
\* the form shows the spec.  One failure leaves no form.
OpenForm(c, crd) ==
    LET codes == {handleGet} \cup IF c \in Browser THEN {handleSchema(crd)} ELSE {}
    IN  /\ session[c] = Null
        /\ IF codes = {"200"}
           THEN /\ session' = [session EXCEPT ![c] =
                      [at |-> "form", base |-> object, spec |-> object.spec, version |-> Null]]
                /\ answer' = [answer EXCEPT ![c] = Null]
           ELSE /\ \E code \in codes \ {"200"} : answer' = [answer EXCEPT ![c] = code]
                /\ UNCHANGED session
        /\ UNCHANGED <<object, writes>>

\* The user changes a field and saves: the form sends name, namespace and spec; a
\* script sends back the object it read.
handleSubmit(c, f, v) ==
    /\ session[c] # Null /\ session[c].at = "form"
    /\ session' = [session EXCEPT ![c].at = "sent", ![c].spec[f] = v,
                      ![c].version = IF c \in Browser THEN Null ELSE session[c].base.version]
    /\ answer' = [answer EXCEPT ![c] = Null]
    /\ UNCHANGED <<object, writes>>

\* Mutant: the version of the request is never looked at.
ResolveAlways(c) ==
    /\ session[c] # Null /\ session[c].at = "sent"
    /\ IF object = Null
       THEN Respond(c, writeError("NotFound"))
       ELSE /\ session' = [session EXCEPT ![c].at = "update", ![c].version = object.version]
            /\ UNCHANGED answer
    /\ UNCHANGED <<object, writes>>

\* handleUpdate, first call: without a version in the request, take the current one.
ResolveVersion(c) ==
    /\ session[c] # Null /\ session[c].at = "sent"
    /\ IF session[c].version = Null /\ object = Null
       THEN Respond(c, writeError("NotFound"))
       ELSE /\ session' = [session EXCEPT ![c].at = "update",
                  ![c].version = IF @ = Null THEN object.version ELSE @]
            /\ UNCHANGED answer
    /\ UNCHANGED <<object, writes>>

\* Mutant: the object is created when it is not there any more.
Upsert(c) ==
    /\ session[c] # Null /\ session[c].at = "update"
    /\ IF object # Null /\ object.version # session[c].version
       THEN Respond(c, writeError("Conflict")) /\ UNCHANGED <<object, writes>>
       ELSE /\ Store([spec |-> session[c].spec, version |-> Null,
                      annotated |-> c \in Script /\ session[c].base.annotated,
                      status |-> IF object = Null THEN 0 ELSE object.status])
            /\ Respond(c, "200")

\* handleUpdate, second call: replace the object, its annotations included, unless it
\* has another version.  The status is a subresource and stays.
handleUpdate(c) ==
    /\ session[c] # Null /\ session[c].at = "update"
    /\ IF object = Null
       THEN Respond(c, writeError("NotFound")) /\ UNCHANGED <<object, writes>>
       ELSE IF object.version # session[c].version
       THEN Respond(c, writeError("Conflict")) /\ UNCHANGED <<object, writes>>
       ELSE /\ Store([spec |-> session[c].spec, version |-> Null,
                      annotated |-> c \in Script /\ session[c].base.annotated,
                      status |-> object.status])
            /\ Respond(c, "200")

\* ResourceForm in create mode.
handleCreate(c, spec) ==
    /\ session[c] = Null
    /\ IF object # Null
       THEN /\ answer' = [answer EXCEPT ![c] = writeError("AlreadyExists")]
            /\ UNCHANGED <<object, writes>>
       ELSE /\ Store([spec |-> spec, annotated |-> FALSE, status |-> 0, version |-> Null])
            /\ answer' = [answer EXCEPT ![c] = "201"]
    /\ UNCHANGED session

handleDelete(c) ==
    /\ session[c] = Null
    /\ object' = Null
    /\ answer' = [answer EXCEPT ![c] = IF object = Null THEN writeError("NotFound") ELSE "204"]
    /\ UNCHANGED <<writes, session>>

Close(c) ==
    /\ session[c] # Null /\ session[c].at = "form"
    /\ session' = [session EXCEPT ![c] = Null] /\ answer' = [answer EXCEPT ![c] = Null]
    /\ UNCHANGED <<object, writes>>

\* A call to the API server fails.
APICallFails(c, err) ==
    /\ session[c] # Null /\ session[c].at \in {"sent", "update"}
    /\ Respond(c, writeError(err))
    /\ UNCHANGED <<object, writes>>

\* A request for a kind that is not registered (resourceForKind), with a body that is no
\* object (decodeBody) or without a namespace is answered before any call.
Rejected(c) ==
    /\ session[c] = Null
    /\ \E code \in {"404", "400"} : answer' = [answer EXCEPT ![c] = code]
    /\ UNCHANGED <<object, writes, session>>

\* Others: a controller writes the status, or annotates; a user edits a field.
Elsewhere ==
    /\ object # Null
    /\ \/ Store([object EXCEPT !.status = @ + 1])
       \/ Store([object EXCEPT !.annotated = TRUE])
       \/ \E f \in Field, v \in Value : Store([object EXCEPT !.spec[f] = v])
    /\ UNCHANGED <<session, answer>>

ConsoleNext ==
    \/ \E c \in Client :
          \/ \E crd \in {"served", "missing", "another version"} : OpenForm(c, crd)
          \/ ResolveVersion(c) \/ handleUpdate(c) \/ handleDelete(c)
          \/ Close(c) \/ Rejected(c)
          \/ \E err \in {"Unavailable", "Invalid", "Forbidden"} : APICallFails(c, err)
          \/ \E f \in Field, v \in Value : handleSubmit(c, f, v)
          \/ \E spec \in Specs : handleCreate(c, spec)
    \/ Elsewhere

ConsoleSpec == ConsoleInit /\ [][ConsoleNext]_consoleVars

-----------------------------------------------------------------------------
\* Types.  No two versions of the object share a number, and none is used twice.
ConsoleTypeOK ==
    /\ writes \in 1 .. MaxWrites
    /\ object # Null => object \in Object /\ object.version <= writes
    /\ \A c \in Client :
          /\ session[c] = Null \/ session[c] \in Session
          /\ answer[c] \in Code \cup {Null}
          /\ object # Null /\ session[c] # Null /\ session[c].base.version = object.version =>
                object = session[c].base

\* The fields whose value in the form is not the one the client read.
Edited(c) == {f \in Field : session[c].spec[f] # session[c].base.spec[f]}

Applies(c) == session[c] # Null /\ session[c].at = "update" /\ answer'[c] = "200"

Kept(c) ==
    /\ \A f \in Field \ Edited(c) : object'.spec[f] = object.spec[f]
    /\ object'.status = object.status

\* A client that sends back the version it read never undoes what others wrote since:
\* handleUpdate changes the fields the client edited and nothing else, or answers
\* with an error.
RoundTripLosesNothing ==
    [][\A c \in Script : Applies(c) => Kept(c) /\ object'.annotated = object.annotated]_consoleVars

\* Saving a form whose object was deleted meanwhile answers an error: handleUpdate
\* never brings an object back.
NeverRecreates ==
    [][\A c \in Client : Applies(c) => object # Null]_consoleVars

-----------------------------------------------------------------------------
\* What the comments say and the code does not do.

\* handleUpdate fetches the version "so the update doesn't blindly clobber a concurrent
\* change": a saved form keeps the fields its user did not touch as they are.
NothingClobbered ==
    [][\A c \in Client : Applies(c) => Kept(c)]_consoleVars

=============================================================================
