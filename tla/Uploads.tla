-------------------------------- MODULE Uploads ---------------------------------
(***************************************************************************)
(* The uploads service (apps/uploads/uploads.go): tus requests, the four   *)
(* hook listeners that keep the uploads table, and the hand-off of         *)
(* complete uploads to forklift.                                           *)
(*                                                                         *)
(* tusd announces what happens to an upload on four unbuffered channels.   *)
(* A request waits until the listener of its channel takes the event; the  *)
(* listener then updates the table while the request goes on, so that the  *)
(* updates of different listeners may happen in any order.  A listener     *)
(* validates the token of the request again: one that has expired since    *)
(* the request began makes it go on with user id 0.                        *)
(***************************************************************************)
EXTENDS Integers

CONSTANTS
    Files,        \* uploads
    NoFile,
    Size,         \* bound: chunks of an upload
    TokenValid    \* outcomes of validating a token again ({TRUE}: none expires)

ASSUME UploadsAssumption ==
    NoFile \notin Files /\ Size \in Nat \ {0} /\ TokenValid \subseteq BOOLEAN

VARIABLES
    tus,          \* what tusd knows about each upload
    request,      \* the request that is changing the upload (tusd holds its lock)
    withBody,     \* uploads created by a POST that carries data
    owed,         \* offsets that tusd has still to announce as progress
    listener,     \* the event each listener is handling
    object,       \* S3 objects
    status,       \* uploads table: status
    owner,        \* uploads table: the row has the user's id (not 0)
    received,     \* uploads table: received
    key,          \* uploads table: file name and key are set
    handedOff,    \* messages queued for forklift
    dropped       \* uploads whose hand-off an error or a restart has lost

uploadsVars == <<tus, request, withBody, owed, listener, object, status, owner,
                 received, key, handedOff, dropped>>
tusVars == <<tus, request, withBody, owed>>
table == <<status, owner, received, key>>

Hooks == {"created", "progress", "terminated", "completed", "notify"}

\* user: the token was still valid when the listener took the event.
Event == [file : Files \cup {NoFile}, offset : 0..Size, user : BOOLEAN]
NoEvent == [file |-> NoFile, offset |-> 0, user |-> FALSE]

\* key: the message names an S3 object; user: it has the user's id.
Message == [file : Files, key : BOOLEAN, user : BOOLEAN]

\* Types of the state; "notify" is the completed listener on its way to the queue.
UploadsTypeOK ==
    /\ tus \in [Files -> [state : {"none", "open", "finished", "gone"},
                          offset : 0..Size]]
    /\ request \in [Files -> {"none", "create", "write", "complete", "terminate"}]
    /\ withBody \subseteq Files
    /\ owed \in [Files -> SUBSET (1..Size)]
    /\ listener \in [Hooks -> Event]
    /\ object \in [Files -> {"none", "stored", "deleted"}]
    /\ status \in [Files -> {"absent", "created", "completed", "processed"}]
    /\ owner \in [Files -> BOOLEAN]
    /\ received \in [Files -> 0..Size]
    /\ key \in [Files -> BOOLEAN]
    /\ handedOff \subseteq Message
    /\ dropped \subseteq Files

UploadsInit ==
    /\ tus = [f \in Files |-> [state |-> "none", offset |-> 0]]
    /\ request = [f \in Files |-> "none"]
    /\ withBody = {}
    /\ owed = [f \in Files |-> {}]
    /\ listener = [h \in Hooks |-> NoEvent]
    /\ object = [f \in Files |-> "none"]
    /\ status = [f \in Files |-> "absent"]
    /\ owner = [f \in Files |-> FALSE]
    /\ received = [f \in Files |-> 0]
    /\ key = [f \in Files |-> FALSE]
    /\ handedOff = {}
    /\ dropped = {}

-----------------------------------------------------------------------------
(* Requests.                                                               *)

Free(hook) == listener[hook] = NoEvent

\* verifyUploadFileAccess: the upload has a row of this user.
verifyUploadFileAccess(f) == owner[f]

\* POST /uploads/; the body may already carry data (creation-with-upload).
PostFile(f, body) ==
    /\ tus[f].state = "none"
    /\ tus' = [tus EXCEPT ![f].state = "open"]
    /\ request' = [request EXCEPT ![f] = "create"]
    /\ withBody' = IF body THEN withBody \cup {f} ELSE withBody
    /\ UNCHANGED <<owed, listener, object, table, handedOff, dropped>>

StartPatch(f) ==
    /\ request[f] = "none"
    /\ tus[f].state = "open"
    /\ request' = [request EXCEPT ![f] = "write"]
    /\ UNCHANGED <<tus, withBody, owed, listener, object, table, handedOff, dropped>>

\* PATCH /uploads/id of an upload that is not complete.
PatchFile(f) == verifyUploadFileAccess(f) /\ StartPatch(f)

\* Each request has a goroutine of its own that announces its progress.
Progressed(f, n) == owed' = [owed EXCEPT ![f] = @ \cup ({n} \ {0})]

\* Some data of the request is stored, up to offset n; the request goes on, or
\* its connection breaks (more = FALSE).
WriteChunk(f, n, more) ==
    /\ request[f] = "write"
    /\ n \in tus[f].offset..(Size - 1)
    /\ tus' = [tus EXCEPT ![f].offset = n]
    /\ Progressed(f, n)
    /\ request' = [request EXCEPT ![f] = IF more THEN "write" ELSE "none"]
    /\ UNCHANGED <<withBody, listener, object, table, handedOff, dropped>>

\* The last chunk of the upload makes the object.
WriteLastChunk(f) ==
    /\ request[f] = "write"
    /\ tus' = [tus EXCEPT ![f] = [state |-> "finished", offset |-> Size]]
    /\ Progressed(f, Size)
    /\ request' = [request EXCEPT ![f] = "complete"]
    /\ object' = [object EXCEPT ![f] = "stored"]
    /\ UNCHANGED <<withBody, listener, table, handedOff, dropped>>

\* DELETE /uploads/id, of a complete upload too.
DelFile(f) ==
    /\ request[f] = "none"
    /\ tus[f].state \in {"open", "finished"}
    /\ verifyUploadFileAccess(f)
    /\ tus' = [tus EXCEPT ![f].state = "gone"]
    /\ request' = [request EXCEPT ![f] = "terminate"]
    /\ object' = [object EXCEPT ![f] = IF @ = "stored" THEN "deleted" ELSE @]
    /\ UNCHANGED <<withBody, owed, listener, table, handedOff, dropped>>

-----------------------------------------------------------------------------
(* A listener takes an event from its channel and validates its token.     *)

Take(hook, f, offset) ==
    /\ Free(hook)
    /\ \E user \in TokenValid :
          listener' = [listener EXCEPT ![hook] =
                          [file |-> f, offset |-> offset, user |-> user]]
    /\ UNCHANGED <<tus, withBody, object, table, handedOff, dropped>>

CreatedUploads(f) ==
    /\ request[f] = "create"
    /\ Take("created", f, 0)
    /\ request' = [request EXCEPT ![f] = IF f \in withBody THEN "write" ELSE "none"]
    /\ UNCHANGED owed

UploadProgress(f) ==
    /\ \E n \in owed[f] :
          /\ Take("progress", f, n)
          /\ owed' = [owed EXCEPT ![f] = @ \ {n}]
    /\ UNCHANGED request

TerminatedUploads(f) ==
    /\ request[f] = "terminate"
    /\ Take("terminated", f, 0)
    /\ request' = [request EXCEPT ![f] = "none"]
    /\ UNCHANGED owed

\* Mutant of CompleteUploads: the event is not sent while the listener is busy.
CompleteUploadsDrops(f) ==
    /\ request[f] = "complete"
    /\ \/ Free("notify") /\ Take("completed", f, 0)
       \/ /\ ~Free("notify")
          /\ UNCHANGED <<tus, withBody, listener, object, table, handedOff, dropped>>
    /\ request' = [request EXCEPT ![f] = "none"]
    /\ UNCHANGED owed

\* The completed listener is busy until it has queued the upload.
CompleteUploads(f) ==
    /\ request[f] = "complete"
    /\ Free("notify")
    /\ Take("completed", f, 0)
    /\ request' = [request EXCEPT ![f] = "none"]
    /\ UNCHANGED owed

-----------------------------------------------------------------------------
(* What the listeners do with their events.  An UPDATE without a matching  *)
(* row is no error.  ok = FALSE: the statement fails, the listener logs    *)
(* the error and drops the event.                                          *)

Release(hook) == listener' = [listener EXCEPT ![hook] = NoEvent]

\* WHERE user_id = $1 AND id = $2
Matches(e) == status[e.file] # "absent" /\ owner[e.file] = e.user

CreateUpload(ok) ==
    LET e == listener["created"] IN
    /\ ~Free("created")
    /\ IF ok THEN /\ status' = [status EXCEPT ![e.file] = "created"]
                  /\ owner' = [owner EXCEPT ![e.file] = e.user]
             ELSE UNCHANGED <<status, owner>>
    /\ Release("created")
    /\ UNCHANGED <<tusVars, object, received, key, handedOff, dropped>>

\* Mutant of InProgress: progress is recorded whatever the status.
InProgressAlways(e) == Matches(e)

InProgress(e) == Matches(e) /\ status[e.file] = "created"

RecordUploadProgress(ok) ==
    LET e == listener["progress"] IN
    /\ ~Free("progress")
    /\ received' = IF ok /\ InProgress(e)
                   THEN [received EXCEPT ![e.file] = e.offset] ELSE received
    /\ Release("progress")
    /\ UNCHANGED <<tusVars, object, status, owner, key, handedOff, dropped>>

\* The statement sets 'completed', not 'terminated'.
MarkUploadTerminated(ok) ==
    LET e == listener["terminated"] IN
    /\ ~Free("terminated")
    /\ status' = IF ok /\ Matches(e) THEN [status EXCEPT ![e.file] = "completed"]
                 ELSE status
    /\ Release("terminated")
    /\ UNCHANGED <<tusVars, object, owner, received, key, handedOff, dropped>>

MarkUploadCompleted ==
    LET e == listener["completed"] IN
    /\ ~Free("completed")
    /\ IF Matches(e) THEN /\ status' = [status EXCEPT ![e.file] = "completed"]
                          /\ key' = [key EXCEPT ![e.file] = TRUE]
                     ELSE UNCHANGED <<status, key>>
    /\ listener' = [listener EXCEPT !["completed"] = NoEvent, !["notify"] = e]
    /\ UNCHANGED <<tusVars, object, owner, received, handedOff, dropped>>

\* The update fails: the upload is not handed off.
MarkUploadCompletedFails ==
    /\ ~Free("completed")
    /\ Release("completed")
    /\ dropped' = dropped \cup {listener["completed"].file}
    /\ UNCHANGED <<tusVars, object, table, handedOff>>

Notice == LET e == listener["notify"]
          IN  [file |-> e.file, key |-> TRUE, user |-> e.user]

\* UploadReceived: the message for forklift is queued.
UploadReceived ==
    /\ ~Free("notify")
    /\ handedOff' = handedOff \cup {Notice}
    /\ Release("notify")
    /\ UNCHANGED <<tusVars, object, table, dropped>>

\* The queue is not available, or its answer is lost: the error is only logged.
UploadReceivedFails ==
    /\ ~Free("notify")
    /\ handedOff' \in {handedOff, handedOff \cup {Notice}}
    /\ dropped' = dropped \cup {Notice.file}
    /\ Release("notify")
    /\ UNCHANGED <<tusVars, object, table>>

\* Mutant of RetryNotice: the key is derived from the upload id.
RetryNoticeKeyed(f) == [file |-> f, key |-> TRUE, user |-> owner[f]]

\* The key of the message is that of the row, which may be empty.
RetryNotice(f) == [file |-> f, key |-> key[f], user |-> owner[f]]

\* The operator runs retry-complete: any row that says 'completed' will do.
retryComplete(f) ==
    /\ status[f] = "completed"
    /\ handedOff' = handedOff \cup {RetryNotice(f)}
    /\ UNCHANGED <<tusVars, listener, object, table, dropped>>

\* Forklift may be at work on an upload once a message names its object.
InForklift(f) == \E m \in handedOff : m.file = f /\ m.key

\* Forklift marks the row of an upload it has processed (WHERE id = $1); another
\* task of its own may have processed it before.
MarkUploadProcessed(f) ==
    /\ InForklift(f)
    /\ status' = [status EXCEPT ![f] = IF @ = "absent" THEN @ ELSE "processed"]
    /\ UNCHANGED <<tusVars, listener, object, owner, received, key, handedOff, dropped>>

\* It then deletes the object, when the row may have changed again: nothing in
\* the table or the bucket tells how far a task has come (Ingest keeps that).
DeleteSource(f) ==
    /\ InForklift(f)
    /\ object' = [object EXCEPT ![f] = "deleted"]
    /\ UNCHANGED <<tusVars, listener, table, handedOff, dropped>>

\* The process restarts: requests and events in progress are lost.  (On a
\* graceful shutdown requests finish; the listeners are not waited for.)
Restart ==
    /\ request' = [f \in Files |-> "none"]
    /\ owed' = [f \in Files |-> {}]
    /\ listener' = [h \in Hooks |-> NoEvent]
    /\ dropped' = dropped \cup {f \in Files : \/ request[f] = "complete"
                                              \/ listener["completed"].file = f
                                              \/ listener["notify"].file = f}
    /\ UNCHANGED <<tus, withBody, object, table, handedOff>>

-----------------------------------------------------------------------------

Client ==
    \E f \in Files :
        \/ \E body \in BOOLEAN : PostFile(f, body)
        \/ PatchFile(f)
        \/ DelFile(f)

Serve(f) ==
    \/ \E n \in 0..Size, more \in BOOLEAN : WriteChunk(f, n, more)
    \/ WriteLastChunk(f)
    \/ CreatedUploads(f) \/ UploadProgress(f) \/ TerminatedUploads(f)
    \/ CompleteUploads(f)

\* Listener steps up to the hand-off itself.
Listen ==
    \/ \E ok \in BOOLEAN :
          CreateUpload(ok) \/ RecordUploadProgress(ok) \/ MarkUploadTerminated(ok)
    \/ MarkUploadCompleted \/ MarkUploadCompletedFails

UploadsNext ==
    \/ Client
    \/ \E f \in Files : Serve(f) \/ retryComplete(f)
    \/ \E f \in Files : MarkUploadProcessed(f) \/ DeleteSource(f)
    \/ Listen \/ UploadReceived \/ UploadReceivedFails
    \/ Restart

UploadsSpec == UploadsInit /\ [][UploadsNext]_uploadsVars

\* The completed listener serves its channel, in the order of arrival.
UploadsFairSpec ==
    /\ UploadsSpec
    /\ \A f \in Files : SF_uploadsVars(CompleteUploads(f))
    /\ WF_uploadsVars(MarkUploadCompleted \/ MarkUploadCompletedFails)
    /\ WF_uploadsVars(UploadReceived \/ UploadReceivedFails)

-----------------------------------------------------------------------------
(* Properties.                                                             *)

\* A message that names an object is about an upload that is stored in full,
\* also when the operator repeats the hand-off for a row that a termination has
\* set to 'completed' (CompleteUploads, retryComplete, MarkUploadTerminated).
HandedOffIsComplete ==
    \A m \in handedOff : m.key => tus[m.file].offset = Size

\* An upload that was created without data is recorded as complete before it is
\* handed off in the user's name: PATCH waits for the row, so that the insert of
\* one listener cannot come after the update of another (verifyUploadFileAccess,
\* listenToHooks).
RecordedBeforeHandOff ==
    \A m \in handedOff :
        m.key /\ m.user /\ m.file \notin withBody =>
            status[m.file] \in {"completed", "processed"} /\ key[m.file]

\* What the listeners promise about the rows and the tasks, in whatever order their
\* events come: each line is stated above.
UploadsSafe ==
    /\ UploadsTypeOK
    /\ HandedOffIsComplete
    /\ RecordedBeforeHandOff

\* Late events leave a completed row as it is: progress that is still under
\* way, a termination or a repeated hand-off do not take it back to an earlier
\* status or touch what was received (RecordUploadProgress).
CompletedStays ==
    [][\A f \in Files :
          key[f] => /\ key'[f]
                    /\ status'[f] \in {"completed", "processed"}
                    /\ received'[f] = received[f]]_uploadsVars

\* A complete upload is handed off, or an error or a restart has lost it: no
\* upload waits for ever behind another in the completed listener.
CompleteIsHandedOff ==
    \A f \in Files :
        object[f] = "stored" ~> f \in dropped \/ \E m \in handedOff : m.file = f

\* Only complete uploads are handed off: retry-complete refuses an upload that
\* "is not in completed state" (cmd/main.go:168).
OnlyCompleteHandedOff ==
    \A m \in handedOff : tus[m.file].offset = Size
=================================================================================
