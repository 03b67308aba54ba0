--------------------------------- MODULE Ingest ---------------------------------
(***************************************************************************)
(* The uploads service and forklift together: the two share the uploads    *)
(* table and the S3 bucket, and the queue of forklift:upload:incoming lies *)
(* between them.  Uploads gives the requests, the listeners, the operator; *)
(* here are the tasks they queue and the handlers that run them, any       *)
(* number of which may be about one upload: hand-offs repeated by          *)
(* retry-complete have no task ID in common (pkg/queue, sendMessage).      *)
(***************************************************************************)
EXTENDS Uploads

CONSTANTS
    MaxTasks,     \* bound: messages ever queued
    Retries,      \* retries of the task (10 in the code)
    Streams,      \* the streams that may ever be created (a bound)
    NoStream

ASSUME IngestAssumption == MaxTasks \in Nat /\ Retries \in Nat /\ NoStream \notin Streams

VARIABLES
    incoming,     \* the asynq tasks with what their handler is doing
    queued,       \* number of tasks
    sdHash,       \* uploads table: sd_hash
    stream,       \* the upload each stream was made from
    reflected,    \* streams whose blobs are all in the blob store
    announced     \* forklift:upload:done messages

forkVars == <<incoming, queued, sdHash, stream, reflected, announced>>
ingestVars == <<uploadsVars, forkVars>>

TaskIds == 1..MaxTasks

\* A task is waiting, at a place of HandleUpload, or at its end.
IngestPlaces == {"none", "pending", "retrieve", "split", "upload", "mark", "send", "sent", "unsent",
           "done", "archived"}
Incoming == [msg : Message \cup {NoFile}, at : IngestPlaces, retried : 0..Retries, sd : Streams \cup {NoStream}]
NoTask == [msg |-> NoFile, at |-> "none", retried |-> 0, sd |-> NoStream]
Done == [file : Files, user : BOOLEAN, sd : Streams]

\* Types of the state of the two services.
IngestTypeOK ==
    /\ UploadsTypeOK
    /\ incoming \in [TaskIds -> Incoming]
    /\ queued \in 0..MaxTasks
    /\ sdHash \in [Files -> Streams \cup {NoStream}]
    /\ stream \in [Streams -> Files \cup {NoFile}]
    /\ reflected \subseteq Streams
    /\ announced \subseteq Done

IngestInit ==
    /\ UploadsInit
    /\ incoming = [t \in TaskIds |-> NoTask]
    /\ queued = 0
    /\ sdHash = [f \in Files |-> NoStream]
    /\ stream = [s \in Streams |-> NoFile]
    /\ reflected = {}
    /\ announced = {}

-----------------------------------------------------------------------------
(* From the uploads service to the queue.                                  *)

\* SendRequest: a new task for every message, also for one sent before.
Enqueue(m) ==
    /\ queued < MaxTasks
    /\ queued' = queued + 1
    /\ incoming' = [incoming EXCEPT ![queued + 1] = [NoTask EXCEPT !.msg = m, !.at = "pending"]]
    /\ UNCHANGED <<sdHash, stream, reflected, announced>>

\* The listener of completed uploads, retry-complete, and a hand-off whose
\* error is logged, whether or not the queue has the message.
HandOff ==
    \/ UploadReceived /\ Enqueue(Notice)
    \/ UploadReceivedFails /\ Notice \in handedOff' /\ Enqueue(Notice)
    \/ UploadReceivedFails /\ handedOff' = handedOff /\ UNCHANGED forkVars
    \/ \E f \in Files : retryComplete(f) /\ Enqueue(RetryNotice(f))

-----------------------------------------------------------------------------
(* HandleUpload.                                                           *)

At(t, place) == incoming[t].at = place
FileOf(t) == incoming[t].msg.file
Move(t, place) == incoming' = [incoming EXCEPT ![t].at = place]

\* HandleUpload returns nil or an error, or the process dies with it.
Returns(t, ok) ==
    LET x == incoming[t]
        again == [x EXCEPT !.at = "pending", !.retried = @ + 1, !.sd = NoStream]
    IN  incoming' = [incoming EXCEPT ![t] =
            IF ok THEN [x EXCEPT !.at = "done"]
            ELSE IF x.retried < Retries THEN again ELSE [x EXCEPT !.at = "archived"]]

Start(t) ==
    /\ At(t, "pending")
    /\ Move(t, "retrieve")
    /\ UNCHANGED <<uploadsVars, queued, sdHash, stream, reflected, announced>>

\* The message must name the object, and it must still be there.
Retrieve(t) ==
    /\ At(t, "retrieve")
    /\ incoming[t].msg.key /\ object[FileOf(t)] = "stored"
    /\ Move(t, "split")
    /\ UNCHANGED <<uploadsVars, queued, sdHash, stream, reflected, announced>>

\* Analysis and splitting: a new stream, on every attempt.
Split(t) ==
    /\ At(t, "split")
    /\ \E s \in Streams :
          /\ stream[s] = NoFile
          /\ stream' = [stream EXCEPT ![s] = FileOf(t)]
          /\ incoming' = [incoming EXCEPT ![t].at = "upload", ![t].sd = s]
    /\ UNCHANGED <<uploadsVars, queued, sdHash, reflected, announced>>

Reflect(t) ==
    /\ At(t, "upload")
    /\ reflected' = reflected \cup {incoming[t].sd}
    /\ Move(t, "mark")
    /\ UNCHANGED <<uploadsVars, queued, sdHash, stream, announced>>

\* Mutant of SaveResult: a row that is missing is inserted.
SaveResultUpserts(t) ==
    LET f == FileOf(t) IN
    /\ At(t, "mark")
    /\ status' = [status EXCEPT ![f] = "processed"]
    /\ sdHash' = [sdHash EXCEPT ![f] = incoming[t].sd]
    /\ Move(t, "send")
    /\ UNCHANGED <<tusVars, listener, object, owner, received, key, handedOff, dropped,
                   queued, stream, reflected, announced>>

\* MarkUploadProcessed: by id alone, and no error if there is no such row.
SaveResult(t) ==
    LET f == FileOf(t) IN
    /\ At(t, "mark")
    /\ IF status[f] = "absent" THEN UNCHANGED <<status, sdHash>>
       ELSE /\ status' = [status EXCEPT ![f] = "processed"]
            /\ sdHash' = [sdHash EXCEPT ![f] = incoming[t].sd]
    /\ Move(t, "send")
    /\ UNCHANGED <<tusVars, listener, object, owner, received, key, handedOff, dropped,
                   queued, stream, reflected, announced>>

\* SendResponse gets the message to the queue or not, and hears of it or not.
SendResponse(t) ==
    /\ At(t, "send")
    /\ \/ announced' = announced \cup {[file |-> FileOf(t), user |-> incoming[t].msg.user,
                                        sd |-> incoming[t].sd]}
          /\ \E place \in {"sent", "unsent"} : Move(t, place)
       \/ UNCHANGED announced /\ Move(t, "unsent")
    /\ UNCHANGED <<uploadsVars, queued, sdHash, stream, reflected>>

\* The deferred Delete; its error is only logged.
DeleteObject(t) ==
    /\ incoming[t].at \in {"sent", "unsent"}
    /\ object' \in {object, [object EXCEPT ![FileOf(t)] = "deleted"]}
    /\ Returns(t, At(t, "sent"))
    /\ UNCHANGED <<tusVars, listener, table, handedOff, dropped, queued, sdHash, stream, reflected, announced>>

\* Mutant of StepFails: the source is deleted on the way out too.
StepFailsCleans(t) ==
    /\ incoming[t].at \in {"retrieve", "split", "upload", "mark"}
    /\ Returns(t, FALSE)
    /\ object' = [object EXCEPT ![FileOf(t)] = IF @ = "stored" THEN "deleted" ELSE @]
    /\ UNCHANGED <<tusVars, listener, table, handedOff, dropped, queued, sdHash, stream, reflected, announced>>

\* A step up to the update of the row fails: temporary files are removed.
StepFails(t) ==
    /\ incoming[t].at \in {"retrieve", "split", "upload", "mark"}
    /\ Returns(t, FALSE)
    /\ UNCHANGED <<uploadsVars, queued, sdHash, stream, reflected, announced>>

\* The process of forklift dies; the recoverer of the queue counts a try.
ForkliftDies(t) ==
    /\ incoming[t].at \in {"send", "sent", "unsent"}
    /\ Returns(t, FALSE)
    /\ UNCHANGED <<uploadsVars, queued, sdHash, stream, reflected, announced>>

HandleUpload(t) ==
    \/ Start(t) \/ Retrieve(t) \/ Split(t) \/ Reflect(t) \/ SaveResult(t)
    \/ SendResponse(t) \/ DeleteObject(t) \/ StepFails(t)

-----------------------------------------------------------------------------

\* What Uploads does on its own.
Ingress ==
    /\ Client \/ (\E f \in Files : Serve(f)) \/ Listen \/ Restart
    /\ UNCHANGED forkVars

IngestNext ==
    \/ Ingress
    \/ HandOff
    \/ \E t \in TaskIds : HandleUpload(t) \/ ForkliftDies(t)

IngestSpec == IngestInit /\ [][IngestNext]_ingestVars

\* The completed listener serves its channel in the order of arrival, and the
\* workers of forklift take every task and come to an end with it.
IngestFairSpec ==
    /\ IngestSpec
    /\ \A f \in Files : SF_ingestVars(CompleteUploads(f) /\ UNCHANGED forkVars)
    /\ WF_ingestVars((MarkUploadCompleted \/ MarkUploadCompletedFails) /\ UNCHANGED forkVars)
    /\ WF_ingestVars(HandOff /\ ~Free("notify") /\ Free("notify")')
    /\ \A t \in TaskIds : WF_ingestVars(HandleUpload(t))

-----------------------------------------------------------------------------

Saved(f) == sdHash[f] \in reflected /\ stream[sdHash[f]] = f

\* Forklift makes streams of whole uploads only, whatever was terminated,
\* handed off again without a key, or redelivered (Retrieve, retryComplete).
StreamsAreWhole == \A s \in Streams : stream[s] # NoFile => tus[stream[s]].offset = Size

\* The content of a recorded upload is never nowhere: its object is there, or
\* the row names a reflected stream of it, or its user has deleted it; with
\* any number of tasks and listeners about it (DeleteObject, SaveResult).
SourceOrResult ==
    \A f \in Files :
        object[f] = "deleted" /\ f \notin withBody => Saved(f) \/ tus[f].state = "gone"

\* What the uploads service and forklift together promise about the content of an
\* upload: each line is stated above.
IngestSafe ==
    /\ IngestTypeOK
    /\ StreamsAreWhole
    /\ SourceOrResult

\* Uploads says all that forklift does to the table and the bucket: seen from
\* there, the tasks and handlers only mark rows and delete objects of uploads
\* that were handed off with their key (SaveResult, DeleteObject).
UploadsRefined == UploadsSpec

\* A result, once saved, is not lost: the row goes on naming a reflected
\* stream of its upload through late listeners, terminations and later tasks.
SavedStaysSaved == [][\A f \in Files : Saved(f) => Saved(f)']_ingestVars

\* A complete upload is announced, unless an error or a restart has lost its
\* hand-off, its user has deleted it, or its task was given up.
CompleteIsAnnounced ==
    \A f \in Files : object[f] = "stored" ~>
        \/ f \in dropped \/ tus[f].state = "gone"
        \/ \E d \in announced : d.file = f
        \/ \E t \in TaskIds : At(t, "archived") /\ FileOf(t) = f
=================================================================================
