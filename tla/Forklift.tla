-------------------------------- MODULE Forklift --------------------------------
(***************************************************************************)
(* The forklift service (apps/forklift/forklift.go): HandleUpload for      *)
(* files in the S3 bucket of the uploads service, HandleURL for remote     *)
(* files.  A handler downloads the file, analyses it, splits it into the   *)
(* blobs of a stream, reflects them, saves the result in the uploads table *)
(* and announces it with forklift:upload:done; HandleUpload then deletes   *)
(* the S3 object, whether or not the announcement succeeded.               *)
(*                                                                         *)
(* Each upload has one incoming task at a time, so that no two handlers    *)
(* work on the same upload.  Splitting the same file again gives another   *)
(* stream (the encoder draws a new key).                                   *)
(***************************************************************************)
EXTENDS Integers

CONSTANTS
    Files,        \* uploads in the S3 bucket
    Urls,         \* uploads by URL
    Workers,      \* handler goroutines, over all processes
    NoFile,
    Streams,      \* the streams that may ever be created (a bound)
    NoStream,
    UploadRetry   \* retries of the incoming tasks (10 in the code)

ASSUME ForkliftAssumption ==
    /\ Files \cap Urls = {}
    /\ NoFile \notin Files \cup Urls
    /\ NoStream \notin Streams
    /\ UploadRetry \in Nat

VARIABLES
    object,       \* S3 objects of the files
    status,       \* uploads table: status (URLs have no row there)
    sdHash,       \* uploads table: sd_hash
    task,         \* the incoming task of each upload
    fork,         \* what each handler goroutine is doing
    stream,       \* the upload each stream was made from
    reflected,    \* streams whose blobs are all in the blob store
    announced     \* forklift:upload:done messages sent

forkliftVars == <<object, status, sdHash, task, fork, stream, reflected, announced>>

Incoming == Files \cup Urls

Status == {"absent", "created", "completed", "processed"}

QueueTask == [state   : {"none", "pending", "active", "done", "archived"},
              retried : 0..UploadRetry]

ForkHandler == [pc     : {"idle", "retrieve", "analyze", "split", "upload", "mark",
                          "send", "delete"},
                upload : Incoming \cup {NoFile},
                sd     : Streams \cup {NoStream},
                sent   : BOOLEAN]

ForkIdle == [pc |-> "idle", upload |-> NoFile, sd |-> NoStream, sent |-> FALSE]

Message == [upload : Incoming, sd : Streams]

\* Types of the state of forklift and of what it shares with its neighbours.
ForkliftTypeOK ==
    /\ object \in [Files -> {"none", "stored", "deleted"}]
    /\ status \in [Files -> Status]
    /\ sdHash \in [Files -> Streams \cup {NoStream}]
    /\ task \in [Incoming -> QueueTask]
    /\ fork \in [Workers -> ForkHandler]
    /\ stream \in [Streams -> Incoming \cup {NoFile}]
    /\ reflected \subseteq Streams
    /\ announced \subseteq Message

\* The uploads service hands off a stored object whose row may be missing or
\* not yet completed (module Uploads).
ForkliftInit ==
    /\ object = [f \in Files |-> "stored"]
    /\ status \in [Files -> {"absent", "created", "completed"}]
    /\ sdHash = [f \in Files |-> NoStream]
    /\ task = [u \in Incoming |-> [state |-> "none", retried |-> 0]]
    /\ fork = [w \in Workers |-> ForkIdle]
    /\ stream = [s \in Streams |-> NoFile]
    /\ reflected = {}
    /\ announced = {}

-----------------------------------------------------------------------------
(* The queue.                                                              *)

\* The uploads service queues the upload, or its operator hands it off again
\* (retry-complete) after the task was archived.
Receive(u) ==
    /\ \/ task[u].state = "none"
       \/ task[u].state = "archived" /\ u \in Files /\ status[u] = "completed"
    /\ task' = [task EXCEPT ![u] = [state |-> "pending", retried |-> 0]]
    /\ UNCHANGED <<object, status, sdHash, fork, stream, reflected, announced>>

StartUpload(w, u) ==
    /\ fork[w].pc = "idle"
    /\ task[u].state = "pending"
    /\ task' = [task EXCEPT ![u].state = "active"]
    /\ fork' = [fork EXCEPT ![w] = [ForkIdle EXCEPT !.pc = "retrieve", !.upload = u]]
    /\ UNCHANGED <<object, status, sdHash, stream, reflected, announced>>

\* Mutant of Redelivered: the retry count is never spent.
RedeliveredForEver(t) == [t EXCEPT !.state = "pending"]

\* An error was returned or the lease expired.
Redelivered(t) ==
    IF t.retried < UploadRetry
    THEN [state |-> "pending", retried |-> t.retried + 1]
    ELSE [t EXCEPT !.state = "archived"]

\* Handler w returns nil or an error.
Finish(w, ok) ==
    /\ fork' = [fork EXCEPT ![w] = ForkIdle]
    /\ task' = [task EXCEPT ![fork[w].upload] =
                  IF ok THEN [@ EXCEPT !.state = "done"] ELSE Redelivered(@)]

\* The process running w dies; the queue's recoverer retries the task.
ForkCrash(w) ==
    /\ fork[w].pc # "idle"
    /\ Finish(w, FALSE)
    /\ UNCHANGED <<object, status, sdHash, stream, reflected, announced>>

-----------------------------------------------------------------------------
(* HandleUpload and HandleURL.                                             *)

Goto(w, pc) == fork' = [fork EXCEPT ![w].pc = pc]

\* Mutant of Retrieve: the object is removed once it has been copied.
RetrieveMoves(w) ==
    /\ fork[w].pc = "retrieve"
    /\ fork[w].upload \in Files => object[fork[w].upload] = "stored"
    /\ object' = [f \in Files |-> IF f = fork[w].upload THEN "deleted" ELSE object[f]]
    /\ Goto(w, "analyze")
    /\ UNCHANGED <<status, sdHash, task, stream, reflected, announced>>

\* The S3 object, or the remote file, is copied to local disk.
Retrieve(w) ==
    /\ fork[w].pc = "retrieve"
    /\ fork[w].upload \in Files => object[fork[w].upload] = "stored"
    /\ Goto(w, "analyze")
    /\ UNCHANGED <<object, status, sdHash, task, stream, reflected, announced>>

\* A file without a usable media type is not rejected, so that analysis ends
\* well for every file that can be read.
Analyze(w) ==
    /\ fork[w].pc = "analyze"
    /\ Goto(w, "split")
    /\ UNCHANGED <<object, status, sdHash, task, stream, reflected, announced>>

Split(w) ==
    /\ fork[w].pc = "split"
    /\ \E s \in Streams :
          /\ stream[s] = NoFile
          /\ stream' = [stream EXCEPT ![s] = fork[w].upload]
          /\ fork' = [fork EXCEPT ![w] = [@ EXCEPT !.pc = "upload", !.sd = s]]
    /\ UNCHANGED <<object, status, sdHash, task, reflected, announced>>

Reflect(w) ==
    /\ fork[w].pc = "upload"
    /\ reflected' = reflected \cup {fork[w].sd}
    /\ Goto(w, "mark")
    /\ UNCHANGED <<object, status, sdHash, task, stream, announced>>

\* Any step up to the database update fails: local files are removed and the
\* error is returned.  A failed reflection leaves some of the blobs behind.
Fails(w) ==
    /\ fork[w].pc \in {"retrieve", "analyze", "split", "upload", "mark"}
    /\ Finish(w, FALSE)
    /\ UNCHANGED <<object, status, sdHash, stream, reflected, announced>>

\* MarkUploadProcessed, of the uploads table in both handlers: it touches no
\* row for a URL, nor for a file whose row was never inserted.
MarkUploadProcessed(w) ==
    LET u == fork[w].upload IN
    /\ fork[w].pc = "mark"
    /\ IF u \in Files /\ status[u] # "absent"
       THEN /\ status' = [status EXCEPT ![u] = "processed"]
            /\ sdHash' = [sdHash EXCEPT ![u] = fork[w].sd]
       ELSE UNCHANGED <<status, sdHash>>
    /\ Goto(w, "send")
    /\ UNCHANGED <<object, task, stream, reflected, announced>>

\* After SendResponse: HandleUpload goes on to its deferred deletion.
AfterSend(w, sent) ==
    IF fork[w].upload \in Files
    THEN /\ fork' = [fork EXCEPT ![w] = [@ EXCEPT !.pc = "delete", !.sent = sent]]
         /\ UNCHANGED task
    ELSE Finish(w, sent)

\* The messages after w's SendResponse went through.
Announcement(w) == announced \cup {[upload |-> fork[w].upload, sd |-> fork[w].sd]}

SendResponse(w) ==
    /\ fork[w].pc = "send"
    /\ announced' = Announcement(w)
    /\ AfterSend(w, TRUE)
    /\ UNCHANGED <<object, status, sdHash, stream, reflected>>

\* SendResponse fails, before or after the message reached the queue.
SendResponseLost(w) ==
    /\ fork[w].pc = "send"
    /\ AfterSend(w, FALSE)
    /\ UNCHANGED <<object, status, sdHash, stream, reflected, announced>>

SendResponseUnsure(w) ==
    /\ fork[w].pc = "send"
    /\ announced' = Announcement(w)
    /\ AfterSend(w, FALSE)
    /\ UNCHANGED <<object, status, sdHash, stream, reflected>>

\* The deferred Delete; its error is only logged.
DeleteObject(w, ok) ==
    /\ fork[w].pc = "delete"
    /\ object' = IF ok THEN [object EXCEPT ![fork[w].upload] = "deleted"] ELSE object
    /\ Finish(w, fork[w].sent)
    /\ UNCHANGED <<status, sdHash, stream, reflected, announced>>

-----------------------------------------------------------------------------

\* The steps of handler w that only concern forklift.
Process(w) ==
    \/ Retrieve(w) \/ Analyze(w) \/ Split(w) \/ Reflect(w) \/ Fails(w)
    \/ MarkUploadProcessed(w) \/ SendResponseLost(w)
    \/ \E ok \in BOOLEAN : DeleteObject(w, ok)

Announce(w) == SendResponse(w) \/ SendResponseUnsure(w)

ForkliftNext ==
    \/ \E u \in Incoming : Receive(u)
    \/ \E w \in Workers, u \in Incoming : StartUpload(w, u)
    \/ \E w \in Workers : Process(w) \/ Announce(w) \/ ForkCrash(w)

ForkliftSpec == ForkliftInit /\ [][ForkliftNext]_forkliftVars

\* The queue is first in, first out: a pending task is not passed over for ever
\* for tasks that are handed off again.  A handler returns.
ForkliftFairSpec ==
    /\ ForkliftSpec
    /\ \A u \in Incoming :
          SF_forkliftVars(\E w \in Workers : StartUpload(w, u))
    /\ \A w \in Workers : WF_forkliftVars(Process(w) \/ Announce(w))

-----------------------------------------------------------------------------
(* Properties.                                                             *)

\* What forklift announces is in the blob store: the stream of a message was
\* made from the message's upload and all its blobs were reflected, on whichever
\* attempt (HandleUpload returns before SendResponse on every earlier error).
AnnouncedIsReflected ==
    \A m \in announced : m.sd \in reflected /\ stream[m.sd] = m.upload

\* The source of a recorded upload is deleted only when the result is saved: the
\* row names a reflected stream of that upload (the comment of S3Retriever.Delete:
\* "after file processing is complete to the point of saving processing result").
SourceKeptUntilSaved ==
    \A f \in Files :
        object[f] = "deleted" /\ status[f] # "absent" =>
            /\ status[f] = "processed"
            /\ sdHash[f] \in reflected
            /\ stream[sdHash[f]] = f

\* A task completes only after its result was announced; retries, crashes and
\* lost replies may announce it more than once, never less.
DoneIsAnnounced ==
    \A u \in Incoming :
        task[u].state = "done" => \E m \in announced : m.upload = u

\* What HandleUpload promises about an upload, its stream and its source: each line is
\* stated above.
ForkliftSafe ==
    /\ ForkliftTypeOK
    /\ AnnouncedIsReflected
    /\ SourceKeptUntilSaved
    /\ DoneIsAnnounced

\* Every queued upload ends: its task completes or reaches the archive.
UploadsSettle ==
    \A u \in Incoming :
        task[u].state = "pending" ~> task[u].state \in {"done", "archived"}
=================================================================================
