------------------------------ MODULE Geopublish ------------------------------
(***************************************************************************)
(* Publishing v3 (app/geopublish): a tus upload on the local disk, the     *)
(* goroutine that writes tus events to the uploads table, Notify, which    *)
(* moves the file and enqueues a task, the asynq worker that reflects the  *)
(* file and calls the SDK (forklift/carriage.go), the Redis list of        *)
(* results and the goroutine that stores them, and Status.                 *)
(*                                                                         *)
(* All of it runs in one process, which may crash: events, requests and a  *)
(* result already popped from the list are gone, a task is run again.      *)
(***************************************************************************)
EXTENDS Naturals, Sequences

CONSTANTS
    UploadIDs,
    Users,
    Owner(_),      \* the user who creates an upload
    NoUser,
    Size,          \* PATCH requests an upload takes
    MaxRetry,      \* ForkliftOptions.maxRetry
    MaxFaults      \* bound on crashes and failing calls to the database or Redis

ASSUME GeoAssumption ==
    /\ \A i \in UploadIDs : Owner(i) \in Users
    /\ NoUser \notin Users /\ Users \cap {"none", "tus", "removed"} = {}
    /\ Size \in Nat \ {0} /\ MaxRetry \in Nat /\ MaxFaults \in Nat

VARIABLES
    file,          \* where the file is
    offset,        \* bytes written
    info,          \* the .info file exists
    sent,          \* events tusd is sending on its channels
    listener,      \* the event listenToHandler has taken, or none: a sequence
    row,           \* uploads.status
    pq,            \* publish_queries: its status
    notify,        \* the Notify request that holds the lock of an upload
    task,          \* asynq: the task of an upload
    results,       \* the Redis list of results
    got,           \* the result popped from it, and how far it is stored
    published,     \* calls the SDK carried out, per upload
    faults,        \* faults so far
    \* History.
    accepted,      \* uploads whose Notify was answered 202
    repeatable,    \* reasons to run a task again after the SDK was called
    answered,      \* uploads whose call the SDK has answered
    late,          \* progress was stored after Notify had stored the upload
    lost           \* a result was lost on its way

diskVars == <<file, offset, info>>
dbVars == <<row, pq>>
geoVars == <<file, offset, info, sent, listener, row, pq, notify, task, results,
             got, published, faults, accepted, repeatable, answered, late, lost>>

Event(k, i) == [kind |-> k, id |-> i]
Events == [kind : {"created", "progress", "terminated"}, id : UploadIDs]

\* The places a Notify request can be at, with the user who sent it.
NoNotify == [pc |-> "idle", user |-> NoUser]
NotifyPlaces == {"idle", "rename", "decode", "remove", "process", "query", "enqueue", "failed"}

\* UploadProcessResult: Response is absent, a result or an SDK error.
Response == {"none", "ok", "error"}
Result(i, resp, e) == [id |-> i, resp |-> resp, err |-> e]
Results == [id : UploadIDs, resp : Response, err : BOOLEAN]

NoGeoTask == [st |-> "none", tries |-> 0, stage |-> "analyze", resp |-> "none", dir |-> NoUser]
TaskStates == {"none", "pending", "active", "retry", "archived", "completed"}
Stages == {"analyze", "reflect", "call", "write", "fatal", "again", "done", "skip"}
Tasks == [st : TaskStates, tries : 0 .. MaxRetry, stage : Stages, resp : Response, dir : Users \cup {NoUser}]

GeoTypeOK ==
    /\ file \in [UploadIDs -> {"none", "tus", "removed"} \cup Users]
    /\ offset \in [UploadIDs -> 0 .. Size]
    /\ info \in [UploadIDs -> BOOLEAN]
    /\ sent \subseteq Events
    /\ listener \in Seq(Events) /\ Len(listener) <= 1
    /\ row \in [UploadIDs -> {"none", "created", "uploading", "received", "finished", "failed", "terminated"}]
    /\ pq \in [UploadIDs -> {"none", "received", "succeeded", "failed"}]
    /\ notify \in [UploadIDs -> [pc : NotifyPlaces, user : Users \cup {NoUser}]]
    /\ task \in [UploadIDs -> Tasks]
    /\ results \in Seq(Results)
    /\ got \in Seq(Results) /\ Len(got) <= 2
    /\ published \in [UploadIDs -> Nat]
    /\ faults \in 0 .. MaxFaults
    /\ accepted \subseteq UploadIDs /\ answered \subseteq UploadIDs /\ late \subseteq UploadIDs /\ lost \subseteq UploadIDs
    /\ repeatable \in [UploadIDs -> Nat]

\* No task and no result are in Redis yet.
NewForklift == task = [i \in UploadIDs |-> NoGeoTask] /\ results = <<>>

\* The upload directory and the tables are empty; the listeners run.
NewHandler ==
    /\ NewForklift
    /\ file = [i \in UploadIDs |-> "none"] /\ offset = [i \in UploadIDs |-> 0]
    /\ info = [i \in UploadIDs |-> FALSE]
    /\ sent = {} /\ listener = <<>> /\ got = <<>>
    /\ row = [i \in UploadIDs |-> "none"] /\ pq = [i \in UploadIDs |-> "none"]
    /\ notify = [i \in UploadIDs |-> NoNotify]
    /\ published = [i \in UploadIDs |-> 0] /\ faults = 0
    /\ accepted = {} /\ answered = {} /\ late = {} /\ lost = {}
    /\ repeatable = [i \in UploadIDs |-> 0]

Fault == faults < MaxFaults /\ faults' = faults + 1

-----------------------------------------------------------------------------
\* The tus requests of the owner (tusd, wired by InstallRoutes).

\* POST: preCreateHook knows the user; the answer waits for the listener to
\* take the event.
PostFile(i) ==
    /\ file[i] = "none"
    /\ file' = [file EXCEPT ![i] = "tus"]
    /\ info' = [info EXCEPT ![i] = TRUE]
    /\ sent' = sent \cup {Event("created", i)}
    /\ UNCHANGED <<offset, listener, dbVars, notify, task, results, got, published, faults, accepted, repeatable, answered, late, lost>>

\* The client knows the upload, and no request holds its lock.
Locked(i) == notify[i].pc # "idle"
Reachable(i) == file[i] # "none" /\ Event("created", i) \notin sent /\ ~Locked(i)

\* GetUpload of the file store: both files must be there.
GetUpload(i) == info[i] /\ file[i] = "tus"

\* PATCH: its last progress event is sent after the answer.
PatchFile(i) ==
    /\ Reachable(i) /\ GetUpload(i) /\ offset[i] < Size
    /\ offset' = [offset EXCEPT ![i] = @ + 1]
    /\ sent' = sent \cup {Event("progress", i)}
    /\ UNCHANGED <<file, info, listener, dbVars, notify, task, results, got, published, faults, accepted, repeatable, answered, late, lost>>

\* DELETE.
DelFile(i) ==
    /\ Reachable(i) /\ GetUpload(i)
    /\ file' = [file EXCEPT ![i] = "removed"]
    /\ info' = [info EXCEPT ![i] = FALSE]
    /\ sent' = sent \cup {Event("terminated", i)}
    /\ UNCHANGED <<offset, listener, dbVars, notify, task, results, got, published, faults, accepted, repeatable, answered, late, lost>>

-----------------------------------------------------------------------------
\* listenToHandler, the goroutine of events: one event at a time.

TakeEvent(e) ==
    /\ listener = <<>> /\ e \in sent
    /\ sent' = sent \ {e}
    /\ listener' = <<e>>
    /\ UNCHANGED <<diskVars, dbVars, notify, task, results, got, published, faults, accepted, repeatable, answered, late, lost>>

\* markUploadCreated inserts the row; markUploadProgress and
\* markUploadTerminated find it by upload and user, and overwrite its status
\* whatever it is.
Marked(e) ==
    CASE e.kind = "created" -> "created"
      [] e.kind # "created" /\ row[e.id] = "none" -> "none"
      [] e.kind = "progress" /\ row[e.id] # "none" -> "uploading"
      [] e.kind = "terminated" /\ row[e.id] # "none" -> "terminated"

HandleEvent ==
    /\ listener # <<>>
    /\ LET e == Head(listener)
       IN  /\ row' = [row EXCEPT ![e.id] = Marked(e)]
           /\ late' = IF e.kind = "progress" /\ row[e.id] \notin {"created", "uploading"}
                      THEN late \cup {e.id} ELSE late
    /\ listener' = <<>>
    /\ UNCHANGED <<diskVars, sent, pq, notify, task, results, got, published, faults, accepted, repeatable, answered, lost>>

\* guardUser does not get the user, or the statement fails: only logged.
DropEvent ==
    /\ listener # <<>> /\ Fault
    /\ listener' = <<>>
    /\ UNCHANGED <<diskVars, sent, dbVars, notify, task, results, got, published, accepted, repeatable, answered, late, lost>>

-----------------------------------------------------------------------------
\* Notify, holding the lock of the upload.

At(i, pc) == notify[i].pc = pc
GoTo(i, pc) == notify' = [notify EXCEPT ![i].pc = pc]
Leave(i) == notify' = [notify EXCEPT ![i] = NoNotify]

\* Up to the creation of the directory nothing is changed: a request that
\* fails one of the checks is as if it had not been sent.
StartNotify(i, u) ==
    /\ Reachable(i) /\ GetUpload(i) /\ offset[i] = Size
    /\ notify' = [notify EXCEPT ![i] = [pc |-> "rename", user |-> u]]
    /\ UNCHANGED <<diskVars, sent, listener, dbVars, task, results, got, published, faults, accepted, repeatable, answered, late, lost>>

\* The file goes to the directory of the user who sent the request.
Rename(i) ==
    /\ At(i, "rename")
    /\ file' = [file EXCEPT ![i] = notify[i].user]
    /\ GoTo(i, "decode")
    /\ UNCHANGED <<offset, info, sent, listener, dbVars, task, results, got, published, faults, accepted, repeatable, answered, late, lost>>

\* The body is not JSON or has no params: the file stays where it is now, and
\* GetUpload does not find it any more.
DecodeFails(i) ==
    /\ At(i, "decode")
    /\ Leave(i)
    /\ UNCHANGED <<diskVars, sent, listener, dbVars, task, results, got, published, faults, accepted, repeatable, answered, late, lost>>

Decode(i) ==
    /\ At(i, "decode")
    /\ GoTo(i, "remove")
    /\ UNCHANGED <<diskVars, sent, listener, dbVars, task, results, got, published, faults, accepted, repeatable, answered, late, lost>>

\* That the .info file can not be removed is only reported.
RemoveInfo(i) ==
    /\ At(i, "remove")
    /\ \/ info' = [info EXCEPT ![i] = FALSE] /\ UNCHANGED faults
       \/ Fault /\ UNCHANGED info
    /\ GoTo(i, "process")
    /\ UNCHANGED <<file, offset, sent, listener, dbVars, task, results, got, published, accepted, repeatable, answered, late, lost>>

\* UploadsDB.get with a user: the row of an upload of this user.
GetOwn(i, u) == row[i] # "none" /\ Owner(i) = u

\* processUpload, the row: status and path.
ProcessUpload(i) ==
    /\ At(i, "process")
    /\ GetOwn(i, notify[i].user)
    /\ row' = [row EXCEPT ![i] = "received"]
    /\ GoTo(i, "query")
    /\ UNCHANGED <<diskVars, sent, listener, pq, task, results, got, published, faults, accepted, repeatable, answered, late, lost>>

\* The row is not there (yet), or the database fails.
ProcessUploadFails(i) ==
    /\ At(i, "process")
    /\ IF GetOwn(i, notify[i].user) THEN Fault ELSE UNCHANGED faults
    /\ Leave(i)
    /\ UNCHANGED <<diskVars, sent, listener, dbVars, task, results, got, published, accepted, repeatable, answered, late, lost>>

\* processUpload, SetPublishQuery: inserts the row of publish_queries.
SetPublishQuery(i) ==
    /\ At(i, "query")
    /\ \/ /\ pq[i] = "none"
          /\ pq' = [pq EXCEPT ![i] = "received"]
          /\ GoTo(i, "enqueue")
          /\ UNCHANGED faults
       \/ /\ Leave(i) /\ UNCHANGED pq
          /\ IF pq[i] = "none" THEN Fault ELSE UNCHANGED faults
    /\ UNCHANGED <<diskVars, sent, listener, row, task, results, got, published, accepted, repeatable, answered, late, lost>>

\* processUpload, EnqueueUploadProcessTask: the task has the ID of the upload,
\* and asynq takes it if it has none of this ID. Notify answers 202.
Enqueue(i) ==
    /\ At(i, "enqueue")
    /\ task[i].st = "none"
    /\ task' = [task EXCEPT ![i] = [NoGeoTask EXCEPT !.st = "pending", !.dir = notify[i].user]]
    /\ accepted' = accepted \cup {i}
    /\ Leave(i)
    /\ UNCHANGED <<diskVars, sent, listener, dbVars, results, got, published, faults, repeatable, answered, late, lost>>

EnqueueFails(i) ==
    /\ At(i, "enqueue")
    /\ IF task[i].st = "none" THEN Fault ELSE UNCHANGED faults
    /\ GoTo(i, "failed")
    /\ UNCHANGED <<diskVars, sent, listener, dbVars, task, results, got, published, accepted, repeatable, answered, late, lost>>

\* markUploadFailed; Notify answers with the error.
EnqueueFailed(i) ==
    /\ At(i, "failed")
    /\ \/ row' = [row EXCEPT ![i] = "failed"] /\ UNCHANGED faults
       \/ Fault /\ UNCHANGED row
    /\ Leave(i)
    /\ UNCHANGED <<diskVars, sent, listener, pq, task, results, got, published, accepted, repeatable, answered, late, lost>>

-----------------------------------------------------------------------------
\* The asynq worker: Carriage.ProcessTask around Carriage.Process.

Running(i, stage) == task[i].st = "active" /\ task[i].stage = stage
Step(i, stage) == task' = [task EXCEPT ![i].stage = stage]
StepResp(i, stage, resp) == task' = [task EXCEPT ![i].stage = stage, ![i].resp = resp]

StartTask(i) ==
    /\ task[i].st \in {"pending", "retry"}
    /\ task' = [task EXCEPT ![i].st = "active", ![i].stage = "analyze", ![i].resp = "none"]
    /\ UNCHANGED <<diskVars, sent, listener, dbVars, notify, results, got, published, faults, accepted, repeatable, answered, late, lost>>

\* Analyze reads the file of the task; without an analysis there is no retry.
Analyze(i) ==
    /\ Running(i, "analyze")
    /\ \/ file[i] = task[i].dir /\ Step(i, "reflect")
       \/ Step(i, "fatal")
    /\ UNCHANGED <<diskVars, sent, listener, dbVars, notify, results, got, published, faults, accepted, repeatable, answered, late, lost>>

\* Split and Upload: an error is final, blobs that were not taken are a
\* reason to try again.
Reflect(i) ==
    /\ Running(i, "reflect")
    /\ \E s \in {"call", "fatal", "again"} : Step(i, s)
    /\ UNCHANGED <<diskVars, sent, listener, dbVars, notify, results, got, published, faults, accepted, repeatable, answered, late, lost>>

\* The user can not be read: final. The call fails: try again, though the
\* SDK may have carried it out. The SDK answers with an error: final.
CallSDK(i) ==
    /\ Running(i, "call")
    /\ \/ /\ Step(i, "fatal") \/ Step(i, "again")
          /\ UNCHANGED <<published, faults, repeatable, answered>>
       \/ /\ StepResp(i, "fatal", "error")
          /\ answered' = answered \cup {i}
          /\ UNCHANGED <<published, faults, repeatable>>
       \/ /\ StepResp(i, "write", "ok")
          /\ published' = [published EXCEPT ![i] = @ + 1]
          /\ answered' = answered \cup {i}
          /\ UNCHANGED <<faults, repeatable>>
       \/ /\ Fault /\ Step(i, "again")
          /\ published' = [published EXCEPT ![i] = @ + 1]
          /\ repeatable' = [repeatable EXCEPT ![i] = @ + 1]
          /\ UNCHANGED answered
    /\ UNCHANGED <<diskVars, sent, listener, dbVars, notify, results, got, accepted, late, lost>>

\* Mutant of WriteResult: an error is returned though the result is written.
WriteResultAgain(i) ==
    /\ Running(i, "write")
    /\ results' = Append(results, Result(i, task[i].resp, FALSE))
    /\ Step(i, "again")
    /\ UNCHANGED <<diskVars, sent, listener, dbVars, notify, got, published, faults, accepted, repeatable, answered, late, lost>>

\* ProcessTask, the result of a success is written; if it can not be, the
\* whole task is tried again.
WriteResult(i) ==
    /\ Running(i, "write")
    /\ \/ /\ results' = Append(results, Result(i, task[i].resp, FALSE))
          /\ Step(i, "done")
          /\ UNCHANGED <<faults, repeatable>>
       \/ /\ Fault /\ Step(i, "again")
          /\ repeatable' = [repeatable EXCEPT ![i] = @ + 1]
          /\ UNCHANGED results
    /\ UNCHANGED <<diskVars, sent, listener, dbVars, notify, got, published, accepted, answered, late, lost>>

\* ProcessTask, a final failure: its result is written once, and SkipRetry.
WriteFailure(i) ==
    /\ Running(i, "fatal")
    /\ \/ /\ results' = Append(results, Result(i, task[i].resp, TRUE))
          /\ UNCHANGED <<faults, lost>>
       \/ /\ Fault /\ UNCHANGED results
          /\ lost' = lost \cup {i}
    /\ Step(i, "skip")
    /\ UNCHANGED <<diskVars, sent, listener, dbVars, notify, got, published, accepted, repeatable, answered, late>>

\* Mutant of Retry: the tries are not counted.
RetryAlways(i) == task' = [task EXCEPT ![i].st = "retry"]

\* asynq after a failure: retry after RetryDelay while MaxRetry allows.
Retry(i) ==
    task' = [task EXCEPT ![i].st = IF task[i].tries < MaxRetry THEN "retry" ELSE "archived",
                         ![i].tries = IF @ < MaxRetry THEN @ + 1 ELSE @]

\* The error or nil that ProcessTask returns reaches asynq.
FinishTask(i) ==
    /\ \/ Running(i, "done") /\ task' = [task EXCEPT ![i].st = "completed"]
       \/ Running(i, "skip") /\ task' = [task EXCEPT ![i].st = "archived"]
       \/ Running(i, "again") /\ Retry(i)
    /\ UNCHANGED <<diskVars, sent, listener, dbVars, notify, results, got, published, faults, accepted, repeatable, answered, late, lost>>

-----------------------------------------------------------------------------
\* listenToHandler, the goroutine of results: saveUploadProcessingResult.
\* got = <<r>>: r is popped; got = <<r, r>>: its upload is marked finished.

GetUploadProcessResult ==
    /\ got = <<>> /\ results # <<>>
    /\ got' = <<Head(results)>>
    /\ results' = Tail(results)
    /\ UNCHANGED <<diskVars, sent, listener, dbVars, notify, task, published, faults, accepted, repeatable, answered, late, lost>>

\* Without a response the upload is marked failed, and nothing else happens.
SaveFailed ==
    /\ Len(got) = 1 /\ got[1].resp = "none"
    /\ row' = [row EXCEPT ![got[1].id] = "failed"]
    /\ got' = <<>>
    /\ UNCHANGED <<diskVars, sent, listener, pq, notify, task, results, published, faults, accepted, repeatable, answered, late, lost>>

\* markUploadFinished: the row, then the file. Its error is ignored, but the
\* file is kept when the row was not written.
SaveFinished ==
    /\ Len(got) = 1 /\ got[1].resp # "none"
    /\ \/ /\ row' = [row EXCEPT ![got[1].id] = "finished"]
          /\ file' = [file EXCEPT ![got[1].id] = "removed"]
          /\ UNCHANGED <<faults, lost>>
       \/ /\ Fault
          /\ lost' = lost \cup {got[1].id}
          /\ UNCHANGED <<row, file>>
    /\ got' = got \o got
    /\ UNCHANGED <<offset, info, sent, listener, pq, notify, task, results, published, accepted, repeatable, answered, late>>

\* rpcRes.Error != nil || callErr != ""
ResultStatus(r) == IF r.resp = "error" \/ r.err THEN "failed" ELSE "succeeded"

SaveQuery ==
    /\ Len(got) = 2
    /\ pq' = [pq EXCEPT ![got[1].id] = ResultStatus(got[1])]
    /\ got' = <<>>
    /\ UNCHANGED <<diskVars, sent, listener, row, notify, task, results, published, faults, accepted, repeatable, answered, late, lost>>

\* A statement fails: the result is not on the list any more.
SaveFails ==
    /\ got # <<>> /\ Fault
    /\ lost' = lost \cup {got[1].id}
    /\ got' = <<>>
    /\ UNCHANGED <<diskVars, sent, listener, dbVars, notify, task, results, published, accepted, repeatable, answered, late>>

\* The process crashes and is started again. The lock of a Notify expires;
\* asynq finds the tasks whose lease has run out and counts a try.
GeoCrash ==
    /\ Fault
    /\ sent' = {} /\ listener' = <<>>
    /\ notify' = [i \in UploadIDs |-> NoNotify]
    /\ task' = [i \in UploadIDs |->
                  IF task[i].st # "active" THEN task[i]
                  ELSE [task[i] EXCEPT !.st = IF task[i].tries < MaxRetry THEN "retry" ELSE "archived",
                                       !.tries = IF @ < MaxRetry THEN @ + 1 ELSE @]]
    /\ repeatable' = [i \in UploadIDs |->
                        IF task[i].st = "active" THEN repeatable[i] + 1 ELSE repeatable[i]]
    /\ lost' = lost \cup (IF got = <<>> THEN {} ELSE {got[1].id})
    /\ got' = <<>>
    /\ UNCHANGED <<diskVars, dbVars, results, published, accepted, answered, late>>

-----------------------------------------------------------------------------

NotifySteps(i) ==
    \/ Rename(i) \/ DecodeFails(i) \/ Decode(i) \/ RemoveInfo(i)
    \/ ProcessUpload(i) \/ ProcessUploadFails(i) \/ SetPublishQuery(i)
    \/ Enqueue(i) \/ EnqueueFails(i) \/ EnqueueFailed(i)
TaskSteps(i) ==
    \/ StartTask(i) \/ Analyze(i) \/ Reflect(i) \/ CallSDK(i)
    \/ WriteResult(i) \/ WriteFailure(i) \/ FinishTask(i)
SaveSteps == GetUploadProcessResult \/ SaveFailed \/ SaveFinished \/ SaveQuery \/ SaveFails
EventSteps == (\E e \in Events : TakeEvent(e)) \/ HandleEvent \/ DropEvent

GeoNext ==
    \/ \E i \in UploadIDs : PostFile(i) \/ PatchFile(i) \/ DelFile(i)
    \/ \E i \in UploadIDs, u \in Users : StartNotify(i, u)
    \/ \E i \in UploadIDs : NotifySteps(i) \/ TaskSteps(i)
    \/ EventSteps
    \/ SaveSteps
    \/ GeoCrash

GeoSpec == NewHandler /\ [][GeoNext]_geoVars

\* Goroutines go on, the worker takes every task and asynq moves what is due.
GeoFairSpec ==
    /\ GeoSpec
    /\ \A i \in UploadIDs : WF_geoVars(NotifySteps(i)) /\ WF_geoVars(TaskSteps(i))
    /\ WF_geoVars(EventSteps) /\ WF_geoVars(SaveSteps)

\* Status (for a user whom getUserFromRequest finds): the code of the answer.
Status(i, u) ==
    CASE ~GetOwn(i, u) -> 404
      [] GetOwn(i, u) /\ pq[i] = "none" -> 404
      [] GetOwn(i, u) /\ pq[i] \in {"succeeded", "failed"} -> 200
      [] GetOwn(i, u) /\ pq[i] = "received" -> 202

-----------------------------------------------------------------------------

\* A publish query is marked succeeded only if the SDK has carried out the
\* call, whatever was repeated or lost on the way.
SucceededIsPublished == \A i \in UploadIDs : pq[i] = "succeeded" => published[i] > 0

\* The SDK publishes an upload once: more than once only when its answer was
\* lost, its result could not be written, or the worker died.
PublishedOnce == \A i \in UploadIDs : published[i] <= 1 + repeatable[i]

\* Until the SDK has answered the call for an upload, the file its task reads
\* is in the directory of its owner: neither a late tus request nor a try that
\* failed takes it away.
FileKeptForTask ==
    \A i \in UploadIDs : task[i].st # "none" /\ i \notin answered => file[i] = Owner(i)

\* The task runs for a file complete when Notify moved it, with the row and
\* the publish query of its owner in the database.
TaskIsComplete ==
    \A i \in UploadIDs : task[i].st # "none" =>
        offset[i] = Size /\ pq[i] # "none" /\ task[i].dir = Owner(i)

\* A 202 of Notify is never the last trace of an upload: the task exists, and
\* Status does not answer its owner with 404.
AcceptedHasTask == \A i \in accepted : task[i].st # "none" /\ Status(i, Owner(i)) # 404

\* The two tables tell the same story once a query is settled: its upload is
\* finished, unless a late progress event, a task run again after its result
\* was stored or an ignored error of markUploadFinished came in between.
SettledIsFinished ==
    \A i \in UploadIDs : pq[i] \in {"succeeded", "failed"} =>
        row[i] = "finished" \/ i \in late \/ repeatable[i] > 0 \/ i \in lost

\* What geopublish promises about an upload, whatever fails, repeats or restarts:
\* each line is stated above.
GeoSafe ==
    /\ GeoTypeOK
    /\ SucceededIsPublished
    /\ PublishedOnce
    /\ TaskIsComplete
    /\ FileKeptForTask
    /\ AcceptedHasTask
    /\ SettledIsFinished

\* Every upload that Notify accepted gets a settled query, unless its task
\* was given up or its result lost.
AcceptedIsSettled ==
    \A i \in UploadIDs : (i \in accepted) ~>
        (pq[i] \in {"succeeded", "failed"} \/ task[i].st = "archived" \/ i \in lost)
=============================================================================
