------------------------------ MODULE PublishFlow ------------------------------
(***************************************************************************)
(* Forklift and the query manager together, joined by the message          *)
(* forklift:upload:done: what forklift sends is what HandleMerge is given, *)
(* once for every SendResponse that reached the queue.                     *)
(***************************************************************************)
EXTENDS Asynquery

CONSTANTS Forks, Streams, NoStream, UploadRetry

ASSUME FlowAssumption == NoStream \notin Streams /\ UploadRetry \in Nat

VARIABLES object, status, sdHash, forkTask, fork, stream, reflected, announced

\* Every upload of the manager is a file of the uploads service.
Fork == INSTANCE Forklift WITH
    Files <- Uploads, Urls <- {}, NoFile <- NoUpload, Workers <- Forks, task <- forkTask

forkVars == <<object, status, sdHash, forkTask, fork, stream, reflected, announced>>
flowVars == <<vars, forkVars>>

FlowInit == Init /\ Fork!ForkliftInit

\* The message of a handler of forklift enters the queue of the manager, and
\* its handler hears of it or not.
Announce(w) == Fork!Announce(w) /\ UploadDone(fork[w].upload)

\* Forklift on its own.
ForkStep ==
    /\ \/ \E u \in Uploads : Fork!Receive(u)
       \/ \E w \in Forks, u \in Uploads : Fork!StartUpload(w, u)
       \/ \E w \in Forks : Fork!Process(w) \/ Fork!ForkCrash(w)
    /\ UNCHANGED vars

\* The manager on its own: all its steps but the message of forklift.
ManagerStep ==
    /\ \/ Client
       \/ \E q \in QueryIds : SendQuery(q) \/ SendQueryFails(q)
       \/ \E w \in Workers, t \in TaskIds : Start(w, t)
       \/ \E w \in Workers : HandlerStep(w) \/ Crash(w) \/ Timeout(w)
    /\ UNCHANGED forkVars

FlowNext == ForkStep \/ ManagerStep \/ \E w \in Forks : Announce(w)

FlowSpec == FlowInit /\ [][FlowNext]_flowVars

\* As in the two modules: queues are served, handlers return.
FlowFairSpec ==
    /\ FlowSpec
    /\ \A q \in QueryIds : WF_flowVars((SendQuery(q) \/ SendQueryFails(q)) /\ UNCHANGED forkVars)
    /\ \A t \in TaskIds : WF_flowVars((\E w \in Workers : Start(w, t)) /\ UNCHANGED forkVars)
    /\ \A w \in Workers : WF_flowVars(HandlerStep(w) /\ UNCHANGED forkVars)
    /\ \A u \in Uploads : SF_flowVars((\E w \in Forks : Fork!StartUpload(w, u)) /\ UNCHANGED vars)
    /\ \A w \in Forks : WF_flowVars((Fork!Process(w) /\ UNCHANGED vars) \/ Announce(w))

-----------------------------------------------------------------------------

Reflected(u) == \E s \in reflected : stream[s] = u

\* No call for a file reaches the SDK before the blobs of that file are stored,
\* whatever is repeated, lost or late on either side of the queue.
PublishedIsReflected ==
    \A c \in calls : rows[c.qid].upload # NoUpload => Reflected(rows[c.qid].upload)

\* A row that says its file is ready is right, and so is a message waiting for
\* its row (handleMergeTx; HandleUpload announces last).
ReadyIsReflected ==
    /\ \A q \in QueryIds : rows[q].fileReady => Reflected(rows[q].upload)
    /\ \A t \in MergeTasks : Reflected(tasks[t].upload)

\* What the SDK is asked to publish, and every row that has its file, is about a stream
\* that is in the object store, through both queues and whatever is delivered again.
FlowSafe ==
    /\ PublishedIsReflected
    /\ ReadyIsReflected

\* A committed row whose file is with forklift gets an outcome, unless one of
\* the tasks on its way was given up or its client was told of an error.
FlowSettles ==
    \A q \in QueryIds, u \in Uploads :
        (rows[q].ready /\ rows[q].upload = u /\ forkTask[u].state # "none") ~>
            \/ rows[q].status \in {"failed", "succeeded"}
            \/ forkTask[u].state = "archived"
            \/ \E t \in TaskIds : tasks[t].state = "archived"
            \/ q \in sendFailed
================================================================================
