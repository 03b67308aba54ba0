------------------------------- MODULE Asynquery -------------------------------
(***************************************************************************)
(* The asynchronous query manager of the v4 publishing flow                *)
(* (app/asynquery/asynquery.go) on top of the task queue of pkg/queue.     *)
(*                                                                         *)
(* Clients post stream_create and stream_update calls.  A call is stored   *)
(* as a row of the asynqueries table.  A call that names an uploaded file  *)
(* may first be stored as a draft (_defer) and is run against the SDK only *)
(* when the client has committed it AND forklift has announced that the    *)
(* file is processed, in whichever order the two happen.  Handlers of the  *)
(* two task types run concurrently, tasks are redelivered after errors,    *)
(* lost leases and timeouts, and every database or bus access may fail.    *)
(*                                                                         *)
(* A pair (user, upload id) is one element of Uploads: every lookup of the *)
(* code filters by both.                                                   *)
(***************************************************************************)
EXTENDS Integers, FiniteSets

CONSTANTS
    Uploads,      \* the (user, upload id) pairs
    NoUpload,     \* the upload of a call without file_path; also "no file_meta"
    Bodies,       \* request bodies
    NoBody,
    Workers,      \* handler goroutines, over all processes
    MaxRows,      \* bound: rows ever inserted
    MaxDone,      \* bound: forklift:upload:done messages ever sent
    QueryRetry,   \* retries of asynquery:incoming (3 in the code)
    MergeRetry    \* retries of forklift:upload:done (15 in the code)

ASSUME AsynqueryAssumption ==
    /\ NoUpload \notin Uploads
    /\ NoBody \notin Bodies
    /\ MaxRows \in Nat
    /\ MaxDone \in Nat
    /\ QueryRetry \in Nat
    /\ MergeRetry \in Nat

VARIABLES
    rows,         \* the asynqueries table; ids are in created_at order
    nrows,        \* number of rows inserted
    tasks,        \* the asynq tasks of the two types the manager handles
    ntasks,
    handler,      \* what each handler goroutine is doing
    sending,      \* rows whose API request is between its commit and SendRequest
    sendFailed,   \* rows whose SendRequest failed (the client got an error)
    calls         \* SDK calls made so far

vars == <<rows, nrows, tasks, ntasks, handler, sending, sendFailed, calls>>

QueryIds == 1..MaxRows
MaxTasks == MaxRows + MaxDone
TaskIds == 1..MaxTasks

Row == [upload    : Uploads \cup {NoUpload},
        status    : {"absent", "received", "failed", "succeeded"},
        ready     : BOOLEAN,                    \* ready_to_run
        fileReady : BOOLEAN,
        meta      : Uploads \cup {NoUpload},    \* whose metadata file_meta holds
        body      : Bodies \cup {NoBody}]

AbsentRow == [upload |-> NoUpload, status |-> "absent", ready |-> FALSE,
              fileReady |-> FALSE, meta |-> NoUpload, body |-> NoBody]

Task == [kind    : {"none", "merge", "query"},
         upload  : Uploads \cup {NoUpload},     \* payload of a merge task
         qid     : 0..MaxRows,                  \* payload of a query task
         retried : Nat,
         state   : {"none", "pending", "active", "done", "archived"}]

NoTask == [kind |-> "none", upload |-> NoUpload, qid |-> 0, retried |-> 0,
           state |-> "none"]

Outcome == {"net", "rpc", "ok"}   \* network error, JSON-RPC error, success

Handler == [pc    : {"idle", "merge", "query", "call", "fread", "fwrite"},
            task  : 0..MaxTasks,                \* 0: the queue gave up on it
            qid   : 0..MaxRows,
            body  : Bodies \cup {NoBody},
            patch : Uploads \cup {NoUpload},    \* upload of a merge payload; then
                                                \* whose metadata is merged in
            res   : Outcome \cup {"none"},
            snap  : Row]                        \* row read by finalizeQueryRecord

Idle == [pc |-> "idle", task |-> 0, qid |-> 0, body |-> NoBody,
         patch |-> NoUpload, res |-> "none", snap |-> AbsentRow]

SdkCall == [qid   : QueryIds,
            body  : Bodies \cup {NoBody},
            patch : Uploads \cup {NoUpload},
            out   : Outcome]

\* Types of the state: the columns, the queue's task states, and the local
\* variables of the handlers that the code keeps over a step.
TypeOK ==
    /\ rows \in [QueryIds -> Row]
    /\ nrows \in 0..MaxRows
    /\ tasks \in [TaskIds -> Task]
    /\ ntasks \in 0..MaxTasks
    /\ handler \in [Workers -> Handler]
    /\ sending \subseteq QueryIds
    /\ sendFailed \subseteq QueryIds
    /\ calls \subseteq SdkCall

Init ==
    /\ rows = [q \in QueryIds |-> AbsentRow]
    /\ nrows = 0
    /\ tasks = [t \in TaskIds |-> NoTask]
    /\ ntasks = 0
    /\ handler = [w \in Workers |-> Idle]
    /\ sending = {}
    /\ sendFailed = {}
    /\ calls = {}

Exists(q) == rows[q].status # "absent"

\* The rows a lookup by (upload, user) considers, and the one that comes first
\* in its created_at DESC order.
RowsOf(u) == {q \in QueryIds : Exists(q) /\ rows[q].upload = u}

IsLatest(q, u) == q \in RowsOf(u) /\ \A p \in RowsOf(u) : p <= q

-----------------------------------------------------------------------------
(***************************************************************************)
(* The API side: CreateQuery -> Call -> callUploadTx.  The transaction     *)
(* holds the user row and the latest row FOR UPDATE, so it is one step.    *)
(* A failed transaction changes nothing.                                   *)
(***************************************************************************)

createQueryRecord(u, b, ready) ==
    /\ nrows < MaxRows
    /\ nrows' = nrows + 1
    /\ rows' = [rows EXCEPT ![nrows + 1] =
                  [upload |-> u, status |-> "received", ready |-> ready,
                   fileReady |-> FALSE, meta |-> NoUpload, body |-> b]]

\* Call without file_path: insert a row that is ready, then queue it.
CallPlain(b) ==
    /\ createQueryRecord(NoUpload, b, TRUE)
    /\ sending' = sending \cup {nrows + 1}
    /\ UNCHANGED <<tasks, ntasks, handler, sendFailed, calls>>

\* Mutant of CallNew: a committed row is queued though its file is not there.
CallNewQueued(u, b, defer) ==
    /\ RowsOf(u) = {}
    /\ createQueryRecord(u, b, ~defer)
    /\ sending' = IF defer THEN sending ELSE sending \cup {nrows + 1}
    /\ UNCHANGED <<tasks, ntasks, handler, sendFailed, calls>>

\* First call for the upload: a draft, or a row that waits for forklift.
CallNew(u, b, defer) ==
    /\ RowsOf(u) = {}
    /\ createQueryRecord(u, b, ~defer)
    /\ UNCHANGED <<tasks, ntasks, handler, sending, sendFailed, calls>>

\* Mutant of CallCommit: a row that is already committed is committed again.
CallCommitAgain(u, b) ==
    \E q \in QueryIds :
        /\ IsLatest(q, u)
        /\ rows[q].status = "received"
        /\ rows' = [rows EXCEPT ![q].body = b, ![q].ready = TRUE]
        /\ UNCHANGED <<nrows, tasks, ntasks, handler, sending, sendFailed, calls>>

\* Commit of a draft; queued at once when the file is already there.
CallCommit(u, b) ==
    \E q \in QueryIds :
        /\ IsLatest(q, u)
        /\ rows[q].status = "received"
        /\ ~rows[q].ready
        /\ rows' = [rows EXCEPT ![q].body = b, ![q].ready = TRUE]
        /\ sending' = IF rows[q].fileReady THEN sending \cup {q} ELSE sending
        /\ UNCHANGED <<nrows, tasks, ntasks, handler, sendFailed, calls>>

\* Mutant of CallAfterFailed: any row that has not succeeded gets a successor.
CallAfterUnfinished(u, b) ==
    \E q \in QueryIds :
        /\ IsLatest(q, u)
        /\ rows[q].status # "succeeded"
        /\ createQueryRecord(u, b, TRUE)
        /\ UNCHANGED <<tasks, ntasks, handler, sending, sendFailed, calls>>

\* A new attempt after a failed one: a new row, which nobody queues.
CallAfterFailed(u, b) ==
    \E q \in QueryIds :
        /\ IsLatest(q, u)
        /\ rows[q].status = "failed"
        /\ createQueryRecord(u, b, TRUE)
        /\ UNCHANGED <<tasks, ntasks, handler, sending, sendFailed, calls>>

\* Late defers, repeated commits and calls for a succeeded row return the row.
CallNoop(u, defer) ==
    \E q \in QueryIds :
        /\ IsLatest(q, u)
        /\ \/ defer
           \/ rows[q].status = "received" /\ rows[q].ready
           \/ rows[q].status = "succeeded"
        /\ UNCHANGED vars

\* A task of the given kind enters the queue.
addTask(kind, u, q) ==
    /\ ntasks < MaxTasks
    /\ ntasks' = ntasks + 1
    /\ tasks' = [tasks EXCEPT ![ntasks + 1] =
                   [kind |-> kind, upload |-> u, qid |-> q, retried |-> 0,
                    state |-> "pending"]]

\* SendRequest of asynquery:incoming after the row was committed.
SendQuery(q) ==
    /\ q \in sending
    /\ addTask("query", NoUpload, q)
    /\ sending' = sending \ {q}
    /\ UNCHANGED <<rows, nrows, handler, sendFailed, calls>>

\* It fails, or the API process dies on the way: the client sees an error.
\* The task may be in the queue all the same when only the reply was lost.
SendQueryFails(q) ==
    /\ q \in sending
    /\ UNCHANGED <<tasks, ntasks>> \/ addTask("query", NoUpload, q)
    /\ sending' = sending \ {q}
    /\ sendFailed' = sendFailed \cup {q}
    /\ UNCHANGED <<rows, nrows, handler, calls>>

MergeTasks == {t \in TaskIds : tasks[t].kind = "merge"}

\* Forklift announces a processed file; it may do so more than once.
UploadDone(u) ==
    /\ Cardinality(MergeTasks) < MaxDone
    /\ addTask("merge", u, 0)
    /\ UNCHANGED <<rows, nrows, handler, sending, sendFailed, calls>>

-----------------------------------------------------------------------------
(***************************************************************************)
(* The queue: what asynq does with a task when its handler returns.        *)
(***************************************************************************)

RetryLimit(kind) == IF kind = "merge" THEN MergeRetry ELSE QueryRetry

\* Mutant of Retried: the retry count is never spent.
RetriedForEver(task) == [task EXCEPT !.state = "pending"]

\* The handler returned an error, or its lease expired.
Retried(task) ==
    IF task.retried < RetryLimit(task.kind)
    THEN [task EXCEPT !.state = "pending", !.retried = @ + 1]
    ELSE [task EXCEPT !.state = "archived"]

\* verdict is what the handler returned: nil, an error, or asynq.SkipRetry.
Settle(task, verdict) ==
    CASE verdict = "nil"   -> [task EXCEPT !.state = "done"]
      [] verdict = "error" -> Retried(task)
      [] verdict = "skip"  -> [task EXCEPT !.state = "archived"]

\* Handler w returns; a handler the queue gave up on settles nothing.
Return(w, verdict) ==
    /\ handler' = [handler EXCEPT ![w] = Idle]
    /\ tasks' = IF handler[w].task = 0 THEN tasks
                ELSE [tasks EXCEPT ![handler[w].task] = Settle(@, verdict)]
    /\ UNCHANGED ntasks

Start(w, t) ==
    /\ handler[w].pc = "idle"
    /\ tasks[t].state = "pending"
    /\ tasks' = [tasks EXCEPT ![t].state = "active"]
    /\ handler' = [handler EXCEPT ![w] =
                     [pc |-> tasks[t].kind, task |-> t, qid |-> tasks[t].qid,
                      body |-> NoBody, patch |-> tasks[t].upload,
                      res |-> "none", snap |-> AbsentRow]]
    /\ UNCHANGED <<rows, nrows, ntasks, sending, sendFailed, calls>>

\* The process running w dies; the queue's recoverer retries the task.
Crash(w) ==
    /\ handler[w].pc # "idle"
    /\ Return(w, "error")
    /\ UNCHANGED <<rows, nrows, sending, sendFailed, calls>>

\* The task's timeout passes: the queue retries it, the handler runs on.
Timeout(w) ==
    /\ handler[w].pc # "idle"
    /\ handler[w].task # 0
    /\ tasks' = [tasks EXCEPT ![handler[w].task] = Retried(@)]
    /\ handler' = [handler EXCEPT ![w].task = 0]
    /\ UNCHANGED <<rows, nrows, ntasks, sending, sendFailed, calls>>

-----------------------------------------------------------------------------
(***************************************************************************)
(* HandleMerge (forklift:upload:done).  handleMergeTx locks the latest row *)
(* of the upload; it is one step.                                          *)
(***************************************************************************)

\* robustCall(aq, patch) begins.
Fire(w, q, patch) ==
    handler' = [handler EXCEPT ![w] =
                  [@ EXCEPT !.pc = "call", !.qid = q,
                            !.body = rows[q].body, !.patch = patch]]

\* No row yet, or a database error: the task is retried.
MergeError(w) ==
    /\ handler[w].pc = "merge"
    /\ Return(w, "error")
    /\ UNCHANGED <<rows, nrows, sending, sendFailed, calls>>

\* Mutant of MergeDraft: file_meta is missing from the column whitelist of the update.
MergeDraftNoMeta(w) ==
    /\ handler[w].pc = "merge"
    /\ \E q \in QueryIds :
          /\ IsLatest(q, handler[w].patch)
          /\ ~rows[q].ready
          /\ rows' = [rows EXCEPT ![q].fileReady = TRUE]
    /\ Return(w, "nil")
    /\ UNCHANGED <<nrows, sending, sendFailed, calls>>

\* The latest row is a draft: remember the file, leave the run to the commit.
\* The process may die after the transaction and before the task is settled.
MergeDraft(w) ==
    /\ handler[w].pc = "merge"
    /\ \E q \in QueryIds :
          /\ IsLatest(q, handler[w].patch)
          /\ ~rows[q].ready
          /\ rows' = [rows EXCEPT ![q].fileReady = TRUE,
                                  ![q].meta = handler[w].patch]
    /\ \E verdict \in {"nil", "error"} : Return(w, verdict)
    /\ UNCHANGED <<nrows, sending, sendFailed, calls>>

\* The latest row has succeeded: the message is a duplicate.
MergeDrop(w) ==
    /\ handler[w].pc = "merge"
    /\ \E q \in QueryIds :
          /\ IsLatest(q, handler[w].patch)
          /\ rows[q].ready
          /\ rows[q].status = "succeeded"
    /\ Return(w, "nil")
    /\ UNCHANGED <<rows, nrows, sending, sendFailed, calls>>

\* The latest row is committed and has not succeeded: run it.
MergeFire(w) ==
    /\ handler[w].pc = "merge"
    /\ \E q \in QueryIds :
          /\ IsLatest(q, handler[w].patch)
          /\ rows[q].ready
          /\ rows[q].status # "succeeded"
          /\ Fire(w, q, handler[w].patch)
    /\ UNCHANGED <<rows, nrows, tasks, ntasks, sending, sendFailed, calls>>

-----------------------------------------------------------------------------
(* HandleQuery (asynquery:incoming): the row by id, whatever its status.   *)

QueryError(w) ==
    /\ handler[w].pc = "query"
    /\ Return(w, "error")
    /\ UNCHANGED <<rows, nrows, sending, sendFailed, calls>>

QueryFire(w) ==
    /\ handler[w].pc = "query"
    /\ Fire(w, handler[w].qid, rows[handler[w].qid].meta)
    /\ UNCHANGED <<rows, nrows, tasks, ntasks, sending, sendFailed, calls>>

-----------------------------------------------------------------------------
(***************************************************************************)
(* robustCall: look up the user, call the SDK, finalize the row.           *)
(* finalizeQueryRecord reads the row and later writes all of its columns   *)
(* back, with no lock in between.                                          *)
(***************************************************************************)

\* The user lookup fails: SkipRetry, and the row is left as it is.
CallNoUser(w) ==
    /\ handler[w].pc = "call"
    /\ Return(w, "skip")
    /\ UNCHANGED <<rows, nrows, sending, sendFailed, calls>>

CallSdk(w, out) ==
    /\ handler[w].pc = "call"
    /\ calls' = calls \cup {[qid |-> handler[w].qid, body |-> handler[w].body,
                             patch |-> handler[w].patch, out |-> out]}
    /\ handler' = [handler EXCEPT ![w].pc = "fread", ![w].res = out]
    /\ UNCHANGED <<rows, nrows, tasks, ntasks, sending, sendFailed>>

FinalizeRead(w) ==
    /\ handler[w].pc = "fread"
    /\ handler' = [handler EXCEPT ![w].pc = "fwrite",
                                  ![w].snap = rows[handler[w].qid]]
    /\ UNCHANGED <<rows, nrows, tasks, ntasks, sending, sendFailed, calls>>

\* Mutant of FinalStatus: a missing response counts as success.
FinalStatusNilOk(res) == IF res = "rpc" THEN "failed" ELSE "succeeded"

FinalStatus(res) == IF res = "ok" THEN "succeeded" ELSE "failed"

\* What robustCall returns once the row is finalized.
Verdict(res) ==
    CASE res = "ok"  -> "nil"
      [] res = "net" -> "error"
      [] res = "rpc" -> "skip"

\* The process may die after the update and before the task is settled.
FinalizeWrite(w) ==
    /\ handler[w].pc = "fwrite"
    /\ rows' = [rows EXCEPT ![handler[w].qid] =
                  [handler[w].snap EXCEPT !.status = FinalStatus(handler[w].res)]]
    /\ \E verdict \in {Verdict(handler[w].res), "error"} : Return(w, verdict)
    /\ UNCHANGED <<nrows, sending, sendFailed, calls>>

\* Reading or writing the row fails.  After a JSON-RPC error the failure goes
\* unnoticed; otherwise the task is retried.
FinalizeFails(w) ==
    /\ handler[w].pc \in {"fread", "fwrite"}
    /\ Return(w, IF handler[w].res = "rpc" THEN "skip" ELSE "error")
    /\ UNCHANGED <<rows, nrows, sending, sendFailed, calls>>

-----------------------------------------------------------------------------

\* The answer of the API to a request for row q.
Get(q) == CASE rows[q].status = "absent" -> 404
            [] rows[q].status \in {"succeeded", "failed"} -> 200
            [] rows[q].status = "received" -> 204

HandlerStep(w) ==
    \/ MergeError(w) \/ MergeDraft(w) \/ MergeDrop(w) \/ MergeFire(w)
    \/ QueryError(w) \/ QueryFire(w)
    \/ CallNoUser(w) \/ (\E out \in Outcome : CallSdk(w, out))
    \/ FinalizeRead(w) \/ FinalizeWrite(w) \/ FinalizeFails(w)

Client ==
    \/ \E b \in Bodies : CallPlain(b)
    \/ \E u \in Uploads, b \in Bodies, defer \in BOOLEAN : CallNew(u, b, defer)
    \/ \E u \in Uploads, b \in Bodies : CallCommit(u, b)
    \/ \E u \in Uploads, b \in Bodies : CallAfterFailed(u, b)
    \/ \E u \in Uploads, defer \in BOOLEAN : CallNoop(u, defer)

Next ==
    \/ Client
    \/ \E q \in QueryIds : SendQuery(q) \/ SendQueryFails(q)
    \/ \E u \in Uploads : UploadDone(u)
    \/ \E w \in Workers, t \in TaskIds : Start(w, t)
    \/ \E w \in Workers : HandlerStep(w) \/ Crash(w) \/ Timeout(w)

Spec == Init /\ [][Next]_vars

\* An API request runs to its end, the queue starts pending tasks, a handler
\* returns (SDK calls have timeouts).  Clients and forklift owe nothing.
Fairness ==
    /\ \A q \in QueryIds : WF_vars(SendQuery(q) \/ SendQueryFails(q))
    /\ \A t \in TaskIds : WF_vars(\E w \in Workers : Start(w, t))
    /\ \A w \in Workers : WF_vars(HandlerStep(w))

FairSpec == Spec /\ Fairness

-----------------------------------------------------------------------------
(***************************************************************************)
(* Properties.                                                             *)
(***************************************************************************)

\* Row q has all it needs to run.
Runnable(q) ==
    rows[q].ready /\ (rows[q].upload = NoUpload \/ rows[q].fileReady)

IsMergeTask(t, u) == tasks[t].kind = "merge" /\ tasks[t].upload = u
IsQueryTask(t, q) == tasks[t].kind = "query" /\ tasks[t].qid = q

\* Only what the client committed reaches the SDK: every call carries the body
\* the row was committed with, never a draft's, and the metadata of the row's
\* own file (none for a call without file), whichever handler made it
\* (callUploadTx, handleMergeTx and the patch of HandleQuery).
OnlyCommittedSent ==
    \A c \in calls :
        /\ rows[c.qid].ready
        /\ c.body = rows[c.qid].body
        /\ c.patch = rows[c.qid].upload

\* Repeated calls for an upload never leave two open rows: a row that is still
\* 'received' is the latest of its upload, the one every lookup finds (the
\* user-row lock of callUploadTx; asynquery_test.go "no duplicate entries").
OneOpenRow ==
    \A q \in QueryIds :
        rows[q].status = "received" /\ rows[q].upload # NoUpload
            => IsLatest(q, rows[q].upload)

\* Somebody still answers for row q: its API request, a query task that has not
\* completed (the archive included), or the error its client was given.
Owned(q) ==
    \/ q \in sending
    \/ q \in sendFailed
    \/ \E t \in TaskIds : IsQueryTask(t, q) /\ tasks[t].state # "done"

\* A row that has all it needs to run, and has no outcome yet, is never
\* silently forgotten (Call enqueues after the commit; robustCall finalizes
\* before the task completes).
RunnableIsOwned ==
    \A q \in QueryIds :
        rows[q].status = "received" /\ Runnable(q) => Owned(q)

IsFirst(q) == \A p \in RowsOf(rows[q].upload) : q <= p

\* The commit and the forklift message cannot miss each other: once a message
\* for the upload has been consumed, the first row of the upload is finalized,
\* or knows that its file is ready and, when committed, is owned
\* (callUploadTx reads file_ready, handleMergeTx reads ready_to_run, each under
\* the row lock).
NoLostWakeup ==
    \A q \in QueryIds, t \in TaskIds :
        /\ rows[q].status = "received"
        /\ IsFirst(q)
        /\ IsMergeTask(t, rows[q].upload)
        /\ tasks[t].state = "done"
        => rows[q].fileReady /\ (rows[q].ready => Owned(q))

\* A committed row changes nothing but its status, although
\* finalizeQueryRecord writes back every column of a row it read earlier.
CommittedFrozen ==
    [][\A q \in QueryIds :
          rows[q].ready =>
            rows'[q] = [rows[q] EXCEPT !.status = rows'[q].status]]_vars

\* Row q has succeeded and nothing that may run it is left but new messages
\* of forklift.
Settled(q) ==
    /\ rows[q].status = "succeeded"
    /\ q \notin sending
    /\ \A w \in Workers :
          handler[w].qid = q => handler[w].pc = "idle"
    /\ \A t \in TaskIds :
          IsQueryTask(t, q) => tasks[t].state \in {"done", "archived"}

\* Duplicate forklift messages and repeated commits never run a settled row
\* again (the 'succeeded' test of handleMergeTx, the default branch of
\* callUploadTx).
SettledStaysSettled ==
    [][\A q \in QueryIds : Settled(q) => Settled(q)']_vars

\* No task circulates for ever: each completes or reaches the archive, however
\* often handlers fail, crash or time out.
TasksSettle ==
    \A t \in TaskIds :
        tasks[t].state \in {"pending", "active"}
            ~> tasks[t].state \in {"done", "archived"}

\* A row that can run gets an outcome, unless its client was told that queueing
\* failed or its task ended in the archive.
RunnableGetsOutcome ==
    \A q \in QueryIds :
        Runnable(q)
            ~> \/ rows[q].status \in {"failed", "succeeded"}
               \/ q \in sendFailed
               \/ \E t \in TaskIds : IsQueryTask(t, q) /\ tasks[t].state = "archived"

\* Nothing circulates for ever: neither a task nor a row that can run.
QueriesSettle == TasksSettle /\ RunnableGetsOutcome

\* What a client may rely on: PublishLedger with the rows' commitments, the
\* calls made and the reported statuses.
EntryOf(row) ==
    IF row.ready THEN {[body |-> row.body, file |-> row.upload]} ELSE {}
ReportOf(row) ==
    IF row.status \in {"failed", "succeeded"} THEN row.status ELSE "pending"

entryBar == [q \in QueryIds |-> EntryOf(rows[q])]
reportBar == [q \in QueryIds |-> ReportOf(rows[q])]

Ledger == INSTANCE PublishLedger WITH
    Queries <- QueryIds,
    Files <- Uploads \cup {NoUpload},
    entry <- entryBar,
    executed <- calls,
    report <- reportBar

\* The manager implements the ledger: each query is committed once, run only
\* as committed, and its reported outcome is one the SDK really gave.
LedgerRefined == Ledger!Spec

\* A poller can tell failure by the code, as the comment of Get promises: "409:
\* SDK returned an error and upload cannot be processed" (http_handlers.go:139).
FailureHasItsCode ==
    \A q \in QueryIds : rows[q].status = "failed" => Get(q) = 409

-----------------------------------------------------------------------------
(***************************************************************************)
(* The inductive invariant behind the safety properties.                   *)
(***************************************************************************)

RowInv ==
    \A q \in QueryIds :
        /\ q <= nrows <=> Exists(q)
        /\ ~Exists(q) => rows[q] = AbsentRow
        /\ Exists(q) /\ ~rows[q].ready
              => rows[q].status = "received" /\ rows[q].upload # NoUpload
        /\ rows[q].meta =
              IF rows[q].fileReady THEN rows[q].upload ELSE NoUpload

TaskInv ==
    \A t \in TaskIds :
        /\ t <= ntasks <=> tasks[t].kind # "none"
        /\ tasks[t].kind = "none" <=> tasks[t].state = "none"
        /\ tasks[t].kind = "query" =>
              /\ tasks[t].qid \in QueryIds
              /\ Runnable(tasks[t].qid)
              /\ tasks[t].state = "done"
                    => rows[tasks[t].qid].status # "received"
        /\ tasks[t].kind = "merge" =>
              /\ tasks[t].upload \in Uploads
              /\ tasks[t].qid = 0
              /\ tasks[t].state = "done" => RowsOf(tasks[t].upload) # {}

SendInv == \A q \in sending : Runnable(q)

\* What handler w knows about its row still holds when it acts on it.
HandlerOK(w) ==
    /\ handler[w].pc = "idle" => handler[w] = Idle
    /\ handler[w].pc = "merge" =>
          /\ handler[w].qid = 0
          /\ handler[w].patch \in Uploads
          /\ handler[w].task # 0 => IsMergeTask(handler[w].task, handler[w].patch)
    /\ handler[w].pc = "query" =>
          /\ handler[w].qid \in QueryIds
          /\ Runnable(handler[w].qid)
          /\ handler[w].task # 0 => IsQueryTask(handler[w].task, handler[w].qid)
    /\ handler[w].pc \in {"call", "fread", "fwrite"} =>
          /\ handler[w].qid \in QueryIds
          /\ rows[handler[w].qid].ready
          /\ handler[w].body = rows[handler[w].qid].body
          /\ handler[w].patch = rows[handler[w].qid].upload
          /\ handler[w].task # 0 =>
                \/ IsMergeTask(handler[w].task, handler[w].patch)
                \/ IsQueryTask(handler[w].task, handler[w].qid)
    /\ handler[w].pc \in {"fread", "fwrite"} =>
          \E c \in calls : c.qid = handler[w].qid /\ c.out = handler[w].res
    /\ handler[w].pc = "fwrite" =>
          \A status \in {"failed", "succeeded"} :
              [handler[w].snap EXCEPT !.status = status]
                  = [rows[handler[w].qid] EXCEPT !.status = status]

HandlerInv == \A w \in Workers : HandlerOK(w)

\* A consumed forklift message left its trace on the first row of the upload.
WakeInv ==
    \A q \in QueryIds, t \in TaskIds :
        /\ rows[q].status = "received"
        /\ IsFirst(q)
        /\ IsMergeTask(t, rows[q].upload)
        /\ tasks[t].state = "done"
        => rows[q].fileReady

\* The strengthening of the safety properties that every step of the manager,
\* the queue and the API preserves: what rows, tasks, requests under way and
\* handlers know about each other.
IndInv ==
    /\ TypeOK
    /\ RowInv
    /\ TaskInv
    /\ SendInv
    /\ HandlerInv
    /\ OnlyCommittedSent
    /\ OneOpenRow
    /\ RunnableIsOwned
    /\ WakeInv
================================================================================
