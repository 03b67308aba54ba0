--------------------------- MODULE PublishFlowProofs ---------------------------
(***************************************************************************)
(* Proofs about the query manager (Asynquery), and about the manager and   *)
(* forklift together (PublishFlow), for every set of uploads, bodies,      *)
(* workers, handlers and streams and all bounds.                           *)
(*                                                                         *)
(* The manager: its inductive invariant, what no step of it may do, and    *)
(* that it implements the ledger of publications.  A leaf in a large       *)
(* context names the SMT solver twice and Zenon after it, so that a proof  *)
(* does not hang on one time limit.                                        *)
(*                                                                         *)
(* The two together: nothing about a file reaches the SDK before its blobs *)
(* are stored.  The components keep their own invariants (IndInv,          *)
(* ForkliftInv): a step of the composition is a step of each or leaves it  *)
(* alone.  Between them stands what neither knows: every trace of a file   *)
(* in the manager, be it a message, a row, a handler's patch or a call,    *)
(* came from an announcement (Traced).                                     *)
(***************************************************************************)
EXTENDS PublishFlow, TLAPS

-----------------------------------------------------------------------------
(* Helper facts.                                                           *)

\* A new task id and a new row id lie in their domains.
LEMMA FreshIds ==
    ASSUME TypeOK
    PROVE  /\ nrows < MaxRows => nrows + 1 \in QueryIds
           /\ ntasks < MaxTasks => ntasks + 1 \in TaskIds
           /\ MaxTasks \in Nat
BY AsynqueryAssumption DEF TypeOK, QueryIds, TaskIds, MaxTasks

\* The queue changes only the state and the retry count of a task, and only a
\* handler that returns nil completes it.
LEMMA SettleFacts ==
    ASSUME NEW task \in Task, NEW verdict \in {"nil", "error", "skip"}
    PROVE  LET s == Settle(task, verdict) IN
           /\ s \in Task
           /\ s.kind = task.kind
           /\ s.upload = task.upload
           /\ s.qid = task.qid
           /\ s.state \in {"done", "pending", "archived"}
           /\ s.state = "done" <=> verdict = "nil"
<1>1. CASE verdict = "nil"
  <2>1. Settle(task, verdict) = [task EXCEPT !.state = "done"]
    BY Zenon, SMT, <1>1 DEF Settle
  <2> QED
    BY Zenon, SMT, <1>1, <2>1 DEF Task
<1>2. CASE verdict = "skip"
  <2>1. Settle(task, verdict) = [task EXCEPT !.state = "archived"]
    BY Zenon, SMT, <1>2 DEF Settle
  <2> QED
    BY Zenon, SMT, <1>2, <2>1 DEF Task
<1>3. CASE verdict = "error"
  <2>1. \/ Settle(task, verdict) =
              [task EXCEPT !.state = "pending", !.retried = task.retried + 1]
        \/ Settle(task, verdict) = [task EXCEPT !.state = "archived"]
    BY Zenon, SMT, <1>3 DEF Settle, Retried
  <2>2. CASE Settle(task, verdict) = [task EXCEPT !.state = "archived"]
    BY Zenon, SMT, <1>3, <2>2 DEF Task
  <2>3. CASE Settle(task, verdict) =
               [task EXCEPT !.state = "pending", !.retried = task.retried + 1]
    <3>1. task.retried + 1 \in Nat
      BY DEF Task
    <3> QED
      BY Zenon, SMT, <1>3, <2>3, <3>1 DEF Task
  <2> QED
    BY Zenon, SMT, <2>1, <2>2, <2>3
<1> QED
  BY Zenon, SMT, <1>1, <1>2, <1>3

\* What Return does to the queue.
TasksAfter(w, verdict) ==
    \A t \in TaskIds :
        /\ tasks'[t].kind = tasks[t].kind
        /\ tasks'[t].upload = tasks[t].upload
        /\ tasks'[t].qid = tasks[t].qid
        /\ t # handler[w].task => tasks'[t] = tasks[t]
        /\ t = handler[w].task =>
              /\ tasks'[t].state \in {"done", "pending", "archived"}
              /\ tasks'[t].state = "done" <=> verdict = "nil"

\* Return frees the handler, settles its task and keeps the types.
LEMMA ReturnFacts ==
    ASSUME TypeOK, NEW w \in Workers, NEW verdict \in {"nil", "error", "skip"},
           Return(w, verdict)
    PROVE  /\ tasks' \in [TaskIds -> Task]
           /\ handler' \in [Workers -> Handler]
           /\ TasksAfter(w, verdict)
           /\ handler' = [handler EXCEPT ![w] = Idle]
           /\ ntasks' = ntasks
<1>1. handler[w] \in Handler
  BY Zenon, SMT DEF TypeOK
<1>2. Idle \in Handler
  BY AsynqueryAssumption DEF Idle, Handler, AbsentRow, Row, MaxTasks
<1>3. handler' \in [Workers -> Handler]
  BY Zenon, SMT, <1>2 DEF Return, TypeOK
<1>4. CASE handler[w].task = 0
  <2>1. \A t \in TaskIds : t # handler[w].task
    BY <1>4 DEF TaskIds
  <2> QED
    BY Zenon, SMT, <1>3, <1>4, <2>1 DEF Return, TypeOK, TasksAfter
<1>5. CASE handler[w].task # 0
  <2>1. handler[w].task \in TaskIds
    BY <1>1, <1>5, FreshIds DEF Handler, TaskIds
  <2>2. tasks[handler[w].task] \in Task
    BY Zenon, SMT, <2>1 DEF TypeOK
  <2>3. tasks' = [tasks EXCEPT ![handler[w].task] =
                    Settle(tasks[handler[w].task], verdict)]
    BY Zenon, SMT, <1>5 DEF Return
  <2>4. tasks' \in [TaskIds -> Task]
    BY Zenon, SMT, <2>2, <2>3, SettleFacts DEF TypeOK
  <2>5. TasksAfter(w, verdict)
    BY <2>1, <2>2, <2>3, SettleFacts DEF TypeOK, TasksAfter
  <2> QED
    BY Zenon, SMT, <1>3, <2>4, <2>5 DEF Return
<1> QED
  BY Zenon, SMT, <1>4, <1>5

\* A committed row changes nothing but its status.
RowsKept ==
    \A q \in QueryIds :
        rows[q].ready => rows'[q] = [rows[q] EXCEPT !.status = rows'[q].status]

\* A task keeps its type and payload.
TasksKept ==
    \A t \in TaskIds :
        tasks[t].kind # "none" => /\ tasks'[t].kind = tasks[t].kind
                                  /\ tasks'[t].upload = tasks[t].upload
                                  /\ tasks'[t].qid = tasks[t].qid

\* What a handler knows stays true while others act, even when the queue has
\* given up on it.
LEMMA HandlerKept ==
    ASSUME TypeOK, NEW w \in Workers, HandlerOK(w), RowsKept, TasksKept,
           calls \subseteq calls',
           \/ handler'[w] = handler[w]
           \/ handler[w].pc # "idle" /\ handler'[w] = [handler[w] EXCEPT !.task = 0]
    PROVE  HandlerOK(w)'
<1> DEFINE h == handler[w]
           k == handler'[w]
<1>1. /\ h \in Handler
      /\ k.pc = h.pc /\ k.qid = h.qid /\ k.body = h.body /\ k.patch = h.patch
      /\ k.res = h.res /\ k.snap = h.snap
      /\ k.task # 0 => k.task = h.task
      /\ h.pc = "idle" => k = h
  BY Zenon, SMT DEF TypeOK, Handler
<1>2. h.task # 0 => h.task \in TaskIds
  BY <1>1, FreshIds DEF Handler, TaskIds
<1>3. \A v : h.task # 0 /\ IsMergeTask(h.task, v)
                => tasks'[h.task].kind = "merge" /\ tasks'[h.task].upload = v
  BY Zenon, SMT, <1>2 DEF TasksKept, IsMergeTask
<1>4. \A q : h.task # 0 /\ IsQueryTask(h.task, q)
                => tasks'[h.task].kind = "query" /\ tasks'[h.task].qid = q
  BY Zenon, SMT, <1>2 DEF TasksKept, IsQueryTask
<1>5. \A q \in QueryIds : rows[q].ready =>
          /\ rows'[q].ready /\ rows'[q].body = rows[q].body
          /\ rows'[q].upload = rows[q].upload
          /\ rows'[q].fileReady = rows[q].fileReady
          /\ \A st : [rows'[q] EXCEPT !.status = st] = [rows[q] EXCEPT !.status = st]
  <2> SUFFICES ASSUME NEW q \in QueryIds, rows[q].ready
               PROVE  <1>5!(q)!2
    BY Zenon, SMT
  <2>1. rows[q] \in Row /\ rows'[q] = [rows[q] EXCEPT !.status = rows'[q].status]
    BY Zenon, SMT DEF TypeOK, RowsKept
  <2> QED
    BY <2>1 DEF Row
<1>6. CASE h.pc = "idle"
  BY Zenon, SMT, <1>1, <1>6 DEF HandlerOK
<1>7. CASE h.pc = "merge"
  BY <1>1, <1>3, <1>7 DEF HandlerOK, IsMergeTask
<1>8. CASE h.pc = "query"
  BY SMTT(60), SMTT(45), <1>1, <1>4, <1>5, <1>8 DEF HandlerOK, IsQueryTask, Runnable
<1>9. CASE h.pc = "call"
  BY SMTT(60), SMTT(45), <1>1, <1>3, <1>4, <1>5, <1>9 DEF HandlerOK, IsMergeTask, IsQueryTask
<1>10. CASE h.pc = "fread"
  BY SMTT(60), SMTT(45), <1>1, <1>3, <1>4, <1>5, <1>10 DEF HandlerOK, IsMergeTask, IsQueryTask
<1>11. CASE h.pc = "fwrite"
  <2>1. h.qid \in QueryIds /\ rows[h.qid].ready
    BY Zenon, SMT, <1>11 DEF HandlerOK
  <2>2. ASSUME NEW st \in {"failed", "succeeded"}
        PROVE  [k.snap EXCEPT !.status = st] = [rows'[k.qid] EXCEPT !.status = st]
    <3>1. [h.snap EXCEPT !.status = st] = [rows[h.qid] EXCEPT !.status = st]
      BY Zenon, SMT, <1>11 DEF HandlerOK
    <3>2. [rows'[h.qid] EXCEPT !.status = st] = [rows[h.qid] EXCEPT !.status = st]
      BY Zenon, SMT, <1>5, <2>1
    <3> QED
      BY Zenon, SMT, <1>1, <3>1, <3>2, Zenon
  <2>3. \A st \in {"failed", "succeeded"} :
           [k.snap EXCEPT !.status = st] = [rows'[k.qid] EXCEPT !.status = st]
    BY Zenon, SMT, <2>2
  <2>4. \E c \in calls' : c.qid = k.qid /\ c.out = k.res
    BY ZenonT(30), SMTT(60), <1>1, <1>11 DEF HandlerOK
  <2> HIDE DEF h, k
  <2>5. k.task # 0 =>
            \/ tasks'[k.task].kind = "merge" /\ tasks'[k.task].upload = k.patch
            \/ tasks'[k.task].kind = "query" /\ tasks'[k.task].qid = k.qid
    BY <1>1, <1>3, <1>4, <1>11 DEF HandlerOK, h
  <2>6. /\ k.qid \in QueryIds /\ rows'[k.qid].ready
        /\ k.body = rows'[k.qid].body /\ k.patch = rows'[k.qid].upload
    BY <1>1, <1>5, <1>11, <2>1 DEF HandlerOK, h
  <2> QED
    BY Zenon, SMT, <1>1, <1>11, <2>3, <2>4, <2>5, <2>6 DEF HandlerOK, IsMergeTask, IsQueryTask, k
<1> QED
  BY Zenon, SMT, <1>1, <1>6, <1>7, <1>8, <1>9, <1>10, <1>11 DEF Handler

-----------------------------------------------------------------------------
(* Steps that share a shape.                                               *)

\* A row is inserted (CallPlain, CallNew, CallAfterFailed).
LEMMA InsertKeeps ==
    ASSUME IndInv,
           NEW u \in Uploads \cup {NoUpload}, NEW b \in Bodies,
           NEW ready \in BOOLEAN,
           createQueryRecord(u, b, ready),
           u = NoUpload => ready = TRUE /\ sending' = sending \cup {nrows + 1},
           u # NoUpload => sending' = sending,
           u # NoUpload => \A q \in RowsOf(u) : rows[q].status # "received",
           UNCHANGED <<tasks, ntasks, handler, sendFailed, calls>>
    PROVE  IndInv'
<1> DEFINE n == nrows + 1
           new == [upload |-> u, status |-> "received", ready |-> ready,
                   fileReady |-> FALSE, meta |-> NoUpload, body |-> b]
<1>1. n \in QueryIds /\ nrows' = n /\ nrows \in 0..MaxRows
  BY Zenon, SMT, FreshIds DEF createQueryRecord, IndInv, TypeOK
<1>2. new \in Row
  BY Zenon, SMT DEF Row
<1>3. rows' = [rows EXCEPT ![n] = new]
  BY Zenon, SMT DEF createQueryRecord
<1>4. rows'[n] = new /\ \A q \in QueryIds : q # n => rows'[q] = rows[q]
  BY Zenon, SMT, <1>1, <1>3 DEF IndInv, TypeOK
<1>5. ~Exists(n) /\ \A q \in QueryIds : Exists(q) => q < n
  BY <1>1 DEF IndInv, RowInv, QueryIds
<1>6. \A q \in QueryIds : rows[q].ready => q # n
  BY <1>5 DEF IndInv, RowInv, AbsentRow
<1>7. TypeOK'
  <2>1. sending' \subseteq QueryIds
    BY Zenon, SMT, <1>1 DEF IndInv, TypeOK
  <2>2. rows' \in [QueryIds -> Row] /\ nrows' \in 0..MaxRows
    BY <1>1, <1>2, <1>3 DEF IndInv, TypeOK, QueryIds
  <2> QED
    BY Zenon, SMT, <2>1, <2>2 DEF IndInv, TypeOK
<1>8. RowInv'
  BY <1>1, <1>4, <1>5 DEF IndInv, RowInv, Exists, QueryIds
<1>9. \A q \in QueryIds : Runnable(q) => Runnable(q)' /\ q # n
  BY Zenon, SMT, <1>4, <1>6 DEF Runnable
<1>10. \A v \in Uploads \cup {NoUpload} :
          /\ v # u => RowsOf(v)' = RowsOf(v)
          /\ v = u => RowsOf(v)' = RowsOf(v) \cup {n}
  BY <1>1, <1>4, <1>5 DEF RowsOf, Exists
<1>11. TaskInv'
  BY Zenon, SMT, <1>4, <1>6, <1>9, <1>10 DEF IndInv, TaskInv, Runnable
<1>12. SendInv'
  <2> SUFFICES ASSUME NEW q \in QueryIds, q \in sending'
               PROVE  Runnable(q)'
    BY Zenon, SMT, <1>7 DEF TypeOK, SendInv
  <2>1. CASE q \in sending
    BY Zenon, SMT, <1>9, <2>1 DEF IndInv, SendInv
  <2>2. CASE q = n /\ u = NoUpload
    BY <1>4, <2>2 DEF Runnable
  <2> QED
    BY Zenon, SMT, <2>1, <2>2
<1>13. HandlerInv'
  <2>1. RowsKept
    BY Zenon, SMT, <1>4, <1>6 DEF RowsKept, IndInv, TypeOK, Row
  <2>2. TasksKept
    BY Zenon, SMT DEF TasksKept
  <2> QED
    BY Zenon, SMT, <2>1, <2>2, HandlerKept DEF IndInv, HandlerInv
<1>14. OnlyCommittedSent'
  BY ZenonT(30), SMTT(60), <1>4, <1>6 DEF IndInv, OnlyCommittedSent, TypeOK, SdkCall
<1>15. OneOpenRow'
  <2> SUFFICES ASSUME NEW q \in QueryIds, NEW v \in Uploads,
                      rows'[q].status = "received", rows'[q].upload = v
               PROVE  IsLatest(q, v)'
    BY Zenon, SMT, <1>7 DEF OneOpenRow, TypeOK, Row
  <2>1. q \in RowsOf(v)'
    BY Zenon, SMT DEF RowsOf, Exists
  <2>2. CASE q = n
    BY <1>4, <1>5, <1>10, <2>1, <2>2 DEF IsLatest, RowsOf, QueryIds
  <2>3. CASE q # n
    <3>1. q \in RowsOf(v) /\ rows[q].status = "received"
      BY Zenon, SMT, <1>4, <2>3 DEF RowsOf, Exists
    <3>2. v # u
      BY Zenon, SMT, <3>1, AsynqueryAssumption
    <3>3. IsLatest(q, v)
      BY Zenon, SMT, <1>4, <2>3, AsynqueryAssumption DEF IndInv, OneOpenRow
    <3> QED
      BY Zenon, SMT, <1>10, <3>2, <3>3 DEF IsLatest
  <2> QED
    BY Zenon, SMT, <2>2, <2>3
<1>16. RunnableIsOwned'
  <2> SUFFICES ASSUME NEW q \in QueryIds,
                      rows'[q].status = "received", Runnable(q)'
               PROVE  Owned(q)'
    BY Zenon, SMT DEF RunnableIsOwned
  <2>1. CASE q = n
    BY <1>4, <2>1 DEF Runnable, Owned
  <2>2. CASE q # n
    <3>1. rows[q].status = "received" /\ Runnable(q)
      BY Zenon, SMT, <1>4, <2>2 DEF Runnable
    <3>2. Owned(q)
      BY Zenon, SMT, <3>1 DEF IndInv, RunnableIsOwned
    <3> QED
      BY Zenon, SMT, <3>2 DEF Owned, IsQueryTask
  <2> QED
    BY Zenon, SMT, <2>1, <2>2
<1>17. WakeInv'
  <2> SUFFICES ASSUME NEW q \in QueryIds, NEW t \in TaskIds,
                      NEW v \in Uploads,
                      rows'[q].status = "received", rows'[q].upload = v,
                      IsFirst(q)', IsMergeTask(t, v), tasks[t].state = "done"
               PROVE  rows'[q].fileReady
    BY Zenon, SMT, <1>11 DEF WakeInv, IsMergeTask, TaskInv
  <2>1. PICK p \in RowsOf(v) : TRUE
    BY Zenon, SMT DEF IndInv, TaskInv, IsMergeTask
  <2>2. p \in QueryIds /\ p < n /\ p \in RowsOf(v)'
    BY <1>5, <1>10, <2>1 DEF RowsOf
  <2>3. q # n
    BY SMTT(60), SMTT(45), <1>1, <2>2 DEF IsFirst, QueryIds
  <2>4. rows[q] = rows'[q] /\ RowsOf(v) \subseteq RowsOf(v)'
    BY Zenon, SMT, <1>4, <1>10, <2>3
  <2>5. IsFirst(q)
    BY Zenon, SMT, <2>4 DEF IsFirst
  <2> QED
    BY Zenon, SMT, <2>4, <2>5 DEF IndInv, WakeInv, IsMergeTask
<1> QED
  BY Zenon, SMT, <1>7, <1>8, <1>11, <1>12, <1>13, <1>14, <1>15, <1>16, <1>17 DEF IndInv

\* A task is queued (SendQuery, SendQueryFails, UploadDone).
LEMMA AddTaskKeeps ==
    ASSUME IndInv,
           NEW kind \in {"merge", "query"},
           NEW u \in Uploads \cup {NoUpload}, NEW q \in 0..MaxRows,
           addTask(kind, u, q),
           kind = "merge" => u \in Uploads /\ q = 0 /\ sending' = sending,
           kind = "query" => q \in sending /\ sending' = sending \ {q},
           sendFailed \subseteq sendFailed', sendFailed' \subseteq QueryIds,
           UNCHANGED <<rows, nrows, handler, calls>>
    PROVE  IndInv'
<1> DEFINE n == ntasks + 1
           new == [kind |-> kind, upload |-> u, qid |-> q, retried |-> 0,
                   state |-> "pending"]
<1>1. n \in TaskIds /\ ntasks' = n /\ ntasks \in 0..MaxTasks /\ MaxTasks \in Nat
  BY Zenon, SMT, FreshIds DEF addTask, IndInv, TypeOK
<1>2. new \in Task
  BY Zenon, SMT DEF Task
<1>3. tasks' = [tasks EXCEPT ![n] = new]
  BY Zenon, SMT DEF addTask
<1>4. tasks'[n] = new /\ \A t \in TaskIds : t # n => tasks'[t] = tasks[t]
  BY Zenon, SMT, <1>1, <1>3 DEF IndInv, TypeOK
<1>5. tasks[n].kind = "none"
  BY <1>1 DEF IndInv, TaskInv
<1>6. \A p \in QueryIds : Runnable(p)' <=> Runnable(p)
  BY Zenon, SMT DEF Runnable
<1>7. \A v : RowsOf(v)' = RowsOf(v)
  BY Zenon, SMT DEF RowsOf, Exists
<1>8. TypeOK'
  <2>1. tasks' \in [TaskIds -> Task] /\ ntasks' \in 0..MaxTasks
    BY <1>1, <1>2, <1>3 DEF IndInv, TypeOK, TaskIds
  <2>2. sending' \subseteq QueryIds
    BY Zenon, SMT DEF IndInv, TypeOK
  <2> QED
    BY Zenon, SMT, <2>1, <2>2 DEF IndInv, TypeOK
<1>9. RowInv'
  BY Zenon, SMT DEF IndInv, RowInv, Exists
<1>10. TaskInv'
  <2> SUFFICES ASSUME NEW t \in TaskIds
               PROVE  TaskInv!(t)'
    BY Zenon, SMT DEF TaskInv
  <2>1. CASE t = n
    <3>1. kind = "query" => q \in QueryIds /\ Runnable(q)
      BY Zenon, SMT DEF IndInv, TypeOK, SendInv
    <3> QED
      BY <1>1, <1>4, <1>6, <2>1, <3>1 DEF TaskIds
  <2>2. CASE t # n
    <3>1. TaskInv!(t)
      BY Zenon, SMT DEF IndInv, TaskInv
    <3>2. tasks'[t] = tasks[t] /\ (t <= ntasks' <=> t <= ntasks)
      BY <1>1, <1>4, <2>2 DEF TaskIds
    <3> QED
      BY Zenon, SMT, <1>6, <1>7, <3>1, <3>2
  <2> QED
    BY Zenon, SMT, <2>1, <2>2
<1>11. SendInv'
  BY Zenon, SMT, <1>6 DEF IndInv, SendInv, TypeOK
<1>12. HandlerInv'
  <2>1. RowsKept
    BY Zenon, SMT DEF RowsKept, IndInv, TypeOK, Row
  <2>2. TasksKept
    BY Zenon, SMT, <1>4, <1>5 DEF TasksKept
  <2> QED
    BY Zenon, SMT, <2>1, <2>2, HandlerKept DEF IndInv, HandlerInv
<1>13. OnlyCommittedSent'
  BY Zenon, SMT DEF IndInv, OnlyCommittedSent
<1>14. OneOpenRow'
  BY Zenon, SMT, <1>7 DEF IndInv, OneOpenRow, IsLatest
<1>15. RunnableIsOwned'
  <2> SUFFICES ASSUME NEW p \in QueryIds,
                      rows[p].status = "received", Runnable(p)
               PROVE  Owned(p)'
    BY Zenon, SMT, <1>6 DEF RunnableIsOwned
  <2>1. Owned(p)
    BY Zenon, SMT DEF IndInv, RunnableIsOwned
  <2>2. CASE p \in sending
    <3>1. p \in sending' \/ (kind = "query" /\ p = q)
      BY Zenon, SMT, <2>2
    <3> QED
      BY <1>1, <1>4, <3>1 DEF Owned, IsQueryTask
  <2>3. CASE p \in sendFailed
    BY Zenon, SMT, <2>3 DEF Owned
  <2>4. CASE \E t \in TaskIds : IsQueryTask(t, p) /\ tasks[t].state # "done"
    BY Zenon, SMT, <1>4, <1>5, <2>4 DEF Owned, IsQueryTask
  <2> QED
    BY Zenon, SMT, <2>1, <2>2, <2>3, <2>4 DEF Owned
<1>16. WakeInv'
  <2> SUFFICES ASSUME NEW p \in QueryIds, NEW t \in TaskIds,
                      rows[p].status = "received", IsFirst(p)',
                      IsMergeTask(t, rows[p].upload)', tasks'[t].state = "done"
               PROVE  rows[p].fileReady
    BY Zenon, SMT DEF WakeInv
  <2>1. t # n
    BY <1>4
  <2>2. IsFirst(p) /\ IsMergeTask(t, rows[p].upload) /\ tasks[t].state = "done"
    BY Zenon, SMT, <1>4, <1>7, <2>1 DEF IsFirst, IsMergeTask
  <2> QED
    BY Zenon, SMT, <2>2 DEF IndInv, WakeInv
<1> QED
  BY Zenon, SMT, <1>8, <1>9, <1>10, <1>11, <1>12, <1>13, <1>14, <1>15, <1>16 DEF IndInv

\* Only handlers and the states of tasks change; a merge task completes only
\* for an upload none of whose rows is open.
LEMMA QueueStepKeeps ==
    ASSUME IndInv, TypeOK', HandlerInv', OnlyCommittedSent',
           UNCHANGED <<rows, nrows, ntasks, sending, sendFailed>>,
           TasksKept,
           \A t \in TaskIds :
              /\ tasks'[t].kind = tasks[t].kind
              /\ tasks'[t].state = "none" <=> tasks[t].state = "none"
              /\ tasks'[t].state = "done" =>
                    \/ tasks[t].state = "done"
                    \/ /\ tasks[t].kind = "merge"
                       /\ RowsOf(tasks[t].upload) # {}
                       /\ \A q \in RowsOf(tasks[t].upload) :
                             rows[q].status # "received"
    PROVE  IndInv'
<1>1. \A q \in QueryIds : Runnable(q)' <=> Runnable(q)
  BY Zenon, SMT DEF Runnable
<1>2. \A v : RowsOf(v)' = RowsOf(v)
  BY Zenon, SMT DEF RowsOf, Exists
<1>3. RowInv' /\ SendInv' /\ OneOpenRow'
  BY Zenon, SMT, <1>1, <1>2 DEF IndInv, TypeOK, RowInv, SendInv, OneOpenRow, IsLatest, Exists
<1>4. TaskInv'
  <2> SUFFICES ASSUME NEW t \in TaskIds
               PROVE  TaskInv!(t)'
    BY Zenon, SMT DEF TaskInv
  <2>1. TaskInv!(t)
    BY Zenon, SMT DEF IndInv, TaskInv
  <2>2. tasks[t].kind # "none" =>
            /\ tasks'[t].upload = tasks[t].upload
            /\ tasks'[t].qid = tasks[t].qid
    BY Zenon, SMT DEF TasksKept
  <2> QED
    BY Zenon, SMT, <1>1, <1>2, <2>1, <2>2
<1>5. RunnableIsOwned'
  <2> SUFFICES ASSUME NEW p \in QueryIds,
                      rows[p].status = "received", Runnable(p)
               PROVE  Owned(p)'
    BY Zenon, SMT, <1>1 DEF RunnableIsOwned
  <2>1. Owned(p)
    BY Zenon, SMT DEF IndInv, RunnableIsOwned
  <2>2. CASE \E t \in TaskIds : IsQueryTask(t, p) /\ tasks[t].state # "done"
    BY Zenon, SMT, <2>2 DEF Owned, IsQueryTask, TasksKept
  <2> QED
    BY Zenon, SMT, <2>1, <2>2 DEF Owned
<1>6. WakeInv'
  <2> SUFFICES ASSUME NEW p \in QueryIds, NEW t \in TaskIds,
                      rows[p].status = "received", IsFirst(p)',
                      IsMergeTask(t, rows[p].upload)', tasks'[t].state = "done"
               PROVE  rows[p].fileReady
    BY Zenon, SMT DEF WakeInv
  <2>1. IsFirst(p) /\ IsMergeTask(t, rows[p].upload)
    BY Zenon, SMT, <1>2 DEF IsFirst, IsMergeTask, TasksKept
  <2>2. p \in RowsOf(tasks[t].upload)
    BY Zenon, SMT, <2>1 DEF RowsOf, Exists, IsMergeTask
  <2>3. tasks[t].state = "done"
    BY Zenon, SMT, <2>2
  <2> QED
    BY Zenon, SMT, <2>1, <2>3 DEF IndInv, WakeInv
<1> QED
  BY Zenon, SMT, <1>3, <1>4, <1>5, <1>6 DEF IndInv

\* A handler returns and has changed no row.
LEMMA ReturnKeeps ==
    ASSUME IndInv, NEW w \in Workers, NEW verdict \in {"nil", "error", "skip"},
           handler[w].pc # "idle",
           Return(w, verdict),
           verdict = "nil" =>
              /\ handler[w].pc = "merge"
              /\ RowsOf(handler[w].patch) # {}
              /\ \A q \in RowsOf(handler[w].patch) : rows[q].status # "received",
           UNCHANGED <<rows, nrows, sending, sendFailed, calls>>
    PROVE  IndInv'
<1>1. /\ tasks' \in [TaskIds -> Task]
      /\ handler' \in [Workers -> Handler]
      /\ TasksAfter(w, verdict)
      /\ handler' = [handler EXCEPT ![w] = Idle]
      /\ ntasks' = ntasks
  BY Zenon, SMT, ReturnFacts DEF IndInv
<1>2. TypeOK'
  BY Zenon, SMT, <1>1 DEF IndInv, TypeOK
<1>3. TasksKept
  BY Zenon, SMT, <1>1 DEF TasksAfter, TasksKept
<1>4. HandlerInv'
  <2> SUFFICES ASSUME NEW x \in Workers PROVE HandlerOK(x)'
    BY Zenon, SMT DEF HandlerInv
  <2>1. CASE x = w
    BY Zenon, SMT, <1>1, <2>1 DEF HandlerOK, Idle, IndInv, TypeOK
  <2>2. CASE x # w
    <3>1. handler'[x] = handler[x]
      BY Zenon, SMT, <1>1, <2>2 DEF IndInv, TypeOK
    <3>2. RowsKept
      BY Zenon, SMT DEF RowsKept, IndInv, TypeOK, Row
    <3> QED
      BY Zenon, SMT, <1>3, <3>1, <3>2, HandlerKept DEF IndInv, HandlerInv
  <2> QED
    BY Zenon, SMT, <2>1, <2>2
<1>5. OnlyCommittedSent'
  BY Zenon, SMT DEF IndInv, OnlyCommittedSent
<1>6. ASSUME NEW t \in TaskIds
      PROVE  /\ tasks'[t].kind = tasks[t].kind
             /\ tasks'[t].state = "none" <=> tasks[t].state = "none"
             /\ tasks'[t].state = "done" =>
                   \/ tasks[t].state = "done"
                   \/ /\ tasks[t].kind = "merge"
                      /\ RowsOf(tasks[t].upload) # {}
                      /\ \A q \in RowsOf(tasks[t].upload) :
                            rows[q].status # "received"
  <2>1. CASE t # handler[w].task
    BY Zenon, SMT, <1>1, <2>1 DEF TasksAfter
  <2>2. CASE t = handler[w].task
    <3>1. HandlerOK(w) /\ handler[w] \in Handler /\ t # 0
      BY DEF IndInv, HandlerInv, TypeOK, TaskIds
    <3>2. tasks[t].kind \in {"merge", "query"}
      BY Zenon, SMT, <2>2, <3>1 DEF HandlerOK, IsMergeTask, IsQueryTask, Handler
    <3>3. tasks[t].state # "none"
      BY Zenon, SMT, <3>2 DEF IndInv, TaskInv
    <3>4. verdict = "nil" => IsMergeTask(t, handler[w].patch)
      BY Zenon, SMT, <2>2, <3>1 DEF HandlerOK
    <3> QED
      BY Zenon, SMT, <1>1, <2>2, <3>3, <3>4 DEF TasksAfter, IsMergeTask
  <2> QED
    BY Zenon, SMT, <2>1, <2>2
<1> QED
  BY Zenon, SMT, <1>1, <1>2, <1>3, <1>4, <1>5, <1>6, QueueStepKeeps

\* Handler w moves on; tasks and rows stay as they are.
LEMMA HandlerMoveKeeps ==
    ASSUME IndInv, NEW w \in Workers, NEW h \in Handler,
           handler' = [handler EXCEPT ![w] = h],
           HandlerOK(w)', calls \subseteq calls', calls' \subseteq SdkCall,
           OnlyCommittedSent',
           UNCHANGED <<rows, nrows, tasks, ntasks, sending, sendFailed>>
    PROVE  IndInv'
<1>1. TypeOK'
  BY Zenon, SMT DEF IndInv, TypeOK
<1>2. RowsKept /\ TasksKept
  BY Zenon, SMT DEF RowsKept, TasksKept, IndInv, TypeOK, Row
<1>3. HandlerInv'
  <2> SUFFICES ASSUME NEW x \in Workers, x # w PROVE HandlerOK(x)'
    BY Zenon, SMT DEF HandlerInv
  <2>1. handler'[x] = handler[x]
    BY Zenon, SMT DEF IndInv, TypeOK
  <2> QED
    BY Zenon, SMT, <1>2, <2>1, HandlerKept DEF IndInv, HandlerInv
<1> QED
  BY Zenon, SMT, <1>1, <1>2, <1>3, QueueStepKeeps

-----------------------------------------------------------------------------
(* The other steps, one lemma each.                                        *)

\* The commit of a draft (callUploadTx) preserves the invariant.
LEMMA CommitKeeps ==
    ASSUME IndInv, NEW u \in Uploads, NEW b \in Bodies, CallCommit(u, b)
    PROVE  IndInv'
<1>1. PICK q \in QueryIds :
          /\ IsLatest(q, u)
          /\ rows[q].status = "received"
          /\ ~rows[q].ready
          /\ rows' = [rows EXCEPT ![q].body = b, ![q].ready = TRUE]
          /\ sending' = IF rows[q].fileReady THEN sending \cup {q} ELSE sending
          /\ UNCHANGED <<nrows, tasks, ntasks, handler, sendFailed, calls>>
  BY Zenon, SMT DEF CallCommit
<1> DEFINE new == [rows[q] EXCEPT !.body = b, !.ready = TRUE]
<1>2. /\ rows[q] \in Row
      /\ new \in Row
      /\ new.upload = rows[q].upload /\ new.status = rows[q].status
      /\ new.fileReady = rows[q].fileReady /\ new.meta = rows[q].meta
      /\ new.ready = TRUE
  BY Zenon, SMT DEF IndInv, TypeOK, Row
<1>3. rows' = [rows EXCEPT ![q] = new]
  BY Zenon, SMT, <1>1 DEF IndInv, TypeOK
<1>4. rows'[q] = new /\ \A p \in QueryIds : p # q => rows'[p] = rows[p]
  BY Zenon, SMT, <1>3 DEF IndInv, TypeOK
<1>5. rows[q].upload = u /\ Exists(q)
  BY Zenon, SMT, <1>1 DEF IsLatest, RowsOf
<1>6. /\ rows[q].status = "received" /\ ~rows[q].ready
      /\ sending' = IF rows[q].fileReady THEN sending \cup {q} ELSE sending
      /\ UNCHANGED <<nrows, tasks, ntasks, handler, sendFailed, calls>>
  BY Zenon, SMT, <1>1
<1> HIDE DEF new
<1>7. TypeOK'
  <2>1. sending' \subseteq QueryIds
    BY Zenon, SMT, <1>6 DEF IndInv, TypeOK
  <2>2. rows' \in [QueryIds -> Row]
    BY Zenon, SMT, <1>2, <1>3 DEF IndInv, TypeOK
  <2> QED
    BY Zenon, SMT, <1>6, <2>1, <2>2 DEF IndInv, TypeOK
<1>8. \A p \in QueryIds : /\ rows'[p].upload = rows[p].upload
                          /\ rows'[p].status = rows[p].status
                          /\ rows'[p].fileReady = rows[p].fileReady
                          /\ rows'[p].meta = rows[p].meta
                          /\ Exists(p)' <=> Exists(p)
  BY Zenon, SMT, <1>2, <1>4 DEF Exists
<1>9. \A v : RowsOf(v)' = RowsOf(v)
  BY Zenon, SMT, <1>8 DEF RowsOf
<1>10. \A p \in QueryIds : Runnable(p) => Runnable(p)'
  BY Zenon, SMT, <1>6, <1>4 DEF Runnable
<1>11. RowInv'
  <2> SUFFICES ASSUME NEW p \in QueryIds PROVE RowInv!(p)'
    BY Zenon, SMT DEF RowInv
  <2>1. RowInv!(p)
    BY Zenon, SMT DEF IndInv, RowInv
  <2>2. CASE p = q
    BY Zenon, SMT, <1>2, <1>4, <1>5, <1>6, <1>8, <2>1, <2>2, AsynqueryAssumption
  <2>3. CASE p # q
    BY Zenon, SMT, <1>4, <1>6, <1>8, <2>1, <2>3
  <2> QED
    BY Zenon, SMT, <2>2, <2>3
<1>12. TaskInv'
  <2> SUFFICES ASSUME NEW t \in TaskIds PROVE TaskInv!(t)'
    BY Zenon, SMT DEF TaskInv
  <2>1. TaskInv!(t)
    BY Zenon, SMT DEF IndInv, TaskInv
  <2> QED
    BY Zenon, SMT, <1>6, <1>8, <1>9, <1>10, <2>1
<1>13. SendInv'
  BY Zenon, SMT, <1>6, <1>2, <1>4, <1>10 DEF IndInv, SendInv, TypeOK, Runnable
<1>14. HandlerInv'
  <2>1. RowsKept
    BY Zenon, SMT, <1>6, <1>4 DEF RowsKept, IndInv, TypeOK, Row
  <2>2. TasksKept
    BY Zenon, SMT, <1>6 DEF TasksKept
  <2> QED
    BY Zenon, SMT, <1>6, <2>1, <2>2, HandlerKept DEF IndInv, HandlerInv
<1>15. OnlyCommittedSent'
  BY ZenonT(30), SMTT(60), <1>6, <1>4 DEF IndInv, OnlyCommittedSent, TypeOK, SdkCall
<1>16. OneOpenRow'
  BY Zenon, SMT, <1>8, <1>9 DEF IndInv, OneOpenRow, IsLatest
<1>17. RunnableIsOwned'
  <2> SUFFICES ASSUME NEW p \in QueryIds,
                      rows'[p].status = "received", Runnable(p)'
               PROVE  Owned(p)'
    BY Zenon, SMT DEF RunnableIsOwned
  <2>1. CASE p = q
    <3>1. rows[q].fileReady
      BY Zenon, SMT, <1>2, <1>4, <1>5, <2>1, AsynqueryAssumption DEF Runnable
    <3> QED
      BY Zenon, SMT, <1>6, <2>1, <3>1 DEF Owned
  <2>2. CASE p # q
    <3>1. Owned(p)
      BY Zenon, SMT, <1>4, <2>2 DEF IndInv, RunnableIsOwned, Runnable
    <3> QED
      BY Zenon, SMT, <1>6, <3>1 DEF Owned, IsQueryTask
  <2> QED
    BY Zenon, SMT, <2>1, <2>2
<1>18. WakeInv'
  <2> SUFFICES ASSUME NEW p \in QueryIds, NEW t \in TaskIds,
                      rows[p].status = "received", IsFirst(p)',
                      IsMergeTask(t, rows'[p].upload), tasks[t].state = "done"
               PROVE  rows[p].fileReady
    BY Zenon, SMT, <1>6, <1>8 DEF WakeInv, IsMergeTask
  <2>1. IsFirst(p) /\ IsMergeTask(t, rows[p].upload)
    BY Zenon, SMT, <1>8, <1>9 DEF IsFirst
  <2> QED
    BY Zenon, SMT, <2>1 DEF IndInv, WakeInv
<1> QED
  BY Zenon, SMT, <1>7, <1>11, <1>12, <1>13, <1>14, <1>15, <1>16, <1>17, <1>18 DEF IndInv

\* The queue starting a task preserves the invariant.
LEMMA StartKeeps ==
    ASSUME IndInv, NEW w \in Workers, NEW t \in TaskIds, Start(w, t)
    PROVE  IndInv'
<1> DEFINE h == [pc |-> tasks[t].kind, task |-> t, qid |-> tasks[t].qid,
                 body |-> NoBody, patch |-> tasks[t].upload, res |-> "none",
                 snap |-> AbsentRow]
<1>1. tasks[t] \in Task /\ tasks[t].state = "pending" /\ tasks[t].kind \in {"merge", "query"}
  BY Zenon, SMT DEF Start, IndInv, TypeOK, TaskInv, Task
<1>2. /\ h \in Handler
      /\ h.pc = tasks[t].kind /\ h.task = t /\ h.qid = tasks[t].qid
      /\ h.patch = tasks[t].upload
  <2>2. AbsentRow \in Row
    BY Zenon, SMT DEF AbsentRow, Row
  <2>3. t \in 0..MaxTasks
    BY FreshIds DEF IndInv, TaskIds
  <2> QED
    BY Zenon, SMT, <1>1, <2>2, <2>3 DEF Handler, Task
<1>3. /\ handler' = [handler EXCEPT ![w] = h]
      /\ tasks' = [tasks EXCEPT ![t].state = "active"]
  BY Zenon, SMT DEF Start
<1>4. \A s \in TaskIds :
          /\ tasks'[s] \in Task
          /\ tasks'[s].kind = tasks[s].kind
          /\ tasks'[s].upload = tasks[s].upload
          /\ tasks'[s].qid = tasks[s].qid
          /\ tasks'[s].state = "none" <=> tasks[s].state = "none"
          /\ tasks'[s].state = "done" => tasks[s].state = "done"
  BY Zenon, SMT, <1>1, <1>3 DEF IndInv, TypeOK, Task
<1> HIDE DEF h
<1>5. TypeOK'
  <2>1. tasks' \in [TaskIds -> Task]
    BY Zenon, SMT, <1>3, <1>4 DEF IndInv, TypeOK
  <2> QED
    BY <1>2, <1>3, <2>1 DEF Start, IndInv, TypeOK
<1>6. TasksKept
  BY Zenon, SMT, <1>4 DEF TasksKept
<1>7. HandlerInv'
  <2> SUFFICES ASSUME NEW x \in Workers PROVE HandlerOK(x)'
    BY Zenon, SMT DEF HandlerInv
  <2>1. CASE x = w
    <3>1. handler'[w] = h
      BY Zenon, SMT, <1>3 DEF IndInv, TypeOK
    <3>2. h.pc = "merge" => h.patch \in Uploads /\ h.qid = 0
      BY Zenon, SMT, <1>2 DEF IndInv, TaskInv
    <3>3. h.pc = "query" => h.qid \in QueryIds /\ Runnable(h.qid)
      BY Zenon, SMT, <1>2 DEF IndInv, TaskInv
    <3>4. rows' = rows
      BY Zenon, SMT DEF Start
    <3> QED
      BY Zenon, SMT, <1>1, <1>2, <1>4, <2>1, <3>1, <3>2, <3>3, <3>4
      DEF HandlerOK, IsMergeTask, IsQueryTask, Runnable
  <2>2. CASE x # w
    <3>1. handler'[x] = handler[x]
      BY Zenon, SMT, <1>3, <2>2 DEF IndInv, TypeOK
    <3>2. RowsKept
      BY Zenon, SMT DEF Start, RowsKept, IndInv, TypeOK, Row
    <3> QED
      BY Zenon, SMT, <1>6, <3>1, <3>2, HandlerKept DEF Start, IndInv, HandlerInv
  <2> QED
    BY Zenon, SMT, <2>1, <2>2
<1>8. OnlyCommittedSent'
  BY Zenon, SMT DEF Start, IndInv, OnlyCommittedSent
<1> QED
  BY Zenon, SMT, <1>4, <1>5, <1>6, <1>7, <1>8, QueueStepKeeps DEF Start

\* A deadline that leaves an orphan handler behind preserves the invariant.
LEMMA TimeoutKeeps ==
    ASSUME IndInv, NEW w \in Workers, Timeout(w)
    PROVE  IndInv'
<1> DEFINE t == handler[w].task
<1>1. handler[w] \in Handler /\ t \in TaskIds /\ tasks[t] \in Task
  BY FreshIds DEF Timeout, IndInv, TypeOK, Handler, TaskIds
<1>2. tasks' = [tasks EXCEPT ![t] = Settle(tasks[t], "error")]
  BY Zenon, SMT DEF Timeout, Settle
<1>3. tasks' \in [TaskIds -> Task] /\ TasksAfter(w, "error")
  BY <1>1, <1>2, SettleFacts DEF IndInv, TypeOK, TasksAfter
<1>4. handler' = [handler EXCEPT ![w] = [handler[w] EXCEPT !.task = 0]]
  BY Zenon, SMT DEF Timeout
<1>5. [handler[w] EXCEPT !.task = 0] \in Handler
  BY <1>1, FreshIds DEF Handler, IndInv
<1>6. TypeOK'
  BY Zenon, SMT, <1>3, <1>4, <1>5 DEF Timeout, IndInv, TypeOK
<1>7. TasksKept
  BY Zenon, SMT, <1>3 DEF TasksKept, TasksAfter
<1>8. HandlerInv'
  <2> SUFFICES ASSUME NEW x \in Workers PROVE HandlerOK(x)'
    BY Zenon, SMT DEF HandlerInv
  <2>1. RowsKept
    BY Zenon, SMT DEF Timeout, RowsKept, IndInv, TypeOK, Row
  <2>2. \/ handler'[x] = handler[x]
        \/ handler[x].pc # "idle" /\ handler'[x] = [handler[x] EXCEPT !.task = 0]
    BY Zenon, SMT, <1>4 DEF Timeout, IndInv, TypeOK
  <2> QED
    BY Zenon, SMT, <1>7, <2>1, <2>2, HandlerKept DEF Timeout, IndInv, HandlerInv
<1>9. OnlyCommittedSent'
  BY Zenon, SMT DEF Timeout, IndInv, OnlyCommittedSent
<1>10. ASSUME NEW s \in TaskIds
       PROVE  /\ tasks'[s].kind = tasks[s].kind
              /\ tasks'[s].state = "none" <=> tasks[s].state = "none"
              /\ tasks'[s].state = "done" => tasks[s].state = "done"
  <2>1. HandlerOK(w)
    BY Zenon, SMT DEF IndInv, HandlerInv
  <2>2. tasks[t].kind # "none"
    BY Zenon, SMT, <1>1, <2>1 DEF Timeout, HandlerOK, IsMergeTask, IsQueryTask, Handler
  <2>3. tasks[t].state # "none"
    BY Zenon, SMT, <1>1, <2>2 DEF IndInv, TaskInv
  <2> QED
    BY Zenon, SMT, <1>3, <2>3 DEF TasksAfter
<1> QED
  BY Zenon, SMT, <1>6, <1>7, <1>8, <1>9, <1>10, QueueStepKeeps DEF Timeout

\* A SendRequest that fails preserves the invariant.
LEMMA SendFailsKeeps ==
    ASSUME IndInv, NEW q \in QueryIds, q \in sending,
           sending' = sending \ {q}, sendFailed' = sendFailed \cup {q},
           UNCHANGED <<rows, nrows, tasks, ntasks, handler, calls>>
    PROVE  IndInv'
<1>1. \A p \in QueryIds : Runnable(p)' <=> Runnable(p)
  BY Zenon, SMT DEF Runnable
<1>2. \A v : RowsOf(v)' = RowsOf(v)
  BY Zenon, SMT DEF RowsOf, Exists
<1>3. TypeOK' /\ RowInv' /\ SendInv' /\ OneOpenRow' /\ OnlyCommittedSent'
  BY Zenon, SMT, <1>1, <1>2 DEF IndInv, TypeOK, RowInv, SendInv, OneOpenRow, IsLatest,
                    Exists, OnlyCommittedSent
<1>4. TaskInv'
  BY Zenon, SMT, <1>1, <1>2 DEF IndInv, TaskInv
<1>5. HandlerInv'
  <2>1. RowsKept /\ TasksKept
    BY Zenon, SMT DEF RowsKept, TasksKept, IndInv, TypeOK, Row
  <2> QED
    BY Zenon, SMT, <2>1, HandlerKept DEF IndInv, HandlerInv
<1>6. RunnableIsOwned'
  BY Zenon, SMT, <1>1 DEF IndInv, RunnableIsOwned, Owned, IsQueryTask
<1>7. WakeInv'
  BY Zenon, SMT, <1>2 DEF IndInv, WakeInv, IsFirst, IsMergeTask
<1> QED
  BY Zenon, SMT, <1>3, <1>4, <1>5, <1>6, <1>7 DEF IndInv

\* The entry of robustCall preserves the invariant if the row can run and the
\* handler holds its body and metadata.
LEMMA FireKeeps ==
    ASSUME IndInv, NEW w \in Workers, NEW q \in QueryIds,
           NEW patch \in Uploads \cup {NoUpload},
           Fire(w, q, patch),
           rows[q].ready, patch = rows[q].upload,
           handler[w].task # 0 => \/ IsMergeTask(handler[w].task, patch)
                                  \/ IsQueryTask(handler[w].task, q),
           UNCHANGED <<rows, nrows, tasks, ntasks, sending, sendFailed, calls>>
    PROVE  IndInv'
<1> DEFINE h == [handler[w] EXCEPT !.pc = "call", !.qid = q,
                                   !.body = rows[q].body, !.patch = patch]
<1>1. handler[w] \in Handler /\ rows[q] \in Row /\ q \in 0..MaxRows
  BY DEF IndInv, TypeOK, QueryIds
<1>2. /\ h \in Handler /\ h.pc = "call" /\ h.task = handler[w].task
      /\ h.qid = q /\ h.body = rows[q].body /\ h.patch = patch
  BY Zenon, SMT, <1>1 DEF Handler, Row
<1>3. handler' = [handler EXCEPT ![w] = h] /\ handler'[w] = h
  BY Zenon, SMT DEF Fire, IndInv, TypeOK
<1> HIDE DEF h
<1>4. HandlerOK(w)'
  BY Zenon, SMT, <1>2, <1>3 DEF HandlerOK, IsMergeTask, IsQueryTask
<1>5. OnlyCommittedSent' /\ calls' \subseteq SdkCall
  BY Zenon, SMT DEF IndInv, TypeOK, OnlyCommittedSent
<1> QED
  BY Zenon, SMT, <1>2, <1>3, <1>4, <1>5, HandlerMoveKeeps

\* The SDK call preserves the invariant.
LEMMA CallSdkKeeps ==
    ASSUME IndInv, NEW w \in Workers, NEW out \in Outcome, CallSdk(w, out)
    PROVE  IndInv'
<1> DEFINE g == handler[w]
           c == [qid |-> g.qid, body |-> g.body, patch |-> g.patch, out |-> out]
           h == [g EXCEPT !.pc = "fread", !.res = out]
<1>1. /\ g \in Handler /\ g.pc = "call" /\ HandlerOK(w)
      /\ g.qid \in QueryIds /\ rows[g.qid].ready
      /\ g.body = rows[g.qid].body /\ g.patch = rows[g.qid].upload
  BY Zenon, SMT DEF CallSdk, IndInv, TypeOK, HandlerInv, HandlerOK
<1>2. c \in SdkCall /\ calls' = calls \cup {c}
  BY Zenon, SMT, <1>1 DEF CallSdk, SdkCall, Handler
<1>3. /\ h \in Handler /\ h.pc = "fread" /\ h.res = out
      /\ h.task = g.task /\ h.qid = g.qid /\ h.body = g.body /\ h.patch = g.patch
  BY Zenon, SMT, <1>1 DEF Handler
<1>4. handler' = [handler EXCEPT ![w] = h] /\ handler'[w] = h
  BY Zenon, SMT DEF CallSdk, IndInv, TypeOK
<1>5. UNCHANGED <<rows, nrows, tasks, ntasks, sending, sendFailed>>
  BY Zenon, SMT DEF CallSdk
<1> HIDE DEF h
<1>6. HandlerOK(w)'
  BY SMTT(60), SMTT(45), <1>1, <1>2, <1>3, <1>4, <1>5 DEF HandlerOK, IsMergeTask, IsQueryTask
<1>7. OnlyCommittedSent'
  BY <1>1, <1>2, <1>5 DEF IndInv, OnlyCommittedSent
<1>8. calls' \subseteq SdkCall
  BY Zenon, SMT, <1>2 DEF IndInv, TypeOK
<1> QED
  BY Zenon, SMT, <1>2, <1>3, <1>4, <1>5, <1>6, <1>7, <1>8, HandlerMoveKeeps

\* The read of finalizeQueryRecord preserves the invariant.
LEMMA FinalizeReadKeeps ==
    ASSUME IndInv, NEW w \in Workers, FinalizeRead(w)
    PROVE  IndInv'
<1> DEFINE g == handler[w]
           h == [g EXCEPT !.pc = "fwrite", !.snap = rows[g.qid]]
<1>1. g \in Handler /\ g.pc = "fread" /\ HandlerOK(w) /\ g.qid \in QueryIds
  BY Zenon, SMT DEF FinalizeRead, IndInv, TypeOK, HandlerInv, HandlerOK
<1>2. /\ h \in Handler /\ h.pc = "fwrite" /\ h.snap = rows[g.qid]
      /\ h.task = g.task /\ h.qid = g.qid /\ h.body = g.body /\ h.patch = g.patch
      /\ h.res = g.res
  BY Zenon, SMT, <1>1 DEF Handler, IndInv, TypeOK
<1>3. handler' = [handler EXCEPT ![w] = h] /\ handler'[w] = h
  BY Zenon, SMT DEF FinalizeRead, IndInv, TypeOK
<1>4. UNCHANGED <<rows, nrows, tasks, ntasks, sending, sendFailed, calls>>
  BY Zenon, SMT DEF FinalizeRead
<1> HIDE DEF h
<1>5. HandlerOK(w)'
  BY <1>1, <1>2, <1>3, <1>4 DEF HandlerOK, IsMergeTask, IsQueryTask
<1>6. OnlyCommittedSent' /\ calls' \subseteq SdkCall
  BY Zenon, SMT, <1>4 DEF IndInv, TypeOK, OnlyCommittedSent
<1> QED
  BY Zenon, SMT, <1>2, <1>3, <1>4, <1>5, <1>6, HandlerMoveKeeps

\* A message for a finished row (handleMergeTx) preserves the invariant.
LEMMA MergeDropKeeps ==
    ASSUME IndInv, NEW w \in Workers, MergeDrop(w)
    PROVE  IndInv'
<1> DEFINE u == handler[w].patch
<1>1. PICK q \in QueryIds : IsLatest(q, u) /\ rows[q].status = "succeeded"
  BY Zenon, SMT DEF MergeDrop
<1>2. u \in Uploads /\ handler[w].pc = "merge"
  BY Zenon, SMT DEF MergeDrop, IndInv, HandlerInv, HandlerOK
<1>3. \A p \in RowsOf(u) : rows[p].status # "received"
  <2> SUFFICES ASSUME NEW p \in RowsOf(u), rows[p].status = "received"
               PROVE  FALSE
    OBVIOUS
  <2>1. p \in QueryIds /\ rows[p].upload = u
    BY Zenon, SMT DEF RowsOf
  <2>2. IsLatest(p, u)
    BY Zenon, SMT, <1>2, <2>1, AsynqueryAssumption DEF IndInv, OneOpenRow
  <2>3. p = q
    BY <1>1, <2>1, <2>2 DEF IsLatest, QueryIds
  <2> QED
    BY Zenon, SMT, <1>1, <2>3
<1>4. RowsOf(u) # {}
  BY Zenon, SMT, <1>1 DEF IsLatest
<1> QED
  BY Zenon, SMT, <1>2, <1>3, <1>4, ReturnKeeps DEF MergeDrop

\* A message that sets file_ready on a draft (handleMergeTx) preserves the
\* invariant.
LEMMA MergeDraftKeeps ==
    ASSUME IndInv, NEW w \in Workers, MergeDraft(w)
    PROVE  IndInv'
<1> DEFINE u == handler[w].patch
<1>1. PICK q \in QueryIds :
          /\ IsLatest(q, u)
          /\ ~rows[q].ready
          /\ rows' = [rows EXCEPT ![q].fileReady = TRUE, ![q].meta = u]
  BY Zenon, SMT DEF MergeDraft
<1>2. PICK verdict \in {"nil", "error"} : Return(w, verdict)
  BY Zenon, SMT DEF MergeDraft
<1>3. UNCHANGED <<nrows, sending, sendFailed, calls>>
  BY Zenon, SMT DEF MergeDraft
<1> DEFINE new == [rows[q] EXCEPT !.fileReady = TRUE, !.meta = u]
<1>4. /\ handler[w].pc = "merge" /\ u \in Uploads
      /\ handler[w].task # 0 => IsMergeTask(handler[w].task, u)
  BY Zenon, SMT DEF MergeDraft, IndInv, HandlerInv, HandlerOK
<1>t. tasks' \in [TaskIds -> Task] /\ handler' \in [Workers -> Handler]
  BY Zenon, SMT, <1>2, ReturnFacts DEF IndInv
<1>a. TasksAfter(w, verdict)
  BY Zenon, SMT, <1>2, ReturnFacts DEF IndInv
<1>h. handler' = [handler EXCEPT ![w] = Idle]
  BY Zenon, SMT, <1>2, ReturnFacts DEF IndInv
<1>n. ntasks' = ntasks
  BY Zenon, SMT, <1>2, ReturnFacts DEF IndInv
<1>6. /\ rows[q] \in Row /\ new \in Row
      /\ new.upload = rows[q].upload /\ new.status = rows[q].status
      /\ new.ready = rows[q].ready /\ new.fileReady = TRUE /\ new.meta = u
      /\ new.body = rows[q].body
  BY Zenon, SMT, <1>4 DEF IndInv, TypeOK, Row
<1>7. rows' = [rows EXCEPT ![q] = new]
  BY Zenon, SMT, <1>1 DEF IndInv, TypeOK
<1>8. rows'[q] = new /\ \A p \in QueryIds : p # q => rows'[p] = rows[p]
  BY Zenon, SMT, <1>7 DEF IndInv, TypeOK
<1>9. IsLatest(q, u) /\ ~rows[q].ready /\ rows[q].upload = u /\ Exists(q)
  BY Zenon, SMT, <1>1 DEF IsLatest, RowsOf
<1> HIDE DEF new, u
<1>10. \A p \in QueryIds : /\ rows'[p].upload = rows[p].upload
                           /\ rows'[p].status = rows[p].status
                           /\ rows'[p].ready = rows[p].ready
                           /\ Exists(p)' <=> Exists(p)
                           /\ Runnable(p)' <=> Runnable(p)
  BY Zenon, SMT, <1>6, <1>8, <1>9 DEF Exists, Runnable
<1>11. \A v : RowsOf(v)' = RowsOf(v)
  BY Zenon, SMT, <1>10 DEF RowsOf
<1>12. RowsKept
  BY Zenon, SMT, <1>8, <1>9 DEF RowsKept, IndInv, TypeOK, Row
<1>13. TasksKept
  BY Zenon, SMT, <1>a DEF TasksKept, TasksAfter
<1>14. TypeOK'
  <2>1. rows' \in [QueryIds -> Row]
    BY Zenon, SMT, <1>6, <1>7 DEF IndInv, TypeOK
  <2> QED
    BY Zenon, SMT, <1>3, <1>t, <1>n, <2>1 DEF IndInv, TypeOK
<1>15. RowInv'
  <2> SUFFICES ASSUME NEW p \in QueryIds PROVE RowInv!(p)'
    BY Zenon, SMT DEF RowInv
  <2>1. RowInv!(p)
    BY Zenon, SMT DEF IndInv, RowInv
  <2>2. CASE p = q
    BY Zenon, SMT, <1>3, <1>6, <1>8, <1>9, <1>10, <2>1, <2>2
  <2>3. CASE p # q
    BY Zenon, SMT, <1>3, <1>8, <1>10, <2>1, <2>3
  <2> QED
    BY Zenon, SMT, <2>2, <2>3
<1>16. TaskInv'
  <2> SUFFICES ASSUME NEW t \in TaskIds PROVE TaskInv!(t)'
    BY Zenon, SMT DEF TaskInv
  <2>1. TaskInv!(t)
    BY Zenon, SMT DEF IndInv, TaskInv
  <2>2. /\ tasks'[t].kind = tasks[t].kind
        /\ tasks'[t].upload = tasks[t].upload
        /\ tasks'[t].qid = tasks[t].qid
    BY Zenon, SMT, <1>a DEF TasksAfter
  <2>3. CASE t # handler[w].task
    <3>1. tasks'[t] = tasks[t]
      BY Zenon, SMT, <1>a, <2>3 DEF TasksAfter
    <3>2. tasks[t].kind = "query" =>
              /\ tasks[t].qid \in QueryIds
              /\ Runnable(tasks[t].qid)'
              /\ tasks[t].state = "done" => rows'[tasks[t].qid].status # "received"
      BY Zenon, SMT, <1>10, <2>1, <3>1
    <3>3. tasks[t].kind = "merge" /\ tasks[t].state = "done"
              => RowsOf(tasks[t].upload)' # {}
      BY Zenon, SMT, <1>11, <2>1, <3>1
    <3> QED
      BY Zenon, SMT, <1>n, <2>1, <3>1, <3>2, <3>3
  <2>4. CASE t = handler[w].task
    <3>1. tasks[t].kind = "merge" /\ tasks[t].upload = u
      BY SMTT(60), SMTT(45), <1>4, <2>4 DEF IsMergeTask, TaskIds
    <3>2. tasks'[t].state \in {"done", "pending", "archived"}
      BY Zenon, SMT, <1>a, <2>4 DEF TasksAfter
    <3>3. RowsOf(u) # {}
      BY Zenon, SMT, <1>9 DEF IsLatest
    <3> QED
      BY Zenon, SMT, <1>n, <1>11, <2>1, <2>2, <3>1, <3>2, <3>3
  <2> QED
    BY Zenon, SMT, <2>3, <2>4
<1>17. SendInv'
  BY Zenon, SMT, <1>3, <1>10 DEF IndInv, SendInv, TypeOK
<1>18. HandlerInv'
  <2> SUFFICES ASSUME NEW x \in Workers PROVE HandlerOK(x)'
    BY Zenon, SMT DEF HandlerInv
  <2>1. CASE x = w
    BY Zenon, SMT, <1>h, <2>1 DEF HandlerOK, Idle, IndInv, TypeOK
  <2>2. CASE x # w
    <3>1. handler'[x] = handler[x]
      BY Zenon, SMT, <1>h, <2>2 DEF IndInv, TypeOK
    <3> QED
      BY Zenon, SMT, <1>3, <1>12, <1>13, <3>1, HandlerKept DEF IndInv, HandlerInv
  <2> QED
    BY Zenon, SMT, <2>1, <2>2
<1>19. OnlyCommittedSent'
  <2> SUFFICES ASSUME NEW c \in calls
               PROVE  OnlyCommittedSent!(c)'
    BY Zenon, SMT, <1>3 DEF OnlyCommittedSent
  <2>1. c.qid \in QueryIds
    BY Zenon, SMT DEF IndInv, TypeOK, SdkCall
  <2>2. OnlyCommittedSent!(c)
    BY Zenon, SMT DEF IndInv, OnlyCommittedSent
  <2> QED
    BY Zenon, SMT, <1>8, <1>9, <2>1, <2>2
<1>20. OneOpenRow'
  BY Zenon, SMT, <1>10, <1>11 DEF IndInv, OneOpenRow, IsLatest
<1>21. RunnableIsOwned'
  <2> SUFFICES ASSUME NEW p \in QueryIds,
                      rows[p].status = "received", Runnable(p)
               PROVE  Owned(p)'
    BY Zenon, SMT, <1>10 DEF RunnableIsOwned
  <2>1. Owned(p)
    BY Zenon, SMT DEF IndInv, RunnableIsOwned
  <2>2. CASE \E t \in TaskIds : IsQueryTask(t, p) /\ tasks[t].state # "done"
    <3>1. PICK t \in TaskIds : IsQueryTask(t, p) /\ tasks[t].state # "done"
      BY Zenon, SMT, <2>2
    <3>2. t # handler[w].task
      BY SMTT(60), SMTT(45), <1>4, <3>1 DEF IsQueryTask, IsMergeTask, TaskIds
    <3> QED
      BY Zenon, SMT, <1>a, <3>1, <3>2 DEF Owned, IsQueryTask, TasksAfter
  <2> QED
    BY Zenon, SMT, <1>3, <2>1, <2>2 DEF Owned
<1>22. WakeInv'
  <2> SUFFICES ASSUME NEW p \in QueryIds, NEW t \in TaskIds, p # q,
                      rows[p].status = "received", IsFirst(p)',
                      IsMergeTask(t, rows[p].upload)', tasks'[t].state = "done"
               PROVE  rows[p].fileReady
    BY Zenon, SMT, <1>6, <1>8, <1>10 DEF WakeInv, IsMergeTask
  <2>1. /\ IsFirst(p) /\ IsMergeTask(t, rows[p].upload)
    BY Zenon, SMT, <1>a, <1>8, <1>10, <1>11 DEF IsFirst, IsMergeTask, TasksAfter
  <2>2. t # handler[w].task
    <3> SUFFICES ASSUME t = handler[w].task PROVE FALSE
      BY Zenon, SMT
    <3>1. rows[p].upload = u
      BY SMTT(60), SMTT(45), <1>4, <2>1 DEF IsMergeTask, TaskIds
    <3>2. IsLatest(p, u)
      BY Zenon, SMT, <1>4, <3>1, AsynqueryAssumption DEF IndInv, OneOpenRow
    <3> QED
      BY SMTT(60), SMTT(45), <1>9, <3>2 DEF IsLatest, RowsOf, QueryIds
  <2>3. tasks[t].state = "done"
    BY Zenon, SMT, <1>a, <2>2 DEF TasksAfter
  <2> QED
    BY Zenon, SMT, <2>1, <2>3 DEF IndInv, WakeInv
<1> QED
  BY Zenon, SMT, <1>14, <1>15, <1>16, <1>17, <1>18, <1>19, <1>20, <1>21, <1>22 DEF IndInv

\* The write of finalizeQueryRecord changes the status of its row and nothing
\* else: the columns it read are still those of the row.
LEMMA FinalizeWriteRow ==
    ASSUME IndInv, NEW w \in Workers, FinalizeWrite(w)
    PROVE  LET q == handler[w].qid IN
           /\ q \in QueryIds /\ rows[q].ready /\ Exists(q)
           /\ rows' = [rows EXCEPT ![q] =
                         [rows[q] EXCEPT !.status = FinalStatus(handler[w].res)]]
           /\ FinalStatus(handler[w].res) \in {"failed", "succeeded"}
<1>1. HandlerOK(w) /\ handler[w].pc = "fwrite"
  BY Zenon, SMT DEF FinalizeWrite, IndInv, HandlerInv
<1>2. handler[w].qid \in QueryIds /\ rows[handler[w].qid].ready
  BY Zenon, SMT, <1>1 DEF HandlerOK
<1>3. FinalStatus(handler[w].res) \in {"failed", "succeeded"}
  BY Zenon, SMT DEF FinalStatus
<1>4. Exists(handler[w].qid)
  BY <1>2 DEF IndInv, RowInv, AbsentRow
<1>5. [handler[w].snap EXCEPT !.status = FinalStatus(handler[w].res)]
         = [rows[handler[w].qid] EXCEPT !.status = FinalStatus(handler[w].res)]
  BY Zenon, SMT, <1>1, <1>3 DEF HandlerOK
<1>6. rows' = [rows EXCEPT ![handler[w].qid] =
                 [handler[w].snap EXCEPT !.status = FinalStatus(handler[w].res)]]
  BY Zenon, SMT DEF FinalizeWrite
<1> QED
  BY Zenon, SMT, <1>2, <1>3, <1>4, <1>5, <1>6

\* The whole-row update of finalizeQueryRecord preserves the invariant: the row
\* it read earlier differs from the current one in its status only.
LEMMA FinalizeWriteKeeps ==
    ASSUME IndInv, NEW w \in Workers, FinalizeWrite(w)
    PROVE  IndInv'
<1> DEFINE q == handler[w].qid
           st == FinalStatus(handler[w].res)
           new == [rows[q] EXCEPT !.status = st]
<1>1. /\ q \in QueryIds /\ rows[q].ready /\ Exists(q)
      /\ rows' = [rows EXCEPT ![q] = new]
      /\ st \in {"failed", "succeeded"}
  BY Zenon, SMT, FinalizeWriteRow
<1>2. PICK verdict \in {"nil", "error", "skip"} : Return(w, verdict)
  <2>1. handler[w].res \in Outcome
    BY Zenon, SMT DEF FinalizeWrite, IndInv, TypeOK, HandlerInv, HandlerOK, SdkCall
  <2>2. Verdict(handler[w].res) \in {"nil", "error", "skip"}
    BY Zenon, SMT, <2>1 DEF Verdict, Outcome
  <2>3. \E v \in {Verdict(handler[w].res), "error"} : Return(w, v)
    BY Zenon, SMT DEF FinalizeWrite
  <2> QED
    BY Zenon, SMT, <2>2, <2>3
<1>3. UNCHANGED <<nrows, sending, sendFailed, calls>>
  BY Zenon, SMT DEF FinalizeWrite
<1>4. /\ handler[w].patch = rows[q].upload
      /\ handler[w].task # 0 => \/ IsMergeTask(handler[w].task, rows[q].upload)
                                \/ IsQueryTask(handler[w].task, q)
  BY Zenon, SMT DEF FinalizeWrite, IndInv, HandlerInv, HandlerOK
<1>t. tasks' \in [TaskIds -> Task] /\ handler' \in [Workers -> Handler]
  BY Zenon, SMT, <1>2, ReturnFacts DEF IndInv
<1>a. TasksAfter(w, verdict)
  BY Zenon, SMT, <1>2, ReturnFacts DEF IndInv
<1>h. handler' = [handler EXCEPT ![w] = Idle]
  BY Zenon, SMT, <1>2, ReturnFacts DEF IndInv
<1>n. ntasks' = ntasks
  BY Zenon, SMT, <1>2, ReturnFacts DEF IndInv
<1>6. /\ rows[q] \in Row /\ new \in Row
      /\ new.upload = rows[q].upload /\ new.status = st
      /\ new.ready = rows[q].ready /\ new.fileReady = rows[q].fileReady
      /\ new.meta = rows[q].meta /\ new.body = rows[q].body
  BY Zenon, SMT, <1>1 DEF IndInv, TypeOK, Row
<1>7. rows'[q] = new /\ \A p \in QueryIds : p # q => rows'[p] = rows[p]
  BY Zenon, SMT, <1>1 DEF IndInv, TypeOK
<1>8. TypeOK'
  <2>1. rows' \in [QueryIds -> Row]
    BY Zenon, SMT, <1>1, <1>6 DEF IndInv, TypeOK
  <2> QED
    BY Zenon, SMT, <1>3, <1>t, <1>n, <2>1 DEF IndInv, TypeOK
<1>9. RowsKept
  <2> SUFFICES ASSUME NEW p \in QueryIds, rows[p].ready
               PROVE  rows'[p] = [rows[p] EXCEPT !.status = rows'[p].status]
    BY Zenon, SMT DEF RowsKept
  <2>1. CASE p = q
    BY Zenon, SMT, <1>6, <1>7, <2>1
  <2>2. CASE p # q
    BY Zenon, SMT, <1>7, <2>2 DEF IndInv, TypeOK, Row
  <2> QED
    BY Zenon, SMT, <2>1, <2>2
<1>10. TasksKept
  BY Zenon, SMT, <1>a DEF TasksKept, TasksAfter
<1> HIDE DEF new, st, q
<1>11. \A p \in QueryIds : /\ rows'[p].upload = rows[p].upload
                           /\ rows'[p].ready = rows[p].ready
                           /\ rows'[p].fileReady = rows[p].fileReady
                           /\ rows'[p].meta = rows[p].meta
                           /\ rows'[p].body = rows[p].body
                           /\ Exists(p)' <=> Exists(p)
                           /\ Runnable(p)' <=> Runnable(p)
                           /\ rows'[p].status = "received"
                                 => p # q /\ rows[p].status = "received"
  BY Zenon, SMT, <1>1, <1>6, <1>7 DEF Exists, Runnable
<1>12. \A v : RowsOf(v)' = RowsOf(v)
  BY Zenon, SMT, <1>11 DEF RowsOf
<1>13. RowInv'
  <2> SUFFICES ASSUME NEW p \in QueryIds PROVE RowInv!(p)'
    BY Zenon, SMT DEF RowInv
  <2>1. RowInv!(p)
    BY Zenon, SMT DEF IndInv, RowInv
  <2>2. CASE p = q
    BY SMTT(60), SMTT(45), <1>1, <1>3, <1>6, <1>7, <1>11, <2>1, <2>2
  <2>3. CASE p # q
    BY Zenon, SMT, <1>3, <1>7, <1>11, <2>1, <2>3
  <2> QED
    BY Zenon, SMT, <2>2, <2>3
<1>14. TaskInv'
  <2> SUFFICES ASSUME NEW t \in TaskIds PROVE TaskInv!(t)'
    BY Zenon, SMT DEF TaskInv
  <2>1. TaskInv!(t)
    BY Zenon, SMT DEF IndInv, TaskInv
  <2>2. /\ tasks'[t].kind = tasks[t].kind
        /\ tasks'[t].upload = tasks[t].upload
        /\ tasks'[t].qid = tasks[t].qid
    BY Zenon, SMT, <1>a DEF TasksAfter
  <2>3. CASE t # handler[w].task
    <3>1. tasks'[t] = tasks[t]
      BY Zenon, SMT, <1>a, <2>3 DEF TasksAfter
    <3> QED
      BY Zenon, SMT, <1>n, <1>11, <1>12, <2>1, <3>1
  <2>4. CASE t = handler[w].task
    <3>1. IsMergeTask(t, rows[q].upload) \/ IsQueryTask(t, q)
      BY SMTT(60), SMTT(45), <1>4, <2>4 DEF TaskIds
    <3>2. tasks'[t].state \in {"done", "pending", "archived"}
      BY Zenon, SMT, <1>a, <2>4 DEF TasksAfter
    <3>3. q \in RowsOf(rows[q].upload) /\ rows'[q].status # "received"
      BY Zenon, SMT, <1>1, <1>6, <1>7 DEF RowsOf
    <3>4. CASE IsMergeTask(t, rows[q].upload)
      BY Zenon, SMT, <1>n, <1>12, <2>1, <2>2, <3>2, <3>3, <3>4 DEF IsMergeTask
    <3>5. CASE IsQueryTask(t, q)
      BY Zenon, SMT, <1>n, <1>11, <2>1, <2>2, <3>2, <3>3, <3>5 DEF IsQueryTask
    <3> QED
      BY Zenon, SMT, <3>1, <3>4, <3>5
  <2> QED
    BY Zenon, SMT, <2>3, <2>4
<1>15. SendInv'
  BY Zenon, SMT, <1>3, <1>11 DEF IndInv, SendInv, TypeOK
<1>16. HandlerInv'
  <2> SUFFICES ASSUME NEW x \in Workers PROVE HandlerOK(x)'
    BY Zenon, SMT DEF HandlerInv
  <2>1. CASE x = w
    BY Zenon, SMT, <1>h, <2>1 DEF HandlerOK, Idle, IndInv, TypeOK
  <2>2. CASE x # w
    <3>1. handler'[x] = handler[x]
      BY Zenon, SMT, <1>h, <2>2 DEF IndInv, TypeOK
    <3> QED
      BY Zenon, SMT, <1>3, <1>9, <1>10, <3>1, HandlerKept DEF IndInv, HandlerInv
  <2> QED
    BY Zenon, SMT, <2>1, <2>2
<1>17. OnlyCommittedSent'
  <2> SUFFICES ASSUME NEW c \in calls
               PROVE  OnlyCommittedSent!(c)'
    BY Zenon, SMT, <1>3 DEF OnlyCommittedSent
  <2>1. c.qid \in QueryIds
    BY Zenon, SMT DEF IndInv, TypeOK, SdkCall
  <2>2. OnlyCommittedSent!(c)
    BY Zenon, SMT DEF IndInv, OnlyCommittedSent
  <2> QED
    BY Zenon, SMT, <1>11, <2>1, <2>2
<1>18. OneOpenRow'
  BY Zenon, SMT, <1>11, <1>12 DEF IndInv, OneOpenRow, IsLatest
<1>19. RunnableIsOwned'
  <2> SUFFICES ASSUME NEW p \in QueryIds, p # q,
                      rows[p].status = "received", Runnable(p)
               PROVE  Owned(p)'
    BY Zenon, SMT, <1>11 DEF RunnableIsOwned
  <2>1. Owned(p)
    BY Zenon, SMT DEF IndInv, RunnableIsOwned
  <2>2. CASE \E t \in TaskIds : IsQueryTask(t, p) /\ tasks[t].state # "done"
    <3>1. PICK t \in TaskIds : IsQueryTask(t, p) /\ tasks[t].state # "done"
      BY Zenon, SMT, <2>2
    <3>2. t # handler[w].task
      BY SMTT(60), SMTT(45), <1>4, <3>1 DEF IsQueryTask, IsMergeTask, TaskIds
    <3> QED
      BY Zenon, SMT, <1>a, <3>1, <3>2 DEF Owned, IsQueryTask, TasksAfter
  <2> QED
    BY Zenon, SMT, <1>3, <2>1, <2>2 DEF Owned
<1>20. WakeInv'
  <2> SUFFICES ASSUME NEW p \in QueryIds, NEW t \in TaskIds, p # q,
                      rows[p].status = "received", IsFirst(p)',
                      IsMergeTask(t, rows[p].upload)', tasks'[t].state = "done"
               PROVE  rows[p].fileReady
    BY Zenon, SMT, <1>11 DEF WakeInv, IsMergeTask
  <2>1. IsFirst(p) /\ IsMergeTask(t, rows[p].upload)
    BY Zenon, SMT, <1>a, <1>11, <1>12 DEF IsFirst, IsMergeTask, TasksAfter
  <2>2. t # handler[w].task
    <3> SUFFICES ASSUME t = handler[w].task PROVE FALSE
      BY Zenon, SMT
    <3>1. rows[q].upload = rows[p].upload /\ rows[p].upload \in Uploads
      BY SMTT(60), SMTT(45), <1>4, <2>1 DEF IsMergeTask, IsQueryTask, TaskIds, IndInv, TaskInv
    <3>2. q \in RowsOf(rows[p].upload) /\ p \in RowsOf(rows[p].upload)
      BY Zenon, SMT, <1>1, <3>1 DEF RowsOf, Exists
    <3>3. IsLatest(p, rows[p].upload)
      BY Zenon, SMT, <3>1, AsynqueryAssumption DEF IndInv, OneOpenRow
    <3> QED
      BY <1>1, <2>1, <3>2, <3>3 DEF IsLatest, IsFirst, QueryIds
  <2>3. tasks[t].state = "done"
    BY Zenon, SMT, <1>a, <2>2 DEF TasksAfter
  <2> QED
    BY Zenon, SMT, <2>1, <2>3 DEF IndInv, WakeInv
<1> QED
  BY Zenon, SMT, <1>8, <1>13, <1>14, <1>15, <1>16, <1>17, <1>18, <1>19, <1>20 DEF IndInv

-----------------------------------------------------------------------------
(* The invariant.                                                          *)

\* The invariant holds for the empty table and queue.
LEMMA InitIndInv == Init => IndInv
<1> SUFFICES ASSUME Init PROVE IndInv
  BY Zenon, SMT
<1>1. AbsentRow \in Row /\ NoTask \in Task /\ Idle \in Handler
  BY AsynqueryAssumption
  DEF AbsentRow, Row, NoTask, Task, Idle, Handler, MaxTasks
<1>2. TypeOK
  BY SMTT(60), SMTT(45), <1>1, AsynqueryAssumption DEF Init, TypeOK, MaxTasks
<1>3. RowInv /\ OneOpenRow /\ RunnableIsOwned /\ WakeInv
  BY SMTT(60), SMTT(45), AsynqueryAssumption
  DEF Init, RowInv, OneOpenRow, RunnableIsOwned, WakeInv, Exists, AbsentRow,
      Runnable, QueryIds
<1>4. TaskInv /\ SendInv /\ OnlyCommittedSent
  BY DEF Init, TaskInv, SendInv, OnlyCommittedSent, NoTask, TaskIds
<1>5. HandlerInv
  BY Zenon, SMT DEF Init, HandlerInv, HandlerOK, Idle
<1> QED
  BY Zenon, SMT, <1>2, <1>3, <1>4, <1>5 DEF IndInv

\* Steps that change nothing preserve the invariant.
LEMMA StutterKeeps ==
    ASSUME IndInv, UNCHANGED vars
    PROVE  IndInv'
<1>1. \A v : RowsOf(v)' = RowsOf(v)
  BY Zenon, SMT DEF vars, RowsOf, Exists
<1>2. TypeOK' /\ RowInv' /\ SendInv' /\ OneOpenRow' /\ OnlyCommittedSent'
  BY Zenon, SMT, <1>1 DEF vars, IndInv, TypeOK, RowInv, SendInv, OneOpenRow, IsLatest,
              Exists, Runnable, OnlyCommittedSent
<1>3. TaskInv'
  BY Zenon, SMT, <1>1 DEF vars, IndInv, TaskInv, Runnable
<1>4. HandlerInv'
  BY ZenonT(30), SMTT(60) DEF vars, IndInv, HandlerInv, HandlerOK, IsMergeTask, IsQueryTask, Runnable
<1>5. RunnableIsOwned' /\ WakeInv'
  BY Zenon, SMT, <1>1 DEF vars, IndInv, RunnableIsOwned, Owned, IsQueryTask, Runnable,
              WakeInv, IsFirst, IsMergeTask
<1> QED
  BY Zenon, SMT, <1>2, <1>3, <1>4, <1>5 DEF IndInv

\* A handler that gives up, with an error or with asynq.SkipRetry, changes no row.
LEMMA GiveUpKeeps ==
    ASSUME IndInv, NEW w \in Workers, NEW verdict \in {"error", "skip"},
           handler[w].pc # "idle",
           Return(w, verdict),
           UNCHANGED <<rows, nrows, sending, sendFailed, calls>>
    PROVE  IndInv'
<1>1. verdict \in {"nil", "error", "skip"} /\ verdict # "nil"
  OBVIOUS
<1> QED
  BY Zenon, SMT, <1>1, ReturnKeeps

\* Every step of a handler preserves the invariant.
LEMMA HandlerStepKeeps ==
    ASSUME IndInv, NEW w \in Workers, HandlerStep(w) \/ Crash(w)
    PROVE  IndInv'
<1>1. CASE MergeError(w)
  BY Zenon, SMT, <1>1, ReturnKeeps DEF MergeError
<1>2. CASE MergeDraft(w)
  BY Zenon, SMT, <1>2, MergeDraftKeeps
<1>3. CASE MergeDrop(w)
  BY Zenon, SMT, <1>3, MergeDropKeeps
<1>4. CASE MergeFire(w)
  <2>1. /\ handler[w].patch \in Uploads
        /\ handler[w].task # 0 => IsMergeTask(handler[w].task, handler[w].patch)
    BY Zenon, SMT, <1>4 DEF MergeFire, IndInv, HandlerInv, HandlerOK
  <2>2. PICK q \in QueryIds : /\ rows[q].ready
                              /\ rows[q].upload = handler[w].patch
                              /\ Fire(w, q, handler[w].patch)
    BY Zenon, SMT, <1>4 DEF MergeFire, IsLatest, RowsOf
  <2> QED
    BY Zenon, SMT, <1>4, <2>1, <2>2, FireKeeps DEF MergeFire
<1>5. CASE QueryError(w)
  <2>1. /\ handler[w].pc # "idle"
        /\ Return(w, "error")
        /\ UNCHANGED <<rows, nrows, sending, sendFailed, calls>>
    BY Zenon, SMT, <1>5 DEF QueryError
  <2> QED
    BY Zenon, SMT, <2>1, GiveUpKeeps
<1>6. CASE QueryFire(w)
  <2>1. /\ handler[w].qid \in QueryIds
        /\ Runnable(handler[w].qid)
        /\ handler[w].task # 0 => IsQueryTask(handler[w].task, handler[w].qid)
    BY Zenon, SMT, <1>6 DEF QueryFire, IndInv, HandlerInv, HandlerOK
  <2>2. /\ rows[handler[w].qid].meta = rows[handler[w].qid].upload
        /\ rows[handler[w].qid].meta \in Uploads \cup {NoUpload}
        /\ rows[handler[w].qid].ready
    BY Zenon, SMT, <2>1 DEF IndInv, RowInv, Runnable, TypeOK, Row
  <2> QED
    BY Zenon, SMT, <1>6, <2>1, <2>2, FireKeeps DEF QueryFire
<1>7. CASE CallNoUser(w)
  BY Zenon, SMT, <1>7, ReturnKeeps DEF CallNoUser
<1>8. CASE \E out \in Outcome : CallSdk(w, out)
  BY Zenon, SMT, <1>8, CallSdkKeeps
<1>9. CASE FinalizeRead(w)
  BY Zenon, SMT, <1>9, FinalizeReadKeeps
<1>10. CASE FinalizeWrite(w)
  BY Zenon, SMT, <1>10, FinalizeWriteKeeps
<1>11. CASE FinalizeFails(w)
  <2> DEFINE verdict == IF handler[w].res = "rpc" THEN "skip" ELSE "error"
  <2>1. /\ handler[w].pc # "idle"
        /\ Return(w, verdict)
        /\ UNCHANGED <<rows, nrows, sending, sendFailed, calls>>
    BY Zenon, SMT, <1>11 DEF FinalizeFails
  <2>2. verdict \in {"error", "skip"}
    OBVIOUS
  <2> HIDE DEF verdict
  <2> QED
    BY Zenon, SMT, <2>1, <2>2, GiveUpKeeps
<1>12. CASE Crash(w)
  <2>1. /\ handler[w].pc # "idle"
        /\ Return(w, "error")
        /\ UNCHANGED <<rows, nrows, sending, sendFailed, calls>>
    BY Zenon, SMT, <1>12 DEF Crash
  <2> QED
    BY Zenon, SMT, <2>1, GiveUpKeeps
<1> QED
  BY Zenon, SMT, <1>1, <1>2, <1>3, <1>4, <1>5, <1>6, <1>7, <1>8, <1>9, <1>10, <1>11, <1>12
  DEF HandlerStep

\* Every API call preserves the invariant.
LEMMA ClientKeeps ==
    ASSUME IndInv, Client
    PROVE  IndInv'
<1>1. CASE \E b \in Bodies : CallPlain(b)
  BY Zenon, SMT, <1>1, InsertKeeps DEF CallPlain
<1>2. CASE \E u \in Uploads, b \in Bodies, defer \in BOOLEAN : CallNew(u, b, defer)
  <2>1. PICK u \in Uploads, b \in Bodies, defer \in BOOLEAN : CallNew(u, b, defer)
    BY Zenon, SMT, <1>2
  <2>2. u # NoUpload
    BY Zenon, SMT, AsynqueryAssumption
  <2>3. PICK ready \in BOOLEAN : createQueryRecord(u, b, ready)
    BY Zenon, SMT, <2>1, Zenon DEF CallNew
  <2>4. RowsOf(u) = {} /\ UNCHANGED <<tasks, ntasks, handler, sending, sendFailed, calls>>
    BY Zenon, SMT, <2>1 DEF CallNew
  <2> QED
    BY Zenon, SMT, <2>2, <2>3, <2>4, InsertKeeps
<1>3. CASE \E u \in Uploads, b \in Bodies : CallCommit(u, b)
  BY Zenon, SMT, <1>3, CommitKeeps
<1>4. CASE \E u \in Uploads, b \in Bodies : CallAfterFailed(u, b)
  <2>1. PICK u \in Uploads, b \in Bodies : CallAfterFailed(u, b)
    BY Zenon, SMT, <1>4
  <2>2. PICK q \in QueryIds :
            /\ IsLatest(q, u)
            /\ rows[q].status = "failed"
            /\ createQueryRecord(u, b, TRUE)
            /\ UNCHANGED <<tasks, ntasks, handler, sending, sendFailed, calls>>
    BY Zenon, SMT, <2>1 DEF CallAfterFailed
  <2>3. ASSUME NEW p \in RowsOf(u), rows[p].status = "received"
        PROVE  FALSE
    <3>1. p \in QueryIds /\ rows[p].upload = u
      BY Zenon, SMT, <2>3 DEF RowsOf
    <3>2. IsLatest(p, u)
      BY Zenon, SMT, <2>3, <3>1, AsynqueryAssumption DEF IndInv, OneOpenRow
    <3>3. p = q
      BY <2>2, <3>1, <3>2 DEF IsLatest, QueryIds
    <3> QED
      BY Zenon, SMT, <2>2, <2>3, <3>3
  <2> QED
    BY Zenon, SMT, <2>2, <2>3, InsertKeeps, AsynqueryAssumption
<1>5. CASE \E u \in Uploads, defer \in BOOLEAN : CallNoop(u, defer)
  <2>1. UNCHANGED vars
    BY Zenon, SMT, <1>5 DEF CallNoop
  <2> QED
    BY Zenon, SMT, <2>1, StutterKeeps
<1> QED
  BY Zenon, SMT, <1>1, <1>2, <1>3, <1>4, <1>5 DEF Client

\* The queue and the API process around the handlers.
LEMMA BusKeeps ==
    ASSUME IndInv,
           \/ \E q \in QueryIds : SendQuery(q) \/ SendQueryFails(q)
           \/ \E u \in Uploads : UploadDone(u)
    PROVE  IndInv'
<1>1. \A q \in QueryIds : q \in 0..MaxRows
  BY SMTT(60), SMTT(45) DEF QueryIds
<1>2. CASE \E q \in QueryIds : SendQuery(q)
  BY Zenon, SMT, <1>1, <1>2, AddTaskKeeps DEF SendQuery, IndInv, TypeOK
<1>3. CASE \E q \in QueryIds : SendQueryFails(q)
  <2>1. PICK q \in QueryIds : SendQueryFails(q)
    BY Zenon, SMT, <1>3
  <2>2. CASE UNCHANGED <<tasks, ntasks>>
    BY Zenon, SMT, <2>1, <2>2, SendFailsKeeps DEF SendQueryFails
  <2>3. CASE addTask("query", NoUpload, q)
    <3>1. sendFailed' \subseteq QueryIds /\ sendFailed \subseteq sendFailed'
      BY Zenon, SMT, <2>1 DEF SendQueryFails, IndInv, TypeOK
    <3> QED
      BY Zenon, SMT, <1>1, <2>1, <2>3, <3>1, AddTaskKeeps DEF SendQueryFails
  <2> QED
    BY Zenon, SMT, <2>1, <2>2, <2>3 DEF SendQueryFails
<1>4. CASE \E u \in Uploads : UploadDone(u)
  <2>1. 0 \in 0..MaxRows
    BY AsynqueryAssumption
  <2> QED
    BY Zenon, SMT, <1>4, <2>1, AddTaskKeeps DEF UploadDone, IndInv, TypeOK
<1> QED
  BY Zenon, SMT, <1>2, <1>3, <1>4

\* The invariant is inductive.
LEMMA NextIndInv == IndInv /\ [Next]_vars => IndInv'
<1> SUFFICES ASSUME IndInv, [Next]_vars PROVE IndInv'
  OBVIOUS
<1>1. CASE Client
  BY Zenon, SMT, <1>1, ClientKeeps
<1>2. CASE \/ \E q \in QueryIds : SendQuery(q) \/ SendQueryFails(q)
           \/ \E u \in Uploads : UploadDone(u)
  BY Zenon, SMT, <1>2, BusKeeps
<1>3. CASE \E w \in Workers, t \in TaskIds : Start(w, t)
  BY Zenon, SMT, <1>3, StartKeeps
<1>4. CASE \E w \in Workers : HandlerStep(w) \/ Crash(w)
  BY Zenon, SMT, <1>4, HandlerStepKeeps
<1>5. CASE \E w \in Workers : Timeout(w)
  BY Zenon, SMT, <1>5, TimeoutKeeps
<1>6. CASE UNCHANGED vars
  BY Zenon, SMT, <1>6, StutterKeeps
<1> QED
  BY Zenon, SMT, <1>1, <1>2, <1>3, <1>4, <1>5, <1>6 DEF Next

\* Every reachable state satisfies the inductive invariant.
THEOREM Invariance == Spec => []IndInv
  BY InitIndInv, NextIndInv, PTL DEF Spec

\* Every value the manager, the queue and the SDK log hold has its type.
THEOREM TypeCorrect == Spec => []TypeOK
<1>1. IndInv => TypeOK
  BY Zenon, SMT DEF IndInv
<1> QED
  BY <1>1, Invariance, PTL

\* Only committed bodies, with the metadata of their own file, reach the SDK.
THEOREM CommittedOnly == Spec => []OnlyCommittedSent
<1>1. IndInv => OnlyCommittedSent
  BY Zenon, SMT DEF IndInv
<1> QED
  BY <1>1, Invariance, PTL

\* Repeated calls leave at most one open row per upload.
THEOREM NoDuplicates == Spec => []OneOpenRow
<1>1. IndInv => OneOpenRow
  BY Zenon, SMT DEF IndInv
<1> QED
  BY <1>1, Invariance, PTL

\* A row that can run is never silently forgotten.
THEOREM Ownership == Spec => []RunnableIsOwned
<1>1. IndInv => RunnableIsOwned
  BY Zenon, SMT DEF IndInv
<1> QED
  BY <1>1, Invariance, PTL

\* The commit and the forklift message cannot miss each other.
THEOREM Wakeup == Spec => []NoLostWakeup
<1>1. IndInv => NoLostWakeup
  <2> SUFFICES ASSUME IndInv, NEW q \in QueryIds, NEW t \in TaskIds,
                      rows[q].status = "received", IsFirst(q),
                      IsMergeTask(t, rows[q].upload), tasks[t].state = "done"
               PROVE  rows[q].fileReady /\ (rows[q].ready => Owned(q))
    BY Zenon, SMT DEF NoLostWakeup
  <2>1. rows[q].fileReady
    BY Zenon, SMT DEF IndInv, WakeInv
  <2>2. rows[q].ready => Owned(q)
    BY Zenon, SMT, <2>1 DEF IndInv, RunnableIsOwned, Runnable
  <2> QED
    BY Zenon, SMT, <2>1, <2>2
<1> QED
  BY <1>1, Invariance, PTL

-----------------------------------------------------------------------------
(* The action properties, and the refinement of PublishLedger.             *)

\* What a step can do to the rows and to the SDK log.
Insert ==
    \E u \in Uploads \cup {NoUpload}, b \in Bodies, ready \in BOOLEAN :
        createQueryRecord(u, b, ready)

\* What each action that writes the table does to the rows.
LEMMA RowEffects ==
    ASSUME IndInv, [Next]_vars
    PROVE  \/ UNCHANGED <<rows, calls>>
           \/ Insert /\ UNCHANGED calls
           \/ \E u \in Uploads, b \in Bodies : CallCommit(u, b)
           \/ \E w \in Workers : MergeDraft(w)
           \/ \E w \in Workers, out \in Outcome : CallSdk(w, out)
           \/ \E w \in Workers : FinalizeWrite(w)
<1>1. CASE Client
  <2>1. CASE \E b \in Bodies : CallPlain(b)
    BY Zenon, SMT, <2>1 DEF CallPlain, Insert
  <2>2. CASE \E u \in Uploads, b \in Bodies, defer \in BOOLEAN : CallNew(u, b, defer)
    BY Zenon, SMT, <2>2, Zenon DEF CallNew, Insert
  <2>3. CASE \E u \in Uploads, b \in Bodies : CallAfterFailed(u, b)
    BY Zenon, SMT, <2>3 DEF CallAfterFailed, Insert
  <2>4. CASE \E u \in Uploads, defer \in BOOLEAN : CallNoop(u, defer)
    BY Zenon, SMT, <2>4 DEF CallNoop, vars
  <2> QED
    BY Zenon, SMT, <1>1, <2>1, <2>2, <2>3, <2>4 DEF Client
<1>2. CASE \/ \E q \in QueryIds : SendQuery(q) \/ SendQueryFails(q)
           \/ \E u \in Uploads : UploadDone(u)
  BY Zenon, SMT, <1>2 DEF SendQuery, SendQueryFails, UploadDone
<1>3. CASE \E w \in Workers, t \in TaskIds : Start(w, t)
  BY Zenon, SMT, <1>3 DEF Start
<1>4. CASE \E w \in Workers : Crash(w) \/ Timeout(w)
  BY Zenon, SMT, <1>4 DEF Crash, Timeout
<1>5. CASE \E w \in Workers : HandlerStep(w)
  <2> PICK w \in Workers : HandlerStep(w)
    BY Zenon, SMT, <1>5
  <2>1. \/ UNCHANGED <<rows, calls>>
        \/ MergeDraft(w) \/ FinalizeWrite(w)
        \/ \E out \in Outcome : CallSdk(w, out)
    BY Zenon, SMT DEF HandlerStep, MergeError, MergeDrop, MergeFire, QueryError, QueryFire,
           CallNoUser, FinalizeRead, FinalizeFails
  <2> QED
    BY Zenon, SMT, <2>1
<1>6. CASE UNCHANGED vars
  BY Zenon, SMT, <1>6 DEF vars
<1> QED
  BY Zenon, SMT, <1>1, <1>2, <1>3, <1>4, <1>5, <1>6 DEF Next

\* A new row takes the place of an absent one.
LEMMA InsertRow ==
    ASSUME IndInv, NEW u \in Uploads \cup {NoUpload}, NEW b \in Bodies,
           NEW ready \in BOOLEAN, createQueryRecord(u, b, ready)
    PROVE  /\ nrows + 1 \in QueryIds
           /\ rows[nrows + 1] = AbsentRow
           /\ rows' = [rows EXCEPT ![nrows + 1] =
                         [upload |-> u, status |-> "received", ready |-> ready,
                          fileReady |-> FALSE, meta |-> NoUpload, body |-> b]]
<1>1. nrows + 1 \in QueryIds /\ nrows \in 0..MaxRows
  BY Zenon, SMT, FreshIds DEF createQueryRecord, IndInv, TypeOK
<1>2. rows[nrows + 1] = AbsentRow
  BY <1>1 DEF IndInv, RowInv
<1> QED
  BY Zenon, SMT, <1>1, <1>2 DEF createQueryRecord

\* No step changes anything but the status of a committed row.
LEMMA StepKeepsRows ==
    ASSUME IndInv, [Next]_vars
    PROVE  RowsKept
<1> SUFFICES ASSUME NEW q \in QueryIds, rows[q].ready
             PROVE  rows'[q] = [rows[q] EXCEPT !.status = rows'[q].status]
  BY Zenon, SMT DEF RowsKept
<1>1. rows[q] \in Row /\ rows[q] # AbsentRow
  BY DEF IndInv, TypeOK, AbsentRow
<1>2. rows'[q] = rows[q] => rows'[q] = [rows[q] EXCEPT !.status = rows'[q].status]
  BY Zenon, SMT, <1>1 DEF Row
<1>3. CASE UNCHANGED <<rows, calls>> \/ \E w \in Workers, out \in Outcome : CallSdk(w, out)
  BY Zenon, SMT, <1>2, <1>3 DEF CallSdk
<1>4. CASE Insert
  <2>1. rows'[q] = rows[q]
    BY Zenon, SMT, <1>1, <1>4, InsertRow DEF Insert, IndInv, TypeOK
  <2> QED
    BY Zenon, SMT, <1>2, <2>1
<1>5. CASE \E u \in Uploads, b \in Bodies : CallCommit(u, b)
  <2>1. rows'[q] = rows[q]
    BY Zenon, SMT, <1>5 DEF CallCommit, IndInv, TypeOK
  <2> QED
    BY Zenon, SMT, <1>2, <2>1
<1>6. CASE \E w \in Workers : MergeDraft(w)
  <2>1. rows'[q] = rows[q]
    BY Zenon, SMT, <1>6 DEF MergeDraft, IndInv, TypeOK
  <2> QED
    BY Zenon, SMT, <1>2, <2>1
<1>7. CASE \E w \in Workers : FinalizeWrite(w)
  <2>1. PICK w \in Workers : FinalizeWrite(w)
    BY Zenon, SMT, <1>7
  <2>2. PICK st \in {"failed", "succeeded"} :
            rows' = [rows EXCEPT ![handler[w].qid] =
                       [rows[handler[w].qid] EXCEPT !.status = st]]
    BY Zenon, SMT, <2>1, FinalizeWriteRow
  <2>3. CASE q = handler[w].qid
    <3>1. rows'[q] = [rows[q] EXCEPT !.status = st]
      BY Zenon, SMT, <2>2, <2>3 DEF IndInv, TypeOK
    <3> QED
      BY Zenon, SMT, <1>1, <3>1 DEF Row
  <2>4. CASE q # handler[w].qid
    BY Zenon, SMT, <1>2, <2>2, <2>4 DEF IndInv, TypeOK
  <2> QED
    BY Zenon, SMT, <2>3, <2>4
<1> QED
  BY Zenon, SMT, <1>3, <1>4, <1>5, <1>6, <1>7, RowEffects

\* A committed row changes nothing but its status.
THEOREM Frozen == Spec => CommittedFrozen
<1>1. IndInv /\ [Next]_vars =>
        [\A q \in QueryIds :
           rows[q].ready =>
             rows'[q] = [rows[q] EXCEPT !.status = rows'[q].status]]_vars
  BY Zenon, SMT, StepKeepsRows DEF RowsKept
<1> QED
  BY <1>1, Invariance, PTL DEF Spec, CommittedFrozen

-----------------------------------------------------------------------------
(* Refinement.                                                             *)

\* When one row changes, the mapping changes at that row only.
LEMMA BarUpdate ==
    ASSUME NEW q \in QueryIds, rows \in [QueryIds -> Row], NEW new \in Row,
           rows' = [rows EXCEPT ![q] = new]
    PROVE  /\ entryBar' = [entryBar EXCEPT ![q] = EntryOf(new)]
           /\ reportBar' = [reportBar EXCEPT ![q] = ReportOf(new)]
           /\ EntryOf(new) = EntryOf(rows[q]) => entryBar' = entryBar
           /\ ReportOf(new) = ReportOf(rows[q]) => reportBar' = reportBar
<1>1. \A p \in QueryIds : rows'[p] = IF p = q THEN new ELSE rows[p]
  OBVIOUS
<1> QED
  BY Zenon, SMT, <1>1 DEF entryBar, reportBar, EntryOf, ReportOf

\* A row becomes ready: the ledger commits it.
LEMMA CommitStep ==
    ASSUME NEW q \in QueryIds, NEW b \in Bodies, NEW u \in Uploads \cup {NoUpload},
           entryBar[q] = {},
           entryBar' = [entryBar EXCEPT ![q] = {[body |-> b, file |-> u]}],
           reportBar' = reportBar, calls' = calls
    PROVE  Ledger!Next
BY Zenon, SMT DEF Ledger!Next, Ledger!Commit

\* Every step of the manager is a step of PublishLedger or none.
LEMMA LedgerStep ==
    ASSUME IndInv, [Next]_vars
    PROVE  [Ledger!Next]_<<entryBar, calls, reportBar>>
<1> USE DEF EntryOf, ReportOf
<1>0. rows \in [QueryIds -> Row]
  BY Zenon, SMT DEF IndInv, TypeOK
<1>1. CASE UNCHANGED <<rows, calls>>
  BY Zenon, SMT, <1>1 DEF entryBar, reportBar
<1>2. CASE Insert /\ UNCHANGED calls
  <2>1. PICK u \in Uploads \cup {NoUpload}, b \in Bodies, ready \in BOOLEAN :
            createQueryRecord(u, b, ready)
    BY Zenon, SMT, <1>2 DEF Insert
  <2> DEFINE n == nrows + 1
             new == [upload |-> u, status |-> "received", ready |-> ready,
                     fileReady |-> FALSE, meta |-> NoUpload, body |-> b]
  <2>2. /\ n \in QueryIds /\ rows[n] = AbsentRow
        /\ rows' = [rows EXCEPT ![n] = new]
    BY ZenonT(30), SMTT(60), <2>1, InsertRow
  <2>3. new \in Row
    BY Zenon, SMT DEF Row
  <2>4. EntryOf(rows[n]) = {} /\ ReportOf(rows[n]) = "pending"
    BY <2>2 DEF AbsentRow
  <2>5. ReportOf(new) = "pending"
    OBVIOUS
  <2>6. EntryOf(new) = IF ready THEN {[body |-> b, file |-> u]} ELSE {}
    OBVIOUS
  <2> HIDE DEF n, new
  <2>7. CASE ready = TRUE
    <3>1. EntryOf(new) = {[body |-> b, file |-> u]}
      BY Zenon, SMT, <2>6, <2>7
    <3>2. /\ entryBar' = [entryBar EXCEPT ![n] = {[body |-> b, file |-> u]}]
          /\ reportBar' = reportBar /\ entryBar[n] = {}
      BY Zenon, SMT, <1>0, <2>2, <2>3, <2>4, <2>5, <3>1, BarUpdate DEF entryBar
    <3> QED
      BY Zenon, SMT, <1>2, <2>2, <3>2, CommitStep
  <2>8. CASE ready = FALSE
    <3>1. EntryOf(new) = {}
      BY Zenon, SMT, <2>6, <2>8
    <3> QED
      BY Zenon, SMT, <1>0, <1>2, <2>2, <2>3, <2>4, <2>5, <3>1, BarUpdate
  <2> QED
    BY Zenon, SMT, <2>7, <2>8
<1>3. CASE \E u \in Uploads, b \in Bodies : CallCommit(u, b)
  <2>1. PICK u \in Uploads, b \in Bodies, q \in QueryIds :
            /\ IsLatest(q, u) /\ rows[q].status = "received" /\ ~rows[q].ready
            /\ rows' = [rows EXCEPT ![q].body = b, ![q].ready = TRUE]
            /\ calls' = calls
    BY Zenon, SMT, <1>3 DEF CallCommit
  <2> DEFINE new == [rows[q] EXCEPT !.body = b, !.ready = TRUE]
  <2>2. rows' = [rows EXCEPT ![q] = new] /\ new \in Row
    BY Zenon, SMT, <1>0, <2>1 DEF Row
  <2>3. EntryOf(new) = {[body |-> b, file |-> rows[q].upload]}
    BY Zenon, SMT, <1>0 DEF Row
  <2>4. ReportOf(new) = ReportOf(rows[q]) /\ EntryOf(rows[q]) = {}
    BY Zenon, SMT, <1>0, <2>1 DEF Row
  <2>5. calls' = calls /\ rows[q].upload \in Uploads \cup {NoUpload}
    BY Zenon, SMT, <1>0, <2>1 DEF Row
  <2> HIDE DEF new
  <2>6. /\ entryBar' = [entryBar EXCEPT ![q] =
                          {[body |-> b, file |-> rows[q].upload]}]
        /\ reportBar' = reportBar /\ entryBar[q] = {}
    BY Zenon, SMT, <1>0, <2>2, <2>3, <2>4, BarUpdate DEF entryBar
  <2> QED
    BY Zenon, SMT, <2>5, <2>6, CommitStep
<1>4. CASE \E w \in Workers : MergeDraft(w)
  <2>1. PICK w \in Workers, q \in QueryIds :
            /\ rows' = [rows EXCEPT ![q].fileReady = TRUE,
                                    ![q].meta = handler[w].patch]
            /\ handler[w].patch \in Uploads
            /\ calls' = calls
    BY ZenonT(30), SMTT(60), <1>4 DEF MergeDraft, IndInv, HandlerInv, HandlerOK
  <2> DEFINE new == [rows[q] EXCEPT !.fileReady = TRUE, !.meta = handler[w].patch]
  <2>2. rows' = [rows EXCEPT ![q] = new] /\ new \in Row
    BY Zenon, SMT, <1>0, <2>1 DEF Row
  <2>3. ReportOf(new) = ReportOf(rows[q]) /\ EntryOf(new) = EntryOf(rows[q])
    BY Zenon, SMT, <1>0 DEF Row
  <2> HIDE DEF new
  <2> QED
    BY Zenon, SMT, <1>0, <2>1, <2>2, <2>3, BarUpdate
<1>5. CASE \E w \in Workers, out \in Outcome : CallSdk(w, out)
  <2>1. PICK w \in Workers, out \in Outcome : CallSdk(w, out)
    BY Zenon, SMT, <1>5
  <2> DEFINE q == handler[w].qid
  <2>2. /\ q \in QueryIds /\ rows[q].ready
        /\ handler[w].body = rows[q].body /\ handler[w].patch = rows[q].upload
    BY Zenon, SMT, <2>1 DEF CallSdk, IndInv, HandlerInv, HandlerOK
  <2> DEFINE e == [body |-> rows[q].body, file |-> rows[q].upload]
  <2>3. e \in entryBar[q]
    BY Zenon, SMT, <2>2 DEF entryBar
  <2>4. calls' = calls \cup {[qid |-> q, body |-> e.body, patch |-> e.file,
                             out |-> out]}
    BY Zenon, SMT, <2>1, <2>2 DEF CallSdk
  <2>5. entryBar' = entryBar /\ reportBar' = reportBar
    BY Zenon, SMT, <2>1 DEF CallSdk, entryBar, reportBar
  <2>6. out \in Ledger!Outcomes
    BY Zenon, SMT DEF Ledger!Outcomes, Outcome
  <2> HIDE DEF e
  <2>7. Ledger!Execute(q)
    BY Zenon, SMT, <2>3, <2>4, <2>5, <2>6 DEF Ledger!Execute
  <2> QED
    BY Zenon, SMT, <2>2, <2>7 DEF Ledger!Next
<1>6. CASE \E w \in Workers : FinalizeWrite(w)
  <2>1. PICK w \in Workers : FinalizeWrite(w)
    BY Zenon, SMT, <1>6
  <2> DEFINE q == handler[w].qid
             st == FinalStatus(handler[w].res)
             new == [rows[q] EXCEPT !.status = st]
  <2>2. /\ q \in QueryIds /\ rows' = [rows EXCEPT ![q] = new]
        /\ st \in {"failed", "succeeded"}
    BY Zenon, SMT, <2>1, FinalizeWriteRow
  <2>3. new \in Row /\ EntryOf(new) = EntryOf(rows[q]) /\ ReportOf(new) = st
    BY <1>0, <2>2 DEF Row
  <2>4. PICK c \in calls : c.qid = q /\ c.out = handler[w].res
    BY Zenon, SMT, <2>1 DEF FinalizeWrite, IndInv, HandlerInv, HandlerOK
  <2>5. st = IF c.out = "ok" THEN "succeeded" ELSE "failed"
    BY Zenon, SMT, <2>4 DEF FinalStatus
  <2>6. calls' = calls
    BY Zenon, SMT, <2>1 DEF FinalizeWrite
  <2> HIDE DEF new, st, q
  <2>7. entryBar' = entryBar /\ reportBar' = [reportBar EXCEPT ![q] = st]
    BY Zenon, SMT, <1>0, <2>2, <2>3, BarUpdate
  <2>8. Ledger!Report(q)
    BY Zenon, SMT, <2>4, <2>5, <2>6, <2>7 DEF Ledger!Report
  <2> QED
    BY Zenon, SMT, <2>2, <2>8 DEF Ledger!Next
<1> QED
  BY Zenon, SMT, <1>1, <1>2, <1>3, <1>4, <1>5, <1>6, RowEffects

\* The manager implements the ledger it promises to its clients.
THEOREM Refinement == Spec => LedgerRefined
<1>1. Init => Ledger!Init
  BY DEF Init, Ledger!Init, entryBar, reportBar, EntryOf, ReportOf, AbsentRow
<1>2. IndInv /\ [Next]_vars => [Ledger!Next]_<<entryBar, calls, reportBar>>
  BY Zenon, SMT, LedgerStep
<1> QED
  BY <1>1, <1>2, Invariance, PTL DEF Spec, LedgerRefined, Ledger!Spec

-----------------------------------------------------------------------------
(* Settled rows.                                                           *)

\* No handler and no open query task is about row q.
Untouched(q) ==
    /\ \A w \in Workers : handler[w].qid # q
    /\ \A t \in TaskIds :
          IsQueryTask(t, q) => tasks[t].state \in {"done", "archived"}

\* What a settled row says about handlers, requests and tasks.
LEMMA SettledFacts ==
    ASSUME IndInv, NEW q \in QueryIds, Settled(q)
    PROVE  /\ rows[q].status = "succeeded" /\ rows[q].ready /\ Exists(q)
           /\ q <= nrows /\ q \notin sending /\ Untouched(q)
<1>1. rows[q].status = "succeeded" /\ Exists(q)
  BY Zenon, SMT DEF Settled, Exists
<1>2. rows[q].ready /\ q <= nrows
  BY Zenon, SMT, <1>1 DEF IndInv, RowInv
<1>3. \A w \in Workers : handler[w].qid # q
  <2> SUFFICES ASSUME NEW w \in Workers, handler[w].qid = q PROVE FALSE
    OBVIOUS
  <2>1. handler[w].pc = "idle"
    BY Zenon, SMT DEF Settled
  <2>2. handler[w] = Idle
    BY Zenon, SMT, <2>1 DEF IndInv, HandlerInv, HandlerOK
  <2> QED
    BY <2>2 DEF Idle, QueryIds
<1> QED
  BY Zenon, SMT, <1>1, <1>2, <1>3 DEF Settled, Untouched

\* A handler that returns or is given up on was not about q.
LEMMA ReleaseUntouched ==
    ASSUME IndInv, NEW q \in QueryIds, Untouched(q), NEW w \in Workers,
           handler[w].pc # "idle", NEW verdict, TasksAfter(w, verdict),
           NEW h \in Handler, h.qid # q, handler' = [handler EXCEPT ![w] = h]
    PROVE  Untouched(q)'
<1>1. \A x \in Workers : handler'[x].qid # q
  BY Zenon, SMT DEF Untouched, IndInv, TypeOK
<1>2. ASSUME NEW t \in TaskIds, IsQueryTask(t, q)'
      PROVE  tasks'[t].state \in {"done", "archived"}
  <2>1. IsQueryTask(t, q)
    BY Zenon, SMT, <1>2 DEF IsQueryTask, TasksAfter
  <2>2. t # handler[w].task
    <3>1. HandlerOK(w) /\ handler[w] \in Handler /\ handler[w].qid # q
      BY Zenon, SMT DEF IndInv, HandlerInv, TypeOK, Untouched
    <3> QED
      BY <2>1, <3>1 DEF HandlerOK, IsQueryTask, IsMergeTask, Handler, TaskIds
  <2> QED
    BY Zenon, SMT, <2>1, <2>2 DEF TasksAfter, Untouched
<1> QED
  BY Zenon, SMT, <1>1, <1>2 DEF Untouched

\* A handler that returns leaves the settled rows of others alone.
LEMMA ReturnUntouched ==
    ASSUME IndInv, NEW q \in QueryIds, Untouched(q), NEW w \in Workers,
           handler[w].pc # "idle",
           NEW verdict \in {"nil", "error", "skip"}, Return(w, verdict)
    PROVE  Untouched(q)'
<1>1. TasksAfter(w, verdict) /\ handler' = [handler EXCEPT ![w] = Idle]
  BY Zenon, SMT, ReturnFacts DEF IndInv
<1>2. Idle \in Handler /\ Idle.qid # q
  BY AsynqueryAssumption
  DEF Idle, Handler, AbsentRow, Row, MaxTasks, QueryIds
<1> QED
  BY Zenon, SMT, <1>1, <1>2, ReleaseUntouched

\* Nothing but the queueing of q, and a handler firing it, touches q.
LEMMA UntouchedStep ==
    ASSUME IndInv, [Next]_vars, NEW q \in QueryIds, Settled(q)
    PROVE  Untouched(q)'
<1>0. /\ rows[q].status = "succeeded" /\ q \notin sending /\ Untouched(q)
      /\ q # 0
  BY SettledFacts DEF QueryIds
<1>1. CASE UNCHANGED <<tasks, handler>>
  BY Zenon, SMT, <1>0, <1>1 DEF Untouched, IsQueryTask
<1>2. ASSUME NEW kind \in {"merge", "query"}, NEW u, NEW p \in 0..MaxRows, p # q,
             addTask(kind, u, p), UNCHANGED handler
      PROVE  Untouched(q)'
  <2>1. ntasks + 1 \in TaskIds
    BY Zenon, SMT, <1>2, FreshIds DEF addTask, IndInv
  <2>2. /\ tasks'[ntasks + 1].qid = p
        /\ \A t \in TaskIds : t # ntasks + 1 => tasks'[t] = tasks[t]
    BY Zenon, SMT, <1>2, <2>1 DEF addTask, IndInv, TypeOK
  <2> QED
    BY Zenon, SMT, <1>0, <1>2, <2>2 DEF Untouched, IsQueryTask
<1>3. CASE Client
  BY Zenon, SMT, <1>1, <1>3 DEF Client, CallPlain, CallNew, CallCommit, CallAfterFailed,
                    CallNoop, vars
<1>4. CASE \E p \in QueryIds : SendQuery(p) \/ SendQueryFails(p)
  <2>1. PICK p \in QueryIds : SendQuery(p) \/ SendQueryFails(p)
    BY Zenon, SMT, <1>4
  <2>2. p # q /\ p \in 0..MaxRows
    BY <1>0, <2>1 DEF SendQuery, SendQueryFails, QueryIds
  <2> QED
    BY Zenon, SMT, <1>1, <1>2, <2>1, <2>2 DEF SendQuery, SendQueryFails
<1>5. CASE \E u \in Uploads : UploadDone(u)
  BY <1>0, <1>2, <1>5, AsynqueryAssumption DEF UploadDone
<1>6. CASE \E w \in Workers, t \in TaskIds : Start(w, t)
  <2>1. PICK w \in Workers, t \in TaskIds : Start(w, t)
    BY Zenon, SMT, <1>6
  <2>2. /\ tasks[t].state = "pending"
        /\ tasks' = [tasks EXCEPT ![t].state = "active"]
        /\ handler'[w].qid = tasks[t].qid
        /\ \A x \in Workers : x # w => handler'[x] = handler[x]
    BY Zenon, SMT, <2>1 DEF Start, IndInv, TypeOK
  <2>3. tasks[t].kind = "merge" \/ tasks[t].kind = "query"
    BY Zenon, SMT, <2>2 DEF IndInv, TaskInv, TypeOK, Task
  <2>4. tasks[t].qid # q
    BY Zenon, SMT, <1>0, <2>2, <2>3 DEF Untouched, IsQueryTask, IndInv, TaskInv
  <2>5. \A s \in TaskIds : /\ tasks'[s].kind = tasks[s].kind
                           /\ tasks'[s].qid = tasks[s].qid
                           /\ s # t => tasks'[s] = tasks[s]
    BY Zenon, SMT, <2>2 DEF IndInv, TypeOK, Task
  <2> QED
    BY ZenonT(30), SMTT(60), <1>0, <2>2, <2>4, <2>5 DEF Untouched, IsQueryTask
<1>7. CASE \E w \in Workers : Timeout(w)
  <2>1. PICK w \in Workers : Timeout(w)
    BY Zenon, SMT, <1>7
  <2> DEFINE t == handler[w].task
             h == [handler[w] EXCEPT !.task = 0]
  <2>2. handler[w] \in Handler /\ t \in TaskIds /\ tasks[t] \in Task
    BY <2>1, FreshIds DEF Timeout, IndInv, TypeOK, Handler, TaskIds
  <2>3. tasks' = [tasks EXCEPT ![t] = Settle(tasks[t], "error")]
    BY Zenon, SMT, <2>1 DEF Timeout, Settle
  <2>4. TasksAfter(w, "error")
    BY <2>2, <2>3, SettleFacts DEF IndInv, TypeOK, TasksAfter
  <2>5. h \in Handler /\ h.qid = handler[w].qid
    BY <2>2, FreshIds DEF Handler, IndInv
  <2>6. handler' = [handler EXCEPT ![w] = h] /\ handler[w].pc # "idle"
    BY Zenon, SMT, <2>1 DEF Timeout
  <2>7. handler[w].qid # q
    BY Zenon, SMT, <1>0 DEF Untouched
  <2> HIDE DEF h
  <2> QED
    BY Zenon, SMT, <1>0, <2>4, <2>5, <2>6, <2>7, ReleaseUntouched
<1>8. CASE \E w \in Workers : HandlerStep(w) \/ Crash(w)
  <2>1. PICK w \in Workers : HandlerStep(w) \/ Crash(w)
    BY Zenon, SMT, <1>8
  <2>2. CASE \E verdict \in {"nil", "error", "skip"} : Return(w, verdict)
    <3>1. handler[w].pc # "idle"
      BY Zenon, SMT, <2>1 DEF HandlerStep, Crash, MergeError, MergeDraft, MergeDrop, MergeFire,
         QueryError, QueryFire, CallNoUser, CallSdk, FinalizeRead, FinalizeWrite,
         FinalizeFails
    <3> QED
      BY Zenon, SMT, <1>0, <2>2, <3>1, ReturnUntouched
  <2>3. ASSUME UNCHANGED tasks, NEW h, h.qid # q, handler' = [handler EXCEPT ![w] = h]
        PROVE  Untouched(q)'
    BY Zenon, SMT, <1>0, <2>3 DEF Untouched, IsQueryTask, IndInv, TypeOK
  <2>4. handler[w] \in Handler /\ handler[w].qid # q
    BY Zenon, SMT, <1>0 DEF Untouched, IndInv, TypeOK
  <2>5. CASE MergeFire(w)
    <3>1. PICK p \in QueryIds :
              /\ rows[p].status # "succeeded"
              /\ Fire(w, p, handler[w].patch)
      BY Zenon, SMT, <2>5 DEF MergeFire
    <3> DEFINE h == [handler[w] EXCEPT !.pc = "call", !.qid = p,
                       !.body = rows[p].body, !.patch = handler[w].patch]
    <3>2. h.qid = p /\ p # q
      BY Zenon, SMT, <1>0, <2>4, <3>1 DEF Handler
    <3>3. handler' = [handler EXCEPT ![w] = h] /\ UNCHANGED tasks
      BY Zenon, SMT, <2>5, <3>1 DEF Fire, MergeFire
    <3> HIDE DEF h
    <3> QED
      BY Zenon, SMT, <2>3, <3>2, <3>3
  <2>6. CASE QueryFire(w)
    <3> DEFINE p == handler[w].qid
               h == [handler[w] EXCEPT !.pc = "call", !.qid = p,
                       !.body = rows[p].body, !.patch = rows[p].meta]
    <3>1. h.qid = p
      BY Zenon, SMT, <2>4 DEF Handler
    <3>2. handler' = [handler EXCEPT ![w] = h] /\ UNCHANGED tasks
      BY Zenon, SMT, <2>6 DEF Fire, QueryFire
    <3> HIDE DEF h
    <3> QED
      BY Zenon, SMT, <2>3, <2>4, <3>1, <3>2
  <2>7. CASE \E out \in Outcome : CallSdk(w, out)
    <3>1. PICK out \in Outcome : CallSdk(w, out)
      BY Zenon, SMT, <2>7
    <3> DEFINE h == [handler[w] EXCEPT !.pc = "fread", !.res = out]
    <3>2. h.qid = handler[w].qid
      BY Zenon, SMT, <2>4 DEF Handler
    <3>3. handler' = [handler EXCEPT ![w] = h] /\ UNCHANGED tasks
      BY Zenon, SMT, <3>1 DEF CallSdk, IndInv, TypeOK
    <3> HIDE DEF h
    <3> QED
      BY Zenon, SMT, <2>3, <2>4, <3>2, <3>3
  <2>8. CASE FinalizeRead(w)
    <3> DEFINE h == [handler[w] EXCEPT !.pc = "fwrite",
                                       !.snap = rows[handler[w].qid]]
    <3>1. h.qid = handler[w].qid
      BY Zenon, SMT, <2>4 DEF Handler
    <3>2. handler' = [handler EXCEPT ![w] = h] /\ UNCHANGED tasks
      BY Zenon, SMT, <2>8 DEF FinalizeRead, IndInv, TypeOK
    <3> HIDE DEF h
    <3> QED
      BY Zenon, SMT, <2>3, <2>4, <3>1, <3>2
  <2>9. CASE FinalizeWrite(w)
    <3>1. handler[w].res \in Outcome
      BY Zenon, SMT, <2>9 DEF FinalizeWrite, IndInv, TypeOK, HandlerInv, HandlerOK, SdkCall
    <3>2. Verdict(handler[w].res) \in {"nil", "error", "skip"}
      BY Zenon, SMT, <3>1 DEF Verdict, Outcome
    <3> QED
      BY Zenon, SMT, <2>2, <2>9, <3>2 DEF FinalizeWrite
  <2>10. CASE \/ MergeError(w) \/ MergeDraft(w) \/ MergeDrop(w) \/ QueryError(w)
              \/ CallNoUser(w) \/ FinalizeFails(w) \/ Crash(w)
    BY Zenon, SMT, <2>2, <2>10 DEF MergeError, MergeDraft, MergeDrop, QueryError, CallNoUser,
                       FinalizeFails, Crash
  <2> QED
    BY Zenon, SMT, <2>1, <2>5, <2>6, <2>7, <2>8, <2>9, <2>10 DEF HandlerStep
<1>9. CASE UNCHANGED vars
  BY Zenon, SMT, <1>1, <1>9 DEF vars
<1> QED
  BY Zenon, SMT, <1>3, <1>4, <1>5, <1>6, <1>7, <1>8, <1>9 DEF Next

\* A settled row stays settled.
LEMMA SettledStep ==
    ASSUME IndInv, [Next]_vars, NEW q \in QueryIds, Settled(q)
    PROVE  Settled(q)'
<1>1. /\ rows[q].status = "succeeded" /\ rows[q].ready /\ q <= nrows
      /\ q \notin sending /\ Untouched(q)
  BY Zenon, SMT, SettledFacts
<1>2. Untouched(q)'
  BY Zenon, SMT, UntouchedStep
<1>3. nrows + 1 # q
  BY <1>1 DEF IndInv, TypeOK, QueryIds
<1>4. rows'[q].status = "succeeded"
  <2>1. CASE UNCHANGED <<rows, calls>> \/ \E w \in Workers, out \in Outcome : CallSdk(w, out)
    BY Zenon, SMT, <1>1, <2>1 DEF CallSdk
  <2>2. CASE Insert
    BY Zenon, SMT, <1>1, <1>3, <2>2, InsertRow DEF Insert, IndInv, TypeOK
  <2>3. CASE \E u \in Uploads, b \in Bodies : CallCommit(u, b)
    BY Zenon, SMT, <1>1, <2>3 DEF CallCommit, IndInv, TypeOK
  <2>4. CASE \E w \in Workers : MergeDraft(w)
    BY Zenon, SMT, <1>1, <2>4 DEF MergeDraft, IndInv, TypeOK
  <2>5. CASE \E w \in Workers : FinalizeWrite(w)
    <3>1. PICK w \in Workers : FinalizeWrite(w)
      BY Zenon, SMT, <2>5
    <3>2. handler[w].qid # q
      BY Zenon, SMT, <1>1 DEF Untouched
    <3> QED
      BY Zenon, SMT, <1>1, <3>1, <3>2 DEF FinalizeWrite, IndInv, TypeOK
  <2> QED
    BY Zenon, SMT, <2>1, <2>2, <2>3, <2>4, <2>5, RowEffects
<1>5. q \notin sending'
  <2>1. CASE UNCHANGED sending
    BY Zenon, SMT, <1>1, <2>1
  <2>2. CASE Client
    BY Zenon, SMT, <1>1, <1>3, <2>1, <2>2
    DEF Client, CallPlain, CallNew, CallCommit, CallAfterFailed, CallNoop, vars
  <2>3. CASE \E p \in QueryIds : SendQuery(p) \/ SendQueryFails(p)
    BY Zenon, SMT, <1>1, <2>3 DEF SendQuery, SendQueryFails
  <2>4. CASE \/ \E u \in Uploads : UploadDone(u)
             \/ \E w \in Workers, t \in TaskIds : Start(w, t)
    BY Zenon, SMT, <2>1, <2>4 DEF UploadDone, Start
  <2>5. CASE \E w \in Workers : HandlerStep(w) \/ Crash(w) \/ Timeout(w)
    BY Zenon, SMT, <2>1, <2>5
    DEF HandlerStep, Crash, Timeout, MergeError, MergeDraft, MergeDrop,
        MergeFire, QueryError, QueryFire, CallNoUser, CallSdk, FinalizeRead,
        FinalizeWrite, FinalizeFails
  <2>6. CASE UNCHANGED vars
    BY Zenon, SMT, <2>1, <2>6 DEF vars
  <2> QED
    BY Zenon, SMT, <2>2, <2>3, <2>4, <2>5, <2>6 DEF Next
<1> QED
  BY Zenon, SMT, <1>2, <1>4, <1>5 DEF Settled, Untouched

\* Duplicate messages and repeated commits never run a settled row again.
THEOREM Idempotence == Spec => SettledStaysSettled
<1>1. IndInv /\ [Next]_vars =>
        [\A q \in QueryIds : Settled(q) => Settled(q)']_vars
  BY Zenon, SMT, SettledStep
<1> QED
  BY <1>1, Invariance, PTL DEF Spec, SettledStaysSettled

-----------------------------------------------------------------------------
(* The query manager and forklift.                                         *)

FP == INSTANCE ForkliftProofs WITH
    Files <- Uploads, Urls <- {}, NoFile <- NoUpload, Workers <- Forks, task <- forkTask

\* The file of a request is stored, if it has one.
Backed(u) == u = NoUpload \/ Reflected(u)

\* What the manager holds about files.
Traced ==
    /\ \A s \in reflected : stream[s] \in Uploads
    /\ \A q \in QueryIds : rows[q].fileReady => Reflected(rows[q].upload)
    /\ \A t \in MergeTasks : Reflected(tasks[t].upload)
    /\ \A w \in Workers : handler[w].pc \in {"merge", "call"} => Backed(handler[w].patch)
    /\ \A c \in calls : Backed(c.patch)

FlowInv == IndInv /\ FP!ForkliftInv /\ Traced

-----------------------------------------------------------------------------
(* Forklift's side.                                                        *)

\* The two instances of Forklift are one.
LEMMA SameForklift ==
    /\ Fork!ForkliftInit => FP!ForkliftInit
    /\ \A u \in Uploads : Fork!Receive(u) => FP!Receive(u)
    /\ \A w \in Forks, u \in Uploads : Fork!StartUpload(w, u) => FP!StartUpload(w, u)
    /\ \A w \in Forks : /\ Fork!Process(w) => FP!Process(w)
                        /\ Fork!Announce(w) => FP!Announce(w)
                        /\ Fork!ForkCrash(w) => FP!ForkCrash(w)
<1>1. Fork!ForkliftInit => FP!ForkliftInit
  BY Zenon DEF Fork!ForkliftInit, FP!ForkliftInit, Fork!Incoming, FP!Incoming, Fork!ForkIdle, FP!ForkIdle
<1>2. \A u \in Uploads : Fork!Receive(u) => FP!Receive(u)
  BY Zenon DEF Fork!Receive, FP!Receive
<1>3. \A w \in Forks, u \in Uploads : Fork!StartUpload(w, u) => FP!StartUpload(w, u)
  BY Zenon DEF Fork!StartUpload, FP!StartUpload, Fork!ForkIdle, FP!ForkIdle
<1>4. \A w \in Forks : Fork!Process(w) => FP!Process(w)
  BY Zenon DEF Fork!Process, FP!Process, Fork!Retrieve, FP!Retrieve, Fork!Analyze, FP!Analyze,
     Fork!Split, FP!Split, Fork!Reflect, FP!Reflect, Fork!Fails, FP!Fails,
     Fork!MarkUploadProcessed, FP!MarkUploadProcessed, Fork!SendResponseLost, FP!SendResponseLost,
     Fork!DeleteObject, FP!DeleteObject, Fork!Goto, FP!Goto, Fork!AfterSend, FP!AfterSend,
     Fork!Finish, FP!Finish, Fork!Redelivered, FP!Redelivered, Fork!ForkIdle, FP!ForkIdle
<1>5. \A w \in Forks : Fork!Announce(w) => FP!Announce(w)
  BY Zenon DEF Fork!Announce, FP!Announce, Fork!SendResponse, FP!SendResponse,
     Fork!SendResponseUnsure, FP!SendResponseUnsure, Fork!Announcement, FP!Announcement,
     Fork!AfterSend, FP!AfterSend, Fork!Finish, FP!Finish, Fork!Redelivered, FP!Redelivered,
     Fork!ForkIdle, FP!ForkIdle
<1>6. \A w \in Forks : Fork!ForkCrash(w) => FP!ForkCrash(w)
  BY Zenon DEF Fork!ForkCrash, FP!ForkCrash, Fork!Finish, FP!Finish,
     Fork!Redelivered, FP!Redelivered, Fork!ForkIdle, FP!ForkIdle
<1> QED
  BY Zenon, <1>1, <1>2, <1>3, <1>4, <1>5, <1>6

\* The constants of the flow are as forklift wants them.
LEMMA ForkConstants ==
    /\ Uploads \cap {} = {}
    /\ NoUpload \notin Uploads \cup {}
    /\ NoStream \notin Streams
    /\ UploadRetry \in Nat
BY AsynqueryAssumption, FlowAssumption

\* Forklift keeps its invariant in the flow.
LEMMA FlowForkliftInv ==
    /\ Fork!ForkliftInit => FP!ForkliftInv
    /\ FP!ForkliftInv /\ [FP!ForkliftNext]_forkVars => FP!ForkliftInv'
<1>1. FP!ForkliftInit => FP!ForkliftInv
  BY ForkConstants, FP!ForkliftInitInv
<1>2. FP!ForkliftInv /\ [FP!ForkliftNext]_forkVars => FP!ForkliftInv'
  BY ForkConstants, FP!ForkliftStep DEF forkVars, FP!forkliftVars
<1> QED
  BY Zenon, <1>1, <1>2, SameForklift

\* Every step of the flow is one of forklift or leaves it alone, and likewise
\* for the manager.
LEMMA FlowSteps ==
    ASSUME FP!ForkliftInv, [FlowNext]_flowVars
    PROVE  [Next]_vars /\ [FP!ForkliftNext]_forkVars
<1>1. \A w \in Forks : fork[w].pc = "send" => fork[w].upload \in Uploads
  BY Zenon, SMT DEF FP!ForkliftInv, FP!Handling, FP!Busy, FP!Incoming
<1>2. CASE ForkStep
  BY Zenon, <1>2, SameForklift DEF ForkStep, FP!ForkliftNext, FP!Incoming, vars
<1>3. CASE ManagerStep
  BY Zenon, <1>3 DEF ManagerStep, Next, forkVars
<1>4. ASSUME NEW w \in Forks, Announce(w)
      PROVE  [Next]_vars /\ [FP!ForkliftNext]_forkVars
  <2>1. fork[w].upload \in Uploads
    BY Zenon, <1>1, <1>4 DEF Announce, Fork!Announce, Fork!SendResponse, Fork!SendResponseUnsure
  <2> QED
    BY Zenon, <1>4, <2>1, SameForklift DEF Announce, Next, FP!ForkliftNext
<1> QED
  BY Zenon, <1>2, <1>3, <1>4 DEF FlowNext, flowVars, vars, forkVars

\* What has been stored stays stored: a stream is made once and never taken
\* over by another file, so no trace of a file becomes wrong.
LEMMA ReflectedStays ==
    ASSUME FP!ForkliftInv, \A s \in reflected : stream[s] \in Uploads,
           [FP!ForkliftNext]_forkVars
    PROVE  /\ \A s \in reflected' : stream'[s] \in Uploads
           /\ \A u : Reflected(u) => Reflected(u)'
<1>1. /\ stream \in [Streams -> Uploads \cup {} \cup {NoUpload}]
      /\ reflected \subseteq Streams
  BY Zenon DEF FP!ForkliftInv, FP!ForkliftTypeOK, FP!Incoming
<1>2. NoUpload \notin Uploads
  BY AsynqueryAssumption
<1>3. ASSUME UNCHANGED <<stream, reflected>>
      PROVE  /\ \A s \in reflected' : stream'[s] \in Uploads
             /\ \A u : Reflected(u) => Reflected(u)'
  BY Zenon, <1>3 DEF Reflected
<1>4. ASSUME NEW w \in Forks, FP!Split(w)
      PROVE  /\ \A s \in reflected' : stream'[s] \in Uploads
             /\ \A u : Reflected(u) => Reflected(u)'
  <2>1. reflected' = reflected
    BY Zenon, <1>4 DEF FP!Split
  <2>2. PICK x \in Streams : /\ stream[x] = NoUpload
                             /\ stream' = [stream EXCEPT ![x] = fork[w].upload]
    BY Zenon, <1>4 DEF FP!Split
  <2>3. \A s \in reflected : stream'[s] = stream[s]
    BY Zenon, SMT, <1>1, <1>2, <2>2
  <2> QED
    BY Zenon, <2>1, <2>3 DEF Reflected
<1>5. ASSUME NEW w \in Forks, FP!Reflect(w)
      PROVE  /\ \A s \in reflected' : stream'[s] \in Uploads
             /\ \A u : Reflected(u) => Reflected(u)'
  <2>1. fork[w].pc = "upload" /\ stream' = stream /\ reflected' = reflected \cup {fork[w].sd}
    BY Zenon, <1>5 DEF FP!Reflect
  <2>2. stream[fork[w].sd] \in Uploads
    BY Zenon, SMT, <2>1 DEF FP!ForkliftInv, FP!Handling, FP!Busy, FP!Incoming
  <2> QED
    BY Zenon, <2>1, <2>2 DEF Reflected
<1>6. ASSUME NEW w \in Forks, FP!Process(w)
      PROVE  \/ UNCHANGED <<stream, reflected>>
             \/ FP!Split(w)
             \/ FP!Reflect(w)
  BY Zenon, <1>6 DEF FP!Process, FP!Retrieve, FP!Analyze, FP!Fails, FP!MarkUploadProcessed,
     FP!SendResponseLost, FP!DeleteObject
<1>7. \/ UNCHANGED <<stream, reflected>>
      \/ \E w \in Forks : FP!Split(w) \/ FP!Reflect(w)
  BY Zenon, <1>6 DEF FP!ForkliftNext, forkVars, FP!Receive, FP!StartUpload, FP!ForkCrash,
     FP!Announce, FP!SendResponse, FP!SendResponseUnsure
<1> QED
  BY Zenon, <1>3, <1>4, <1>5, <1>7

\* What forklift announces is stored.
LEMMA AnnounceReflected ==
    ASSUME FP!ForkliftInv, NEW w \in Forks, Announce(w)
    PROVE  \E s \in reflected' : stream'[s] = fork[w].upload
<1>1. fork[w].pc = "send" /\ UNCHANGED <<stream, reflected>>
  BY Zenon DEF Announce, Fork!Announce, Fork!SendResponse, Fork!SendResponseUnsure
<1>2. fork[w].sd \in reflected /\ stream[fork[w].sd] = fork[w].upload
  BY Zenon, SMT, <1>1 DEF FP!ForkliftInv, FP!Handling
<1> QED
  BY Zenon, <1>1, <1>2

-----------------------------------------------------------------------------
(* The manager's side.                                                     *)

\* A row learns of its file from a handler of a message, and from nobody else.
LEMMA RowsTraced ==
    ASSUME IndInv, [Next]_vars, NEW q \in QueryIds, rows'[q].fileReady
    PROVE  \/ rows[q].fileReady /\ rows'[q].upload = rows[q].upload
           \/ \E w \in Workers : /\ handler[w].pc = "merge"
                                 /\ handler[w].patch \in Uploads
                                 /\ rows'[q].upload = handler[w].patch
<1>1. rows \in [QueryIds -> Row] /\ rows[q] \in Row
  BY Zenon DEF IndInv, TypeOK
<1>2. CASE UNCHANGED rows
  BY Zenon, <1>2
<1>3. CASE Insert
  <2>1. PICK u \in Uploads \cup {NoUpload}, b \in Bodies, ready \in BOOLEAN :
            createQueryRecord(u, b, ready)
    BY Zenon, <1>3 DEF Insert
  <2>2. rows' = [rows EXCEPT ![nrows + 1] =
                   [upload |-> u, status |-> "received", ready |-> ready,
                    fileReady |-> FALSE, meta |-> NoUpload, body |-> b]]
    BY Zenon, <2>1 DEF createQueryRecord
  <2>3. q # nrows + 1
    BY <1>1, <2>2
  <2>4. rows'[q] = rows[q]
    BY Zenon, SMT, <1>1, <2>2, <2>3
  <2> QED
    BY Zenon, <2>4
<1>4. CASE \E u \in Uploads, b \in Bodies : CallCommit(u, b)
  <2>1. PICK b \in Bodies, p \in QueryIds :
            rows' = [rows EXCEPT ![p].body = b, ![p].ready = TRUE]
    BY Zenon, <1>4 DEF CallCommit
  <2>2. rows'[q].fileReady = rows[q].fileReady /\ rows'[q].upload = rows[q].upload
    BY <1>1, <2>1 DEF Row
  <2> QED
    BY Zenon, <2>2
<1>5. CASE \E w \in Workers : MergeDraft(w)
  <2>1. PICK w \in Workers : MergeDraft(w)
    BY Zenon, <1>5
  <2>2. PICK p \in QueryIds :
            /\ IsLatest(p, handler[w].patch)
            /\ rows' = [rows EXCEPT ![p].fileReady = TRUE, ![p].meta = handler[w].patch]
    BY Zenon, <2>1 DEF MergeDraft
  <2>3. handler[w].pc = "merge" /\ handler[w].patch \in Uploads
    BY Zenon, SMT, <2>1 DEF MergeDraft, IndInv, HandlerInv, HandlerOK
  <2>4. rows[p].upload = handler[w].patch
    BY Zenon, <2>2 DEF IsLatest, RowsOf
  <2>5. CASE q = p
    <3>1. rows'[q].upload = rows[q].upload
      BY <1>1, <2>2, <2>5 DEF Row
    <3> QED
      BY Zenon, <2>3, <2>4, <2>5, <3>1
  <2>6. CASE q # p
    BY <1>1, <2>2, <2>6
  <2> QED
    BY Zenon, <2>5, <2>6
<1>6. CASE \E w \in Workers : FinalizeWrite(w)
  <2>1. PICK w \in Workers : FinalizeWrite(w)
    BY Zenon, <1>6
  <2>2. rows' = [rows EXCEPT ![handler[w].qid] =
                   [rows[handler[w].qid] EXCEPT !.status = FinalStatus(handler[w].res)]]
    BY Zenon, <2>1, FinalizeWriteRow
  <2>3. rows'[q].fileReady = rows[q].fileReady /\ rows'[q].upload = rows[q].upload
    BY <1>1, <2>2 DEF Row
  <2> QED
    BY Zenon, <2>3
<1> QED
  BY Zenon, <1>2, <1>3, <1>4, <1>5, <1>6, RowEffects DEF CallSdk

\* A message of forklift in the queue.
LEMMA MessageSent ==
    ASSUME IndInv, NEW u \in Uploads, UploadDone(u), NEW t \in TaskIds, tasks'[t].kind = "merge"
    PROVE  \/ tasks[t].kind = "merge" /\ tasks'[t].upload = tasks[t].upload
           \/ tasks'[t].upload = u
<1>1. tasks \in [TaskIds -> Task]
  BY Zenon DEF IndInv, TypeOK
<1>2. tasks' = [tasks EXCEPT ![ntasks + 1] =
                  [kind |-> "merge", upload |-> u, qid |-> 0, retried |-> 0,
                   state |-> "pending"]]
  BY Zenon DEF UploadDone, addTask
<1>3. CASE t = ntasks + 1
  BY <1>1, <1>2, <1>3
<1>4. CASE t # ntasks + 1
  <2>1. tasks'[t] = tasks[t]
    BY Zenon, SMT, <1>1, <1>2, <1>4
  <2> QED
    BY Zenon, <2>1
<1> QED
  BY Zenon, <1>3, <1>4

\* The manager makes no such message and changes none.
LEMMA MessagesTraced ==
    ASSUME IndInv, ManagerStep, NEW t \in TaskIds, tasks'[t].kind = "merge"
    PROVE  tasks[t].kind = "merge" /\ tasks'[t].upload = tasks[t].upload
<1> DEFINE Same == tasks'[t].kind = tasks[t].kind /\ tasks'[t].upload = tasks[t].upload
<1> SUFFICES Same
  BY Zenon
<1>1. tasks \in [TaskIds -> Task] /\ tasks[t] \in Task /\ TypeOK
  BY Zenon DEF IndInv, TypeOK
<1>2. CASE UNCHANGED tasks
  BY Zenon, <1>2
<1>3. ASSUME NEW q \in QueryIds, addTask("query", NoUpload, q)
      PROVE  Same
  <2>1. tasks' = [tasks EXCEPT ![ntasks + 1] =
                    [kind |-> "query", upload |-> NoUpload, qid |-> q, retried |-> 0,
                     state |-> "pending"]]
    BY Zenon, <1>3 DEF addTask
  <2>2. t # ntasks + 1
    BY <1>1, <2>1
  <2> QED
    BY Zenon, SMT, <1>1, <2>1, <2>2
<1>4. ASSUME NEW w \in Workers, NEW verdict \in {"nil", "error", "skip"}, Return(w, verdict)
      PROVE  Same
  BY Zenon, <1>1, <1>4, ReturnFacts DEF TasksAfter
<1>5. ASSUME NEW w \in Workers, NEW x \in TaskIds, Start(w, x)
      PROVE  Same
  <2>1. tasks' = [tasks EXCEPT ![x].state = "active"]
    BY Zenon, <1>5 DEF Start
  <2> QED
    BY <1>1, <2>1 DEF Task
<1>6. ASSUME NEW w \in Workers, Timeout(w)
      PROVE  Same
  <2>1. tasks' = [tasks EXCEPT ![handler[w].task] = Retried(@)]
    BY Zenon, <1>6 DEF Timeout
  <2>2. Settle(tasks[t], "error") = Retried(tasks[t])
    BY Zenon DEF Settle
  <2> QED
    BY <1>1, <2>1, <2>2, SettleFacts
<1>7. ASSUME NEW w \in Workers, HandlerStep(w)
      PROVE  Same
  <2>1. FinalizeWrite(w) => Verdict(handler[w].res) \in {"nil", "error", "skip"}
    <3>1. HandlerOK(w) /\ calls \subseteq SdkCall
      BY Zenon DEF IndInv, HandlerInv, TypeOK
    <3>2. handler[w].pc = "fwrite" => handler[w].res \in Outcome
      BY Zenon, SMT, <3>1 DEF HandlerOK, SdkCall
    <3> QED
      BY Zenon, SMT, <3>2 DEF FinalizeWrite, Verdict, Outcome
  <2>2. UNCHANGED tasks \/ \E verdict \in {"nil", "error", "skip"} : Return(w, verdict)
    BY Zenon, SMT, <1>7, <2>1 DEF HandlerStep, MergeError, MergeDraft, MergeDrop, MergeFire,
       QueryError, QueryFire, CallNoUser, CallSdk, FinalizeRead, FinalizeWrite, FinalizeFails
  <2> QED
    BY Zenon, <1>4, <2>2
<1> QED
  BY Zenon, <1>2, <1>3, <1>4, <1>5, <1>6, <1>7
     DEF ManagerStep, vars, Client, CallPlain, CallNew, CallCommit, CallAfterFailed, CallNoop,
         SendQuery, SendQueryFails, Crash

\* A handler has its patch from its message, or from the row it reads.
LEMMA HandlersTraced ==
    ASSUME IndInv, [Next]_vars, NEW w \in Workers, handler'[w].pc \in {"merge", "call"}
    PROVE  \/ /\ handler[w].pc \in {"merge", "call"}
              /\ handler'[w].patch = handler[w].patch
           \/ \E t \in MergeTasks : handler'[w].patch = tasks[t].upload
           \/ \E q \in QueryIds : /\ handler'[w].patch = rows[q].meta
                                  /\ rows[q].meta \in {NoUpload, rows[q].upload}
                                  /\ rows[q].meta # NoUpload => rows[q].fileReady
<1> DEFINE Kept == handler'[w].pc = handler[w].pc /\ handler'[w].patch = handler[w].patch
           Goal == \/ /\ handler[w].pc \in {"merge", "call"}
                      /\ handler'[w].patch = handler[w].patch
                   \/ \E t \in MergeTasks : handler'[w].patch = tasks[t].upload
                   \/ \E q \in QueryIds : /\ handler'[w].patch = rows[q].meta
                                          /\ rows[q].meta \in {NoUpload, rows[q].upload}
                                          /\ rows[q].meta # NoUpload => rows[q].fileReady
<1>1. handler \in [Workers -> Handler] /\ handler[w] \in Handler
  BY Zenon DEF IndInv, TypeOK
<1>2. CASE handler'[w] = handler[w]
  BY Zenon, <1>2
<1>3. ASSUME NEW v \in Workers, NEW verdict, Return(v, verdict)
      PROVE  handler'[w] = handler[w]
  <2>1. handler' = [handler EXCEPT ![v] = Idle]
    BY Zenon, <1>3 DEF Return
  <2> QED
    BY Zenon, SMT, <1>1, <2>1 DEF Idle
<1>4. ASSUME NEW v \in Workers, NEW t \in TaskIds, Start(v, t)
      PROVE  Goal
  <2>1. handler' = [handler EXCEPT ![v] =
                     [pc |-> tasks[t].kind, task |-> t, qid |-> tasks[t].qid,
                      body |-> NoBody, patch |-> tasks[t].upload,
                      res |-> "none", snap |-> AbsentRow]]
    BY Zenon, <1>4 DEF Start
  <2>2. tasks[t] \in Task
    BY Zenon DEF IndInv, TypeOK
  <2>3. CASE v = w
    <3>1. handler'[w].pc = tasks[t].kind /\ handler'[w].patch = tasks[t].upload
      BY <1>1, <2>1, <2>3
    <3>2. t \in MergeTasks
      BY Zenon, SMT, <2>2, <3>1 DEF MergeTasks, Task
    <3> QED
      BY Zenon, <3>1, <3>2
  <2>4. CASE v # w
    BY Zenon, SMT, <1>1, <1>2, <2>1, <2>4
  <2> QED
    BY Zenon, <2>3, <2>4
<1>5. ASSUME NEW v \in Workers, Timeout(v)
      PROVE  Kept
  <2>1. handler' = [handler EXCEPT ![v].task = 0]
    BY Zenon, <1>5 DEF Timeout
  <2> QED
    BY <1>1, <2>1 DEF Handler
<1>6. ASSUME NEW v \in Workers, MergeFire(v)
      PROVE  Goal
  <2>1. PICK q \in QueryIds : Fire(v, q, handler[v].patch)
    BY Zenon, <1>6 DEF MergeFire
  <2>2. handler[v].pc = "merge"
    BY Zenon, <1>6 DEF MergeFire
  <2>3. CASE v = w
    <3>1. handler'[w].patch = handler[w].patch
      BY <1>1, <2>1, <2>3 DEF Fire, Handler
    <3> QED
      BY Zenon, <2>2, <2>3, <3>1
  <2>4. CASE v # w
    <3>1. handler'[w] = handler[w]
      BY <1>1, <2>1, <2>4 DEF Fire
    <3> QED
      BY Zenon, <1>2, <3>1
  <2> QED
    BY Zenon, <2>3, <2>4
<1>7. ASSUME NEW v \in Workers, QueryFire(v)
      PROVE  Goal
  <2> DEFINE q == handler[v].qid
  <2>1. Fire(v, q, rows[q].meta) /\ handler[v].pc = "query"
    BY Zenon, <1>7 DEF QueryFire
  <2>2. q \in QueryIds
    BY Zenon, <2>1 DEF IndInv, HandlerInv, HandlerOK
  <2>3. /\ rows[q].meta \in {NoUpload, rows[q].upload}
        /\ rows[q].meta # NoUpload => rows[q].fileReady
    BY Zenon, SMT, <2>2 DEF IndInv, RowInv
  <2>4. CASE v = w
    <3>1. handler'[w].patch = rows[q].meta
      BY <1>1, <2>1, <2>4 DEF Fire, Handler
    <3> QED
      BY Zenon, <2>2, <2>3, <3>1
  <2>5. CASE v # w
    <3>1. handler'[w] = handler[w]
      BY <1>1, <2>1, <2>5 DEF Fire
    <3> QED
      BY Zenon, <1>2, <3>1
  <2> QED
    BY Zenon, <2>4, <2>5
<1>8. ASSUME NEW v \in Workers,
             FinalizeRead(v) \/ \E out \in Outcome : CallSdk(v, out)
      PROVE  handler'[w] = handler[w]
  <2>1. \/ handler' = [handler EXCEPT ![v].pc = "fwrite", ![v].snap = rows[handler[v].qid]]
        \/ \E out \in Outcome : handler' = [handler EXCEPT ![v].pc = "fread", ![v].res = out]
    BY Zenon, <1>8 DEF FinalizeRead, CallSdk
  <2> QED
    BY Zenon, SMT, <1>1, <2>1 DEF Handler
<1>9. ASSUME NEW v \in Workers, HandlerStep(v)
      PROVE  Goal
  <2>1. \/ MergeFire(v) \/ QueryFire(v)
        \/ FinalizeRead(v) \/ \E out \in Outcome : CallSdk(v, out)
        \/ \E verdict : Return(v, verdict)
    BY Zenon, <1>9 DEF HandlerStep, MergeError, MergeDraft, MergeDrop, QueryError,
       CallNoUser, FinalizeWrite, FinalizeFails
  <2> QED
    BY Zenon, <1>2, <1>3, <1>6, <1>7, <1>8, <2>1
<1>10. CASE UNCHANGED handler
  BY Zenon, <1>2, <1>10
<1>11. Kept => Goal
  BY Zenon
<1> QED
  BY Zenon, <1>2, <1>3, <1>4, <1>5, <1>9, <1>10, <1>11
     DEF Next, vars, Client, CallPlain, CallNew, CallCommit, CallAfterFailed, CallNoop,
         SendQuery, SendQueryFails, UploadDone, Crash

\* A call takes its patch from the handler that makes it.
LEMMA CallsTraced ==
    ASSUME IndInv, [Next]_vars, NEW c \in calls', c \notin calls
    PROVE  \E w \in Workers : handler[w].pc = "call" /\ c.patch = handler[w].patch
<1>1. CASE \E w \in Workers, out \in Outcome : CallSdk(w, out)
  BY Zenon, SMT, <1>1 DEF CallSdk
<1>2. CASE UNCHANGED calls
  BY Zenon, <1>2
<1> QED
  BY Zenon, <1>1, <1>2, RowEffects DEF CallCommit, MergeDraft, FinalizeWrite

-----------------------------------------------------------------------------

LEMMA FlowInitInv == FlowInit => FlowInv
<1> SUFFICES ASSUME FlowInit PROVE FlowInv
  OBVIOUS
<1>1. IndInv /\ FP!ForkliftInv
  BY Zenon, InitIndInv, FlowForkliftInv DEF FlowInit
<1>2. reflected = {}
  BY Zenon DEF FlowInit, Fork!ForkliftInit
<1>3. /\ \A q \in QueryIds : ~rows[q].fileReady
      /\ MergeTasks = {}
      /\ \A w \in Workers : handler[w].pc = "idle"
      /\ calls = {}
  BY DEF FlowInit, Init, AbsentRow, NoTask, Idle, MergeTasks
<1> QED
  BY Zenon, SMT, <1>1, <1>2, <1>3 DEF FlowInv, Traced

\* One step of the composition: each component keeps its invariant, forklift's
\* results stay, and every new trace in the manager has an older one behind it
\* or an announcement.
LEMMA FlowStep == FlowInv /\ [FlowNext]_flowVars => FlowInv'
<1> SUFFICES ASSUME FlowInv, [FlowNext]_flowVars PROVE FlowInv'
  OBVIOUS
<1>1. IndInv /\ FP!ForkliftInv /\ Traced
  BY Zenon DEF FlowInv
<1>2. [Next]_vars /\ [FP!ForkliftNext]_forkVars
  BY Zenon, <1>1, FlowSteps
<1>3. IndInv' /\ FP!ForkliftInv'
  BY Zenon, <1>1, <1>2, NextIndInv, FlowForkliftInv
<1>4. /\ \A s \in reflected' : stream'[s] \in Uploads
      /\ \A u : Reflected(u) => \E s \in reflected' : stream'[s] = u
  <2>1. \A s \in reflected : stream[s] \in Uploads
    BY Zenon, <1>1 DEF Traced
  <2> QED
    BY Zenon, <1>1, <1>2, <2>1, ReflectedStays DEF Reflected
<1>5. \A w \in Workers : handler[w].pc = "merge" => Reflected(handler[w].patch)
  <2>1. \A w \in Workers : handler[w].pc = "merge" => handler[w].patch # NoUpload
    BY Zenon, <1>1, AsynqueryAssumption DEF IndInv, HandlerInv, HandlerOK
  <2> QED
    BY Zenon, <1>1, <2>1 DEF Traced, Backed
<1>6. ASSUME NEW q \in QueryIds, rows'[q].fileReady
      PROVE  \E s \in reflected' : stream'[s] = rows'[q].upload
  BY Zenon, <1>1, <1>2, <1>4, <1>5, <1>6, RowsTraced DEF Traced
<1>7. ASSUME NEW t \in TaskIds, tasks'[t].kind = "merge"
      PROVE  \E s \in reflected' : stream'[s] = tasks'[t].upload
  <2>1. CASE tasks[t].kind = "merge" /\ tasks'[t].upload = tasks[t].upload
    BY Zenon, <1>1, <1>4, <2>1 DEF Traced, MergeTasks
  <2>2. ASSUME NEW w \in Forks, Announce(w)
        PROVE  \E s \in reflected' : stream'[s] = tasks'[t].upload
    <3>1. UploadDone(fork[w].upload) /\ fork[w].pc = "send"
      BY Zenon, <2>2 DEF Announce, Fork!Announce, Fork!SendResponse, Fork!SendResponseUnsure
    <3>2. fork[w].upload \in Uploads
      BY Zenon, SMT, <1>1, <3>1 DEF FP!ForkliftInv, FP!Handling, FP!Busy, FP!Incoming
    <3>3. \/ tasks[t].kind = "merge" /\ tasks'[t].upload = tasks[t].upload
          \/ tasks'[t].upload = fork[w].upload
      BY Zenon, <1>1, <1>7, <3>1, <3>2, MessageSent
    <3> QED
      BY Zenon, <1>1, <2>1, <2>2, <3>3, AnnounceReflected
  <2>3. CASE ManagerStep
    BY Zenon, <1>1, <1>7, <2>1, <2>3, MessagesTraced
  <2>4. CASE UNCHANGED tasks
    BY Zenon, <1>7, <2>1, <2>4
  <2> QED
    BY Zenon, <2>2, <2>3, <2>4 DEF FlowNext, ForkStep, flowVars, vars
<1>8. ASSUME NEW w \in Workers, handler'[w].pc \in {"merge", "call"}
      PROVE  handler'[w].patch = NoUpload \/ \E s \in reflected' : stream'[s] = handler'[w].patch
  BY Zenon, <1>1, <1>2, <1>4, <1>8, HandlersTraced DEF Traced, Backed
<1>9. ASSUME NEW c \in calls'
      PROVE  c.patch = NoUpload \/ \E s \in reflected' : stream'[s] = c.patch
  BY Zenon, <1>1, <1>2, <1>4, <1>9, CallsTraced DEF Traced, Backed
<1>10. Traced'
  BY Zenon, <1>4, <1>6, <1>7, <1>8, <1>9 DEF Traced, Reflected, Backed, MergeTasks, QueryIds, TaskIds, MaxTasks
<1> QED
  BY Zenon, <1>3, <1>10 DEF FlowInv

\* Every reachable state of the composition satisfies its invariant.
THEOREM FlowInvariance == FlowSpec => []FlowInv
  BY FlowInitInv, FlowStep, PTL DEF FlowSpec

\* No row and no waiting message speaks of a file whose blobs are not stored
\* (handleMergeTx; HandleUpload announces last), and no call for a file reaches the
\* SDK before that: the patch of a call is the upload of its row, and it is backed.
THEOREM FlowSafety == FlowSpec => []FlowSafe
<1>1. FlowInv => ReadyIsReflected
  BY Zenon DEF FlowInv, Traced, ReadyIsReflected
<1>2. FlowInv => PublishedIsReflected
  BY Zenon, SMT DEF FlowInv, Traced, Backed, PublishedIsReflected, IndInv, OnlyCommittedSent
<1>3. FlowInv => FlowSafe
  BY Zenon, <1>1, <1>2 DEF FlowSafe
<1> QED
  BY <1>3, FlowInvariance, PTL

\* In the composition, too, only what the client has committed reaches the SDK,
\* and forklift announces only what is stored.
THEOREM FlowKeepsParts == FlowSpec => [](OnlyCommittedSent /\ FP!AnnouncedIsReflected)
<1>1. FlowInv => OnlyCommittedSent /\ FP!AnnouncedIsReflected
  BY Zenon DEF FlowInv, IndInv, FP!ForkliftInv
<1> QED
  BY <1>1, FlowInvariance, PTL
================================================================================
