----------------------------- MODULE ForkliftProofs -----------------------------
(***************************************************************************)
(* Safety of forklift for any number of uploads, workers, streams and      *)
(* retries.  The invariants of the runs are not inductive: what a handler  *)
(* may announce, mark or delete depends on how far it has come with which  *)
(* stream (Handling), and no two handlers may be at work on one upload     *)
(* (Alone), or the task of one would be completed by the other.            *)
(***************************************************************************)
EXTENDS Forklift, TLAPS

Busy(w) == fork[w].pc # "idle"

\* What handler w has done so far.
Handling(w) ==
    /\ fork[w].pc = "idle" => fork[w] = ForkIdle
    /\ Busy(w) => /\ fork[w].upload \in Incoming
                  /\ task[fork[w].upload].state = "active"
    /\ fork[w].pc \in {"upload", "mark", "send", "delete"} =>
          fork[w].sd \in Streams /\ stream[fork[w].sd] = fork[w].upload
    /\ fork[w].pc \in {"mark", "send", "delete"} => fork[w].sd \in reflected
    /\ fork[w].pc \in {"send", "delete"} /\ fork[w].upload \in Files =>
          \/ status[fork[w].upload] = "absent"
          \/ /\ status[fork[w].upload] = "processed"
             /\ sdHash[fork[w].upload] = fork[w].sd
    /\ fork[w].pc = "delete" =>
          /\ fork[w].upload \in Files
          /\ fork[w].sent =>
                [upload |-> fork[w].upload, sd |-> fork[w].sd] \in announced

\* No two handlers work on one upload.
Alone ==
    \A v, w \in Workers :
        Busy(v) /\ Busy(w) /\ fork[v].upload = fork[w].upload => v = w

ForkliftInv ==
    /\ ForkliftTypeOK
    /\ \A w \in Workers : Handling(w)
    /\ Alone
    /\ AnnouncedIsReflected
    /\ SourceKeptUntilSaved
    /\ DoneIsAnnounced

-----------------------------------------------------------------------------
\* Init establishes the invariant: no handler is busy, nothing is announced.
LEMMA ForkliftInitInv == ForkliftInit => ForkliftInv
<1> SUFFICES ASSUME ForkliftInit PROVE ForkliftInv
  OBVIOUS
<1> USE ForkliftAssumption DEF ForkliftInit
<1>1. ForkliftTypeOK
  BY DEF ForkliftTypeOK, QueueTask, ForkHandler, ForkIdle, Status, Incoming
<1>2. \A w \in Workers : Handling(w)
  BY Zenon, SMT DEF Handling, Busy, ForkIdle
<1>3. Alone
  BY Zenon, SMT DEF Alone, Busy, ForkIdle
<1>4. AnnouncedIsReflected /\ SourceKeptUntilSaved /\ DoneIsAnnounced
  BY Zenon, SMT DEF AnnouncedIsReflected, SourceKeptUntilSaved, DoneIsAnnounced
<1> QED BY Zenon, SMT, <1>1, <1>2, <1>3, <1>4 DEF ForkliftInv

\* A task that is handed back is pending or archived and keeps its type.
LEMMA RedeliveredType ==
  ASSUME NEW t \in QueueTask
  PROVE  Redelivered(t) \in QueueTask /\ Redelivered(t).state \in {"pending", "archived"}
  BY ForkliftAssumption DEF Redelivered, QueueTask

\* Returning, with or without an error, leaves the other handlers' work alone;
\* it completes the task only when the upload is among the announced ones.
LEMMA FinishKeeps ==
  ASSUME ForkliftInv, NEW w \in Workers, Busy(w), NEW ok \in BOOLEAN, Finish(w, ok),
         UNCHANGED <<status, sdHash, stream, reflected>>,
         announced \subseteq announced',
         ok => \E m \in announced' : m.upload = fork[w].upload
  PROVE  /\ task' \in [Incoming -> QueueTask]
         /\ fork' \in [Workers -> ForkHandler]
         /\ \A v \in Workers : Handling(v)'
         /\ Alone'
         /\ DoneIsAnnounced'
<1> DEFINE u == fork[w].upload
<1>1. u \in Incoming /\ task[u].state = "active"
  BY Zenon, SMT DEF ForkliftInv, Handling
<1>2. task \in [Incoming -> QueueTask] /\ fork \in [Workers -> ForkHandler]
  BY Zenon, SMT DEF ForkliftInv, ForkliftTypeOK
<1>3. PICK t \in QueueTask : /\ task' = [task EXCEPT ![u] = t]
                             /\ t.state = IF ok THEN "done" ELSE t.state
                             /\ ~ok => t.state \in {"pending", "archived"}
  <2>1. task[u] \in QueueTask
    BY Zenon, SMT, <1>1, <1>2
  <2>2. CASE ok
    BY Zenon, SMT, <1>1, <1>2, <2>1, <2>2 DEF Finish, QueueTask
  <2>3. CASE ~ok
    BY Zenon, SMT, <1>1, <1>2, <2>1, <2>3, RedeliveredType DEF Finish
  <2> QED BY Zenon, SMT, <2>2, <2>3
<1>4. fork' = [fork EXCEPT ![w] = ForkIdle]
  BY Zenon, SMT DEF Finish
<1>5. ForkIdle \in ForkHandler
  BY Zenon, SMT DEF ForkIdle, ForkHandler
<1>6. task' \in [Incoming -> QueueTask] /\ fork' \in [Workers -> ForkHandler]
  BY Zenon, SMT, <1>2, <1>3, <1>4, <1>5
<1>7. ASSUME NEW v \in Workers PROVE Handling(v)'
  <2>1. CASE v = w
    <3>1. fork'[v] = ForkIdle
      BY Zenon, SMT, <1>2, <1>4, <2>1
    <3> QED BY <3>1 DEF Handling, Busy, ForkIdle
  <2>2. CASE v # w
    <3>1. fork'[v] = fork[v]
      BY Zenon, SMT, <1>2, <1>4, <2>2
    <3>2. Handling(v)
      BY Zenon, SMT DEF ForkliftInv
    <3>3. Busy(v) => fork[v].upload # u /\ task'[fork[v].upload] = task[fork[v].upload]
      BY Zenon, SMT, <1>1, <1>2, <1>3, <2>2, <3>2 DEF ForkliftInv, Alone, Handling
    <3> QED BY Zenon, SMT, <3>1, <3>2, <3>3 DEF Handling, Busy
  <2> QED BY Zenon, SMT, <2>1, <2>2
<1>8. Alone'
  <2> SUFFICES ASSUME NEW x \in Workers, NEW y \in Workers,
                      Busy(x)', Busy(y)', fork'[x].upload = fork'[y].upload
               PROVE  x = y
    BY Zenon, SMT DEF Alone
  <2>1. x # w /\ y # w
    BY Zenon, SMT, <1>2, <1>4 DEF Busy, ForkIdle
  <2>2. fork'[x] = fork[x] /\ fork'[y] = fork[y]
    BY Zenon, SMT, <1>2, <1>4, <2>1
  <2> QED BY Zenon, SMT, <2>2 DEF ForkliftInv, Alone, Busy
<1>9. DoneIsAnnounced'
  <2> SUFFICES ASSUME NEW x \in Incoming, task'[x].state = "done"
               PROVE  \E m \in announced' : m.upload = x
    BY Zenon, SMT DEF DoneIsAnnounced
  <2>1. CASE x = u
    <3>1. task'[u] = t
      BY Zenon, SMT, <1>1, <1>2, <1>3
    <3> QED BY Zenon, SMT, <1>3, <2>1, <3>1
  <2>2. CASE x # u
    <3>1. task'[x] = task[x]
      BY Zenon, SMT, <1>2, <1>3, <2>2
    <3> QED BY Zenon, SMT, <3>1 DEF ForkliftInv, DoneIsAnnounced
  <2> QED BY Zenon, SMT, <2>1, <2>2
<1> QED BY Zenon, SMT, <1>6, <1>7, <1>8, <1>9

\* A step of handler w within its task changes no other handler's work: what
\* must be shown is only what w itself has done after the step.
LEMMA StepKeeps ==
  ASSUME ForkliftInv, NEW w \in Workers, Busy(w), NEW h \in ForkHandler,
         fork' = [fork EXCEPT ![w] = h], h.upload = fork[w].upload, h.pc # "idle",
         UNCHANGED task,
         \A s \in Streams : stream[s] # NoFile => stream'[s] = stream[s],
         reflected \subseteq reflected', announced \subseteq announced',
         \A f \in Files : f # fork[w].upload =>
             status'[f] = status[f] /\ sdHash'[f] = sdHash[f],
         Handling(w)'
  PROVE  /\ fork' \in [Workers -> ForkHandler]
         /\ \A v \in Workers : Handling(v)'
         /\ Alone'
         /\ DoneIsAnnounced'
<1>1. fork \in [Workers -> ForkHandler]
  BY Zenon, SMT DEF ForkliftInv, ForkliftTypeOK
<1>2. ASSUME NEW v \in Workers, v # w PROVE fork'[v] = fork[v]
  BY Zenon, SMT, <1>1, <1>2
<1>3. fork'[w] = h
  BY Zenon, SMT, <1>1
<1>4. ASSUME NEW v \in Workers PROVE Handling(v)'
  <2>1. CASE v = w
    BY Zenon, SMT, <2>1
  <2>2. CASE v # w
    <3>1. fork'[v] = fork[v]
      BY Zenon, SMT, <1>2, <2>2
    <3>2. Handling(v)
      BY Zenon, SMT DEF ForkliftInv
    <3>3. Busy(v) => fork[v].upload # fork[w].upload
      BY Zenon, SMT, <2>2 DEF ForkliftInv, Alone
    <3>4. NoFile \notin Incoming
      BY Zenon, SMT, ForkliftAssumption DEF Incoming
    <3>5. fork[v].pc \in {"upload", "mark", "send", "delete"} =>
             fork[v].sd \in Streams /\ stream'[fork[v].sd] = fork[v].upload
      BY Zenon, SMT, <3>2, <3>4 DEF Handling, Busy
    <3> QED BY SMTT(60), SMTT(45), <3>1, <3>2, <3>3, <3>5 DEF Handling, Busy
  <2> QED BY Zenon, SMT, <2>1, <2>2
<1>5. Alone'
  <2> SUFFICES ASSUME NEW x \in Workers, NEW y \in Workers,
                      Busy(x)', Busy(y)', fork'[x].upload = fork'[y].upload
               PROVE  x = y
    BY Zenon, SMT DEF Alone
  <2>1. fork'[x].upload = fork[x].upload /\ Busy(x)
    BY Zenon, SMT, <1>2, <1>3 DEF Busy
  <2>2. fork'[y].upload = fork[y].upload /\ Busy(y)
    BY Zenon, SMT, <1>2, <1>3 DEF Busy
  <2> QED BY Zenon, SMT, <2>1, <2>2 DEF ForkliftInv, Alone
<1>6. DoneIsAnnounced'
  BY Zenon, SMT DEF ForkliftInv, DoneIsAnnounced
<1> QED BY Zenon, SMT, <1>1, <1>4, <1>5, <1>6

-----------------------------------------------------------------------------
(* One lemma per action.                                                   *)

\* A task is queued: it was neither active nor is it done now.
LEMMA ReceiveInv ==
  ASSUME ForkliftInv, NEW u \in Incoming, Receive(u)
  PROVE  ForkliftInv'
<1>1. task \in [Incoming -> QueueTask]
  BY Zenon, SMT DEF ForkliftInv, ForkliftTypeOK
<1>2. task' = [task EXCEPT ![u] = [state |-> "pending", retried |-> 0]]
      /\ task[u].state # "active"
  BY Zenon, SMT DEF Receive
<1>3. ForkliftTypeOK'
  BY SMTT(60), SMTT(45), <1>1, <1>2, ForkliftAssumption DEF ForkliftInv, ForkliftTypeOK, QueueTask, Receive
<1>4. ASSUME NEW w \in Workers PROVE Handling(w)'
  <2>1. Handling(w)
    BY Zenon, SMT DEF ForkliftInv
  <2>2. Busy(w) => task'[fork[w].upload] = task[fork[w].upload]
    BY Zenon, SMT, <1>1, <1>2, <2>1 DEF Handling
  <2> QED BY Zenon, SMT, <2>1, <2>2 DEF Handling, Busy, Receive
<1>5. Alone'
  BY Zenon, SMT DEF ForkliftInv, Alone, Busy, Receive
<1>6. AnnouncedIsReflected' /\ SourceKeptUntilSaved'
  BY Zenon, SMT DEF ForkliftInv, AnnouncedIsReflected, SourceKeptUntilSaved, Receive
<1>7. DoneIsAnnounced'
  BY <1>1, <1>2 DEF ForkliftInv, DoneIsAnnounced, Receive
<1> QED BY Zenon, SMT, <1>3, <1>4, <1>5, <1>6, <1>7 DEF ForkliftInv

\* A worker takes a pending task: no other worker has it.
LEMMA StartUploadInv ==
  ASSUME ForkliftInv, NEW w \in Workers, NEW u \in Incoming, StartUpload(w, u)
  PROVE  ForkliftInv'
<1> DEFINE h == [ForkIdle EXCEPT !.pc = "retrieve", !.upload = u]
<1>1. task \in [Incoming -> QueueTask] /\ fork \in [Workers -> ForkHandler]
  BY Zenon, SMT DEF ForkliftInv, ForkliftTypeOK
<1>2. /\ task' = [task EXCEPT ![u].state = "active"]
      /\ task[u].state = "pending"
      /\ fork' = [fork EXCEPT ![w] = h]
  BY Zenon, SMT DEF StartUpload
<1>3. h \in ForkHandler /\ h.pc = "retrieve" /\ h.upload = u
  BY Zenon, SMT DEF ForkHandler, ForkIdle
<1>4. task' \in [Incoming -> QueueTask] /\ task'[u].state = "active"
  BY Zenon, SMT, <1>1, <1>2 DEF QueueTask
<1>5. ForkliftTypeOK'
  BY Zenon, SMT, <1>1, <1>2, <1>3, <1>4 DEF ForkliftInv, ForkliftTypeOK, StartUpload
<1>6. ASSUME NEW v \in Workers, v # w, Busy(v)
      PROVE  /\ fork[v].upload # u
             /\ task'[fork[v].upload] = task[fork[v].upload]
  BY Zenon, SMT, <1>1, <1>2, <1>6 DEF ForkliftInv, Handling
<1>7. fork'[w] = h /\ \A v \in Workers : v # w => fork'[v] = fork[v]
  BY Zenon, SMT, <1>1, <1>2
<1>8. ASSUME NEW v \in Workers PROVE Handling(v)'
  <2>1. CASE v = w
    BY Zenon, SMT, <1>3, <1>4, <1>7, <2>1 DEF Handling, Busy
  <2>2. CASE v # w
    <3>1. Handling(v)
      BY Zenon, SMT DEF ForkliftInv
    <3> QED BY SMTT(60), SMTT(45), <1>6, <1>7, <2>2, <3>1 DEF Handling, Busy, StartUpload
  <2> QED BY Zenon, SMT, <2>1, <2>2
<1>9. Alone'
  <2> SUFFICES ASSUME NEW x \in Workers, NEW y \in Workers,
                      Busy(x)', Busy(y)', fork'[x].upload = fork'[y].upload
               PROVE  x = y
    BY Zenon, SMT DEF Alone
  <2>1. CASE x # w /\ y # w
    BY <1>7, <2>1 DEF ForkliftInv, Alone, Busy
  <2>2. CASE x = w /\ y # w
    <3>1. fork'[y] = fork[y] /\ fork'[w] = h
      BY Zenon, SMT, <1>7, <2>2
    <3>2. fork[y].upload # u
      BY Zenon, SMT, <1>6, <2>2, <3>1 DEF Busy
    <3> QED BY Zenon, SMT, <1>3, <2>2, <3>1, <3>2
  <2>3. CASE x # w /\ y = w
    <3>1. fork'[x] = fork[x] /\ fork'[w] = h
      BY Zenon, SMT, <1>7, <2>3
    <3>2. fork[x].upload # u
      BY Zenon, SMT, <1>6, <2>3, <3>1 DEF Busy
    <3> QED BY Zenon, SMT, <1>3, <2>3, <3>1, <3>2
  <2> QED BY Zenon, SMT, <2>1, <2>2, <2>3
<1>10. AnnouncedIsReflected' /\ SourceKeptUntilSaved'
  BY Zenon, SMT DEF ForkliftInv, AnnouncedIsReflected, SourceKeptUntilSaved, StartUpload
<1>11. DoneIsAnnounced'
  BY <1>1, <1>2 DEF ForkliftInv, DoneIsAnnounced, StartUpload
<1> QED BY Zenon, SMT, <1>5, <1>8, <1>9, <1>10, <1>11 DEF ForkliftInv

\* A handler gives up, or dies: the task goes back to the queue.
LEMMA GiveUpInv ==
  ASSUME ForkliftInv, NEW w \in Workers, ForkCrash(w) \/ Fails(w)
  PROVE  ForkliftInv'
<1>1. /\ Busy(w) /\ Finish(w, FALSE)
      /\ UNCHANGED <<object, status, sdHash, stream, reflected, announced>>
  BY Zenon, SMT DEF ForkCrash, Fails, Busy
<1>2. /\ task' \in [Incoming -> QueueTask]
      /\ fork' \in [Workers -> ForkHandler]
      /\ \A v \in Workers : Handling(v)'
      /\ Alone'
      /\ DoneIsAnnounced'
  BY Zenon, SMT, <1>1, FinishKeeps
<1>3. ForkliftTypeOK'
  BY Zenon, SMT, <1>1, <1>2 DEF ForkliftInv, ForkliftTypeOK
<1>4. AnnouncedIsReflected' /\ SourceKeptUntilSaved'
  BY Zenon, SMT, <1>1 DEF ForkliftInv, AnnouncedIsReflected, SourceKeptUntilSaved
<1> QED BY Zenon, SMT, <1>2, <1>3, <1>4 DEF ForkliftInv

\* Copying and analysing the file touch nothing but the handler's place.
LEMMA ReadInv ==
  ASSUME ForkliftInv, NEW w \in Workers, Retrieve(w) \/ Analyze(w)
  PROVE  ForkliftInv'
<1>1. fork \in [Workers -> ForkHandler] /\ fork[w] \in ForkHandler
  BY Zenon, SMT DEF ForkliftInv, ForkliftTypeOK
<1>2. PICK pc \in {"analyze", "split"} : fork' = [fork EXCEPT ![w].pc = pc]
  BY Zenon, SMT DEF Retrieve, Analyze, Goto
<1>3. Busy(w) /\ UNCHANGED <<object, status, sdHash, task, stream, reflected, announced>>
  BY Zenon, SMT DEF Retrieve, Analyze, Busy
<1> DEFINE h == [fork[w] EXCEPT !.pc = pc]
<1>4. /\ h \in ForkHandler /\ h.pc = pc /\ h.upload = fork[w].upload
      /\ fork' = [fork EXCEPT ![w] = h] /\ fork'[w] = h
  BY Zenon, SMT, <1>1, <1>2 DEF ForkHandler
<1>5. Handling(w)'
  <2>1. Handling(w)
    BY Zenon, SMT DEF ForkliftInv
  <2> QED BY Zenon, SMT, <1>3, <1>4, <2>1 DEF Handling, Busy
<1>6. /\ fork' \in [Workers -> ForkHandler]
      /\ \A v \in Workers : Handling(v)'
      /\ Alone'
      /\ DoneIsAnnounced'
  BY Zenon, SMT, <1>3, <1>4, <1>5, StepKeeps
<1>7. ForkliftTypeOK'
  BY Zenon, SMT, <1>3, <1>6 DEF ForkliftInv, ForkliftTypeOK
<1>8. AnnouncedIsReflected' /\ SourceKeptUntilSaved'
  BY Zenon, SMT, <1>3 DEF ForkliftInv, AnnouncedIsReflected, SourceKeptUntilSaved
<1> QED BY Zenon, SMT, <1>6, <1>7, <1>8 DEF ForkliftInv

\* Splitting takes a stream that belongs to no upload yet.
LEMMA SplitInv ==
  ASSUME ForkliftInv, NEW w \in Workers, Split(w)
  PROVE  ForkliftInv'
<1>1. fork \in [Workers -> ForkHandler] /\ fork[w] \in ForkHandler
  BY Zenon, SMT DEF ForkliftInv, ForkliftTypeOK
<1>2. PICK s \in Streams :
        /\ stream[s] = NoFile
        /\ stream' = [stream EXCEPT ![s] = fork[w].upload]
        /\ fork' = [fork EXCEPT ![w] = [@ EXCEPT !.pc = "upload", !.sd = s]]
  BY Zenon, SMT DEF Split
<1>3. Busy(w) /\ UNCHANGED <<object, status, sdHash, task, reflected, announced>>
  BY Zenon, SMT DEF Split, Busy
<1> DEFINE h == [fork[w] EXCEPT !.pc = "upload", !.sd = s]
<1>4. /\ h \in ForkHandler /\ h.pc = "upload" /\ h.upload = fork[w].upload /\ h.sd = s
      /\ fork' = [fork EXCEPT ![w] = h] /\ fork'[w] = h
  BY Zenon, SMT, <1>1, <1>2 DEF ForkHandler
<1>5. stream \in [Streams -> Incoming \cup {NoFile}]
  BY Zenon, SMT DEF ForkliftInv, ForkliftTypeOK
<1>6. fork[w].upload \in Incoming /\ task[fork[w].upload].state = "active"
  BY Zenon, SMT, <1>3 DEF ForkliftInv, Handling
<1>7. /\ stream' \in [Streams -> Incoming \cup {NoFile}]
      /\ stream'[s] = fork[w].upload
      /\ \A x \in Streams : stream[x] # NoFile => stream'[x] = stream[x]
  BY Zenon, SMT, <1>2, <1>5, <1>6
<1>8. Handling(w)'
  BY Zenon, SMT, <1>3, <1>4, <1>6, <1>7 DEF Handling, Busy
<1>9. /\ fork' \in [Workers -> ForkHandler]
      /\ \A v \in Workers : Handling(v)'
      /\ Alone'
      /\ DoneIsAnnounced'
  BY Zenon, SMT, <1>3, <1>4, <1>7, <1>8, StepKeeps
<1>10. ForkliftTypeOK'
  BY Zenon, SMT, <1>3, <1>7, <1>9 DEF ForkliftInv, ForkliftTypeOK
<1>11. NoFile \notin Incoming /\ NoFile \notin Files
  BY Zenon, SMT, ForkliftAssumption DEF Incoming
<1>12. AnnouncedIsReflected'
  BY SMTT(60), SMTT(45), <1>3, <1>7, <1>11 DEF ForkliftInv, ForkliftTypeOK, AnnouncedIsReflected, Message
<1>13. SourceKeptUntilSaved'
  <2> SUFFICES ASSUME NEW f \in Files, object'[f] = "deleted", status'[f] # "absent"
               PROVE  /\ status'[f] = "processed"
                      /\ sdHash'[f] \in reflected'
                      /\ stream'[sdHash'[f]] = f
    BY Zenon, SMT DEF SourceKeptUntilSaved
  <2>1. status[f] = "processed" /\ sdHash[f] \in reflected /\ stream[sdHash[f]] = f
    BY Zenon, SMT, <1>3 DEF ForkliftInv, SourceKeptUntilSaved
  <2>2. reflected \subseteq Streams
    BY Zenon, SMT DEF ForkliftInv, ForkliftTypeOK
  <2> QED BY Zenon, SMT, <1>3, <1>7, <1>11, <2>1, <2>2
<1> QED BY Zenon, SMT, <1>9, <1>10, <1>12, <1>13 DEF ForkliftInv

\* All blobs of the stream are in the blob store.
LEMMA ReflectInv ==
  ASSUME ForkliftInv, NEW w \in Workers, Reflect(w)
  PROVE  ForkliftInv'
<1>1. fork \in [Workers -> ForkHandler] /\ fork[w] \in ForkHandler
  BY Zenon, SMT DEF ForkliftInv, ForkliftTypeOK
<1>2. /\ fork' = [fork EXCEPT ![w].pc = "mark"]
      /\ reflected' = reflected \cup {fork[w].sd}
      /\ fork[w].pc = "upload"
  BY Zenon, SMT DEF Reflect, Goto
<1>3. Busy(w) /\ UNCHANGED <<object, status, sdHash, task, stream, announced>>
  BY Zenon, SMT DEF Reflect, Busy
<1> DEFINE h == [fork[w] EXCEPT !.pc = "mark"]
<1>4. /\ h \in ForkHandler /\ h.pc = "mark" /\ h.upload = fork[w].upload
      /\ h.sd = fork[w].sd /\ fork' = [fork EXCEPT ![w] = h] /\ fork'[w] = h
  BY Zenon, SMT, <1>1, <1>2 DEF ForkHandler
<1>5. Handling(w)
  BY Zenon, SMT DEF ForkliftInv
<1>6. Handling(w)'
  BY Zenon, SMT, <1>2, <1>3, <1>4, <1>5 DEF Handling, Busy
<1>7. /\ fork' \in [Workers -> ForkHandler]
      /\ \A v \in Workers : Handling(v)'
      /\ Alone'
      /\ DoneIsAnnounced'
  BY Zenon, SMT, <1>2, <1>3, <1>4, <1>6, StepKeeps
<1>8. fork[w].sd \in Streams
  BY Zenon, SMT, <1>2, <1>5 DEF Handling
<1>9. ForkliftTypeOK'
  BY Zenon, SMT, <1>2, <1>3, <1>7, <1>8 DEF ForkliftInv, ForkliftTypeOK
<1>10. AnnouncedIsReflected' /\ SourceKeptUntilSaved'
  BY Zenon, SMT, <1>2, <1>3 DEF ForkliftInv, AnnouncedIsReflected, SourceKeptUntilSaved
<1> QED BY Zenon, SMT, <1>7, <1>9, <1>10 DEF ForkliftInv

\* The row, if there is one, names the stream that was just reflected.
LEMMA MarkInv ==
  ASSUME ForkliftInv, NEW w \in Workers, MarkUploadProcessed(w)
  PROVE  ForkliftInv'
<1> DEFINE u == fork[w].upload
<1>1. fork \in [Workers -> ForkHandler] /\ fork[w] \in ForkHandler
  BY Zenon, SMT DEF ForkliftInv, ForkliftTypeOK
<1>2. fork' = [fork EXCEPT ![w].pc = "send"] /\ fork[w].pc = "mark"
  BY Zenon, SMT DEF MarkUploadProcessed, Goto
<1>3. Busy(w) /\ UNCHANGED <<object, task, stream, reflected, announced>>
  BY Zenon, SMT DEF MarkUploadProcessed, Busy
<1> DEFINE h == [fork[w] EXCEPT !.pc = "send"]
<1>4. /\ h \in ForkHandler /\ h.pc = "send" /\ h.upload = u
      /\ h.sd = fork[w].sd /\ fork' = [fork EXCEPT ![w] = h] /\ fork'[w] = h
  BY Zenon, SMT, <1>1, <1>2 DEF ForkHandler
<1>5. /\ u \in Incoming /\ task[u].state = "active"
      /\ fork[w].sd \in reflected /\ fork[w].sd \in Streams
      /\ stream[fork[w].sd] = u
  BY Zenon, SMT, <1>2, <1>3 DEF ForkliftInv, Handling
<1>6. /\ status \in [Files -> Status] /\ sdHash \in [Files -> Streams \cup {NoStream}]
      /\ "processed" \in Status
  BY Zenon, SMT DEF ForkliftInv, ForkliftTypeOK, Status
<1>7. /\ status' \in [Files -> Status] /\ sdHash' \in [Files -> Streams \cup {NoStream}]
      /\ \A f \in Files : f # u => status'[f] = status[f] /\ sdHash'[f] = sdHash[f]
      /\ u \in Files => \/ status'[u] = "absent"
                        \/ status'[u] = "processed" /\ sdHash'[u] = fork[w].sd
  <2>1. CASE u \in Files /\ status[u] # "absent"
    BY Zenon, SMT, <1>5, <1>6, <2>1 DEF MarkUploadProcessed
  <2>2. CASE ~(u \in Files /\ status[u] # "absent")
    BY Zenon, SMT, <1>6, <2>2 DEF MarkUploadProcessed
  <2> QED BY Zenon, SMT, <2>1, <2>2
<1>8. Handling(w)'
  <2>1. /\ fork'[w].pc = "send" /\ fork'[w].upload = u /\ fork'[w].sd = fork[w].sd
        /\ task'[u].state = "active"
        /\ fork[w].sd \in reflected' /\ stream'[fork[w].sd] = u
    BY Zenon, SMT, <1>3, <1>4, <1>5
  <2>2. u \in Files => \/ status'[u] = "absent"
                       \/ status'[u] = "processed" /\ sdHash'[u] = fork[w].sd
    BY Zenon, SMT, <1>7
  <2> HIDE DEF h, u
  <2> QED BY Zenon, SMT, <1>5, <2>1, <2>2 DEF Handling, Busy
<1>9. /\ fork' \in [Workers -> ForkHandler]
      /\ \A v \in Workers : Handling(v)'
      /\ Alone'
      /\ DoneIsAnnounced'
  BY Zenon, SMT, <1>3, <1>4, <1>7, <1>8, StepKeeps
<1>10. ForkliftTypeOK'
  BY Zenon, SMT, <1>3, <1>7, <1>9 DEF ForkliftInv, ForkliftTypeOK
<1>11. AnnouncedIsReflected'
  BY Zenon, SMT, <1>3 DEF ForkliftInv, AnnouncedIsReflected
<1>12. SourceKeptUntilSaved'
  <2> SUFFICES ASSUME NEW f \in Files, object'[f] = "deleted", status'[f] # "absent"
               PROVE  /\ status'[f] = "processed"
                      /\ sdHash'[f] \in reflected'
                      /\ stream'[sdHash'[f]] = f
    BY Zenon, SMT DEF SourceKeptUntilSaved
  <2>1. CASE f = u
    BY Zenon, SMT, <1>3, <1>5, <1>7, <2>1
  <2>2. CASE f # u
    BY Zenon, SMT, <1>3, <1>7, <2>2 DEF ForkliftInv, SourceKeptUntilSaved
  <2> QED BY Zenon, SMT, <2>1, <2>2
<1> QED BY Zenon, SMT, <1>9, <1>10, <1>11, <1>12 DEF ForkliftInv

\* Announcing, with any of the three outcomes: the message names the reflected
\* stream; HandleURL returns, HandleUpload goes on to the deletion and remembers
\* whether the announcement went through.
LEMMA SendInv ==
  ASSUME ForkliftInv, NEW w \in Workers, Announce(w) \/ SendResponseLost(w)
  PROVE  ForkliftInv'
<1> DEFINE u == fork[w].upload
           msg == [upload |-> u, sd |-> fork[w].sd]
<1>1. fork \in [Workers -> ForkHandler] /\ fork[w] \in ForkHandler
  BY Zenon, SMT DEF ForkliftInv, ForkliftTypeOK
<1>2. PICK sent \in BOOLEAN :
        /\ AfterSend(w, sent)
        /\ announced' = announced \cup {msg} \/ (announced' = announced /\ ~sent)
        /\ fork[w].pc = "send"
        /\ UNCHANGED <<object, status, sdHash, stream, reflected>>
  BY Zenon, SMT DEF Announce, SendResponse, SendResponseUnsure, SendResponseLost, Announcement
<1>3. Busy(w)
  BY Zenon, SMT, <1>2 DEF Busy
<1>4. /\ u \in Incoming /\ task[u].state = "active"
      /\ fork[w].sd \in reflected /\ fork[w].sd \in Streams
      /\ stream[fork[w].sd] = u
  BY Zenon, SMT, <1>2, <1>3 DEF ForkliftInv, Handling
<1>5. /\ msg \in Message /\ msg.upload = u /\ msg.sd = fork[w].sd
      /\ announced \subseteq announced' /\ (sent => msg \in announced')
  BY Zenon, SMT, <1>2, <1>4 DEF Message
<1>6. /\ fork' \in [Workers -> ForkHandler]
      /\ task' \in [Incoming -> QueueTask]
      /\ \A v \in Workers : Handling(v)'
      /\ Alone'
      /\ DoneIsAnnounced'
  <2>1. CASE u \notin Files
    <3>1. Finish(w, sent)
      BY Zenon, SMT, <1>2, <2>1 DEF AfterSend
    <3>2. sent => \E m \in announced' : m.upload = fork[w].upload
      BY Zenon, SMT, <1>5
    <3> QED BY Zenon, SMT, <1>2, <1>3, <1>5, <3>1, <3>2, FinishKeeps
  <2>2. CASE u \in Files
    <3> DEFINE h == [fork[w] EXCEPT !.pc = "delete", !.sent = sent]
    <3>1. fork' = [fork EXCEPT ![w] = h] /\ UNCHANGED task
      BY Zenon, SMT, <1>2, <2>2 DEF AfterSend
    <3>2. /\ h \in ForkHandler /\ h.pc = "delete" /\ h.upload = u
          /\ h.sd = fork[w].sd /\ h.sent = sent /\ fork'[w] = h
      BY Zenon, SMT, <1>1, <3>1 DEF ForkHandler
    <3>3. \/ status[u] = "absent"
          \/ status[u] = "processed" /\ sdHash[u] = fork[w].sd
      BY Zenon, SMT, <1>2, <2>2 DEF ForkliftInv, Handling
    <3>4. Handling(w)'
      BY SMTT(60), SMTT(45), <1>2, <1>4, <1>5, <2>2, <3>1, <3>2, <3>3 DEF Handling, Busy
    <3>5. task \in [Incoming -> QueueTask]
      BY Zenon, SMT DEF ForkliftInv, ForkliftTypeOK
    <3> HIDE DEF h
    <3> QED BY Zenon, SMT, <1>2, <1>3, <1>5, <3>1, <3>2, <3>4, <3>5, StepKeeps
  <2> QED BY Zenon, SMT, <2>1, <2>2
<1>7. ForkliftTypeOK'
  BY Zenon, SMT, <1>2, <1>5, <1>6 DEF ForkliftInv, ForkliftTypeOK
<1>8. AnnouncedIsReflected'
  BY Zenon, SMT, <1>2, <1>4, <1>5 DEF ForkliftInv, AnnouncedIsReflected
<1>9. SourceKeptUntilSaved'
  BY Zenon, SMT, <1>2 DEF ForkliftInv, SourceKeptUntilSaved
<1> QED BY Zenon, SMT, <1>6, <1>7, <1>8, <1>9 DEF ForkliftInv

\* The object goes only after the row, if there is one, names the stream.
LEMMA DeleteInv ==
  ASSUME ForkliftInv, NEW w \in Workers, NEW ok \in BOOLEAN, DeleteObject(w, ok)
  PROVE  ForkliftInv'
<1> DEFINE u == fork[w].upload
<1>1. /\ fork[w].pc = "delete" /\ Finish(w, fork[w].sent)
      /\ UNCHANGED <<status, sdHash, stream, reflected, announced>>
  BY Zenon, SMT DEF DeleteObject
<1>2. Busy(w)
  BY Zenon, SMT, <1>1 DEF Busy
<1>3. Handling(w) /\ fork[w] \in ForkHandler
  BY Zenon, SMT DEF ForkliftInv, ForkliftTypeOK
<1>4. fork[w].sent \in BOOLEAN
  BY Zenon, SMT, <1>3 DEF ForkHandler
<1>5. /\ u \in Files /\ fork[w].sd \in reflected /\ stream[fork[w].sd] = u
      /\ fork[w].sent => [upload |-> u, sd |-> fork[w].sd] \in announced
      /\ \/ status[u] = "absent"
         \/ status[u] = "processed" /\ sdHash[u] = fork[w].sd
  BY Zenon, SMT, <1>1, <1>3 DEF Handling
<1>6. fork[w].sent => \E m \in announced' : m.upload = fork[w].upload
  BY Zenon, SMT, <1>1, <1>5
<1>7. /\ fork' \in [Workers -> ForkHandler]
      /\ task' \in [Incoming -> QueueTask]
      /\ \A v \in Workers : Handling(v)'
      /\ Alone'
      /\ DoneIsAnnounced'
  BY Zenon, SMT, <1>1, <1>2, <1>4, <1>6, FinishKeeps
<1>8. /\ object' \in [Files -> {"none", "stored", "deleted"}]
      /\ \A f \in Files : f # u => object'[f] = object[f]
  BY Zenon, SMT, <1>5 DEF ForkliftInv, ForkliftTypeOK, DeleteObject
<1>9. ForkliftTypeOK'
  BY Zenon, SMT, <1>1, <1>7, <1>8 DEF ForkliftInv, ForkliftTypeOK
<1>10. AnnouncedIsReflected'
  BY Zenon, SMT, <1>1 DEF ForkliftInv, AnnouncedIsReflected
<1>11. SourceKeptUntilSaved'
  <2> SUFFICES ASSUME NEW f \in Files, object'[f] = "deleted", status'[f] # "absent"
               PROVE  /\ status'[f] = "processed"
                      /\ sdHash'[f] \in reflected'
                      /\ stream'[sdHash'[f]] = f
    BY Zenon, SMT DEF SourceKeptUntilSaved
  <2>1. CASE f = u
    BY Zenon, SMT, <1>1, <1>5, <2>1
  <2>2. CASE f # u
    BY Zenon, SMT, <1>1, <1>8, <2>2 DEF ForkliftInv, SourceKeptUntilSaved
  <2> QED BY Zenon, SMT, <2>1, <2>2
<1> QED BY Zenon, SMT, <1>7, <1>9, <1>10, <1>11 DEF ForkliftInv

-----------------------------------------------------------------------------
\* Every step of forklift keeps the invariant.
LEMMA ForkliftStep == ForkliftInv /\ [ForkliftNext]_forkliftVars => ForkliftInv'
<1> SUFFICES ASSUME ForkliftInv, [ForkliftNext]_forkliftVars PROVE ForkliftInv'
  OBVIOUS
<1>1. CASE \E u \in Incoming : Receive(u)
  BY Zenon, SMT, <1>1, ReceiveInv
<1>2. CASE \E w \in Workers, u \in Incoming : StartUpload(w, u)
  BY Zenon, SMT, <1>2, StartUploadInv
<1>3. ASSUME NEW w \in Workers, Process(w) \/ Announce(w) \/ ForkCrash(w)
      PROVE  ForkliftInv'
  <2>1. CASE Announce(w) \/ SendResponseLost(w)
    BY Zenon, SMT, <2>1, SendInv
  <2>2. CASE ForkCrash(w) \/ Fails(w)
    BY Zenon, SMT, <2>2, GiveUpInv
  <2>3. CASE Retrieve(w) \/ Analyze(w)
    BY Zenon, SMT, <2>3, ReadInv
  <2>4. CASE Split(w)
    BY Zenon, SMT, <2>4, SplitInv
  <2>5. CASE Reflect(w)
    BY Zenon, SMT, <2>5, ReflectInv
  <2>6. CASE MarkUploadProcessed(w)
    BY Zenon, SMT, <2>6, MarkInv
  <2>7. CASE \E ok \in BOOLEAN : DeleteObject(w, ok)
    BY Zenon, SMT, <2>7, DeleteInv
  <2> QED BY Zenon, SMT, <1>3, <2>1, <2>2, <2>3, <2>4, <2>5, <2>6, <2>7 DEF Process
<1>4. CASE UNCHANGED forkliftVars
  <2> USE <1>4 DEF ForkliftInv, forkliftVars
  <2>1. ForkliftTypeOK'
    BY Zenon, SMT DEF ForkliftTypeOK
  <2>2. \A w \in Workers : Handling(w)'
    BY Zenon, SMT DEF Handling, Busy
  <2>3. Alone'
    BY Zenon, SMT DEF Alone, Busy
  <2>4. AnnouncedIsReflected' /\ DoneIsAnnounced'
    BY Zenon, SMT DEF AnnouncedIsReflected, DoneIsAnnounced
  <2>5. SourceKeptUntilSaved'
    BY Zenon, SMT DEF SourceKeptUntilSaved
  <2> QED BY Zenon, SMT, <2>1, <2>2, <2>3, <2>4, <2>5
<1> QED BY Zenon, SMT, <1>1, <1>2, <1>3, <1>4 DEF ForkliftNext

\* The invariant holds in every behaviour.
LEMMA ForkliftInvariance == ForkliftSpec => []ForkliftInv
<1>1. ForkliftInit => ForkliftInv
  BY Zenon, SMT, ForkliftInitInv
<1>2. ForkliftInv /\ [ForkliftNext]_forkliftVars => ForkliftInv'
  BY Zenon, SMT, ForkliftStep
<1> QED BY <1>1, <1>2, PTL DEF ForkliftSpec

\* For any number of uploads, workers and retries: what forklift announces, on
\* whichever attempt, is a stream of that upload whose blobs are all in the store;
\* the source of a recorded upload is deleted only once its row names such a
\* stream; and a task completes only after its announcement (HandleUpload).
THEOREM ForkliftSafety == ForkliftSpec => []ForkliftSafe
<1>1. ForkliftInv => ForkliftSafe
  BY Zenon, SMT DEF ForkliftInv, ForkliftSafe
<1> QED BY <1>1, ForkliftInvariance, PTL
=============================================================================
