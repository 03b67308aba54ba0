---------------------------- MODULE GeopublishProofs ----------------------------
(***************************************************************************)
(* Safety of publishing v3 for any number of uploads and users, any size,  *)
(* any number of retries and of faults.  An upload is followed through     *)
(* Notify and its task (Way), the calls of its task are accounted for      *)
(* (Calls), and a result on its way to the tables is backed by what the    *)
(* SDK did (Backed).  On top of that GeoOrder follows the events, the row  *)
(* and the single result of an upload (Recorded, Single, Finished).        *)
(***************************************************************************)
EXTENDS Geopublish, SequenceTheorems, TLAPS

\* Notify runs for a file that is complete and has no task yet; a task runs for
\* one that its owner's Notify has moved and recorded.
Way(i) ==
    /\ notify[i].pc # "idle" =>
          offset[i] = Size /\ notify[i].user \in Users /\ task[i].st = "none"
    /\ notify[i].pc \notin {"idle", "rename"} => file[i] = notify[i].user
    /\ notify[i].pc \in {"query", "enqueue", "failed"} => notify[i].user = Owner(i)
    /\ notify[i].pc = "enqueue" => pq[i] # "none"
    /\ task[i].st # "none" =>
          /\ offset[i] = Size /\ pq[i] # "none" /\ task[i].dir = Owner(i)
          /\ file[i] = Owner(i) \/ (file[i] = "removed" /\ i \in answered)
    /\ i \in accepted => task[i].st # "none"

\* A success that is not written yet, or whose task has not returned.
Spent(i) == \/ task[i].st = "active" /\ task[i].stage \in {"write", "done"}
            \/ task[i].st = "completed"

Calls(i) ==
    /\ published[i] <= 1 + repeatable[i]
    /\ ~Spent(i) => published[i] <= repeatable[i]
    /\ task[i].st = "active" /\ task[i].stage = "write" => published[i] > 0
    /\ task[i].st = "active" /\ task[i].resp # "none" => i \in answered
    /\ pq[i] = "succeeded" => published[i] > 0

Backed(r) ==
    /\ task[r.id].st # "none"
    /\ r.resp # "none" => r.id \in answered
    /\ ~r.err => published[r.id] > 0

\* What is in the list and what is being stored.
InList == \A k \in 1..Len(results) : Backed(results[k])
InHand == \A k \in 1..Len(got) : Backed(got[k]) /\ got[k] = got[1]
Stored == Len(got) = 2 => got[1].resp # "none"

GeoInv ==
    /\ GeoTypeOK
    /\ \A i \in UploadIDs : Way(i) /\ Calls(i)
    /\ InList /\ InHand /\ Stored

\* An event of an upload that the listener has not handled yet.
Pending(k, i) == Event(k, i) \in sent \/ listener = <<Event(k, i)>>

\* The row is inserted once, by the first event of the upload, and before its
\* task; the file of a terminated upload never gets a task.
Recorded(i) ==
    /\ Pending("created", i) => row[i] = "none" /\ file[i] # "none"
    /\ Event("created", i) \in sent => listener # <<Event("created", i)>>
    /\ file[i] = "none" => row[i] = "none"
    /\ row[i] = "none" => task[i].st = "none" /\ notify[i].pc \notin {"query", "enqueue", "failed"}
    /\ Pending("terminated", i) => file[i] = "removed" /\ task[i].st = "none"
    /\ notify[i].pc = "rename" => file[i] = "tus"

\* The task of an upload has written its result, or never will.
Over(i) == \/ task[i].st \in {"completed", "archived"}
           \/ task[i].st = "active" /\ task[i].stage \in {"done", "skip"}

Settled(i) == pq[i] \in {"succeeded", "failed"}
Listed(i) == \E k \in 1..Len(results) : results[k].id = i
Held(i) == got # <<>> /\ got[1].id = i
Excused(i) == i \in late \/ repeatable[i] > 0 \/ i \in lost

\* A task that is not repeated has one result: in the list, in hand or stored.
Single(i) ==
    /\ Settled(i) \/ Listed(i) \/ Held(i) => Over(i)
    /\ Settled(i) => ~Listed(i) /\ ~Held(i)
    /\ Held(i) => ~Listed(i)
    /\ \A k, l \in 1..Len(results) : results[k].id = i /\ results[l].id = i => k = l

Finished(i) == Settled(i) \/ (Held(i) /\ Len(got) = 2) => row[i] = "finished" \/ Excused(i)

GeoOrder ==
    \A i \in UploadIDs : Recorded(i) /\ (repeatable[i] = 0 => Single(i)) /\ Finished(i)

-----------------------------------------------------------------------------

\* Nothing is there at first.
LEMMA GeoInitInv == NewHandler => GeoInv
<1> SUFFICES ASSUME NewHandler PROVE GeoInv
  OBVIOUS
<1> USE GeoAssumption
<1>1. GeoTypeOK
  BY DEF NewHandler, NewForklift, GeoTypeOK, NoNotify, NoGeoTask, Tasks, TaskStates, Stages, Response,
     NotifyPlaces, Results, Events
<1>2. ASSUME NEW i \in UploadIDs PROVE Way(i) /\ Calls(i)
  BY DEF NewHandler, NewForklift, Way, Calls, Spent, NoNotify, NoGeoTask
<1>3. InList /\ InHand /\ Stored
  BY DEF NewHandler, NewForklift, InList, InHand, Stored
<1> QED BY Zenon, SMT, <1>1, <1>2, <1>3 DEF GeoInv

\* What is backed stays so while tasks do not vanish, and calls and answers
\* only grow.
LEMMA BackedStays ==
  ASSUME GeoInv, NEW r \in Results, Backed(r),
         \A i \in UploadIDs : /\ task[i].st # "none" => task'[i].st # "none"
                              /\ published'[i] >= published[i] /\ published'[i] \in Nat,
         answered \subseteq answered'
  PROVE  Backed(r)'
<1>1. r.id \in UploadIDs /\ published[r.id] \in Nat
  BY Zenon, SMT DEF Results, GeoInv, GeoTypeOK
<1> QED BY <1>1 DEF Backed

\* Faults are counted up to their bound.
LEMMA FaultType ==
  ASSUME GeoInv, Fault
  PROVE  faults' \in 0 .. MaxFaults
  BY GeoAssumption DEF Fault, GeoInv, GeoTypeOK

\* Steps of the listener of events change the row of an upload, no more.
LEMMA EventInv ==
  ASSUME GeoInv, EventSteps
  PROVE  GeoInv'
<1> USE GeoAssumption
<1>1. UNCHANGED <<file, offset, info, pq, notify, task, results, got, published, accepted, repeatable,
                  answered, lost>>
  BY Zenon, SMT DEF EventSteps, TakeEvent, HandleEvent, DropEvent, diskVars, dbVars
<1>2. GeoTypeOK'
  <2>1. CASE \E e \in Events : TakeEvent(e)
    <3>1. PICK e \in Events : TakeEvent(e)
      BY Zenon, SMT, <2>1
    <3>2. sent' \subseteq Events /\ listener' \in Seq(Events) /\ Len(listener') <= 1
      BY <3>1 DEF TakeEvent, GeoInv, GeoTypeOK
    <3>3. UNCHANGED <<row, faults, late>>
      BY Zenon, SMT, <3>1 DEF TakeEvent, dbVars
    <3> QED BY Zenon, SMT, <1>1, <3>2, <3>3 DEF GeoInv, GeoTypeOK
  <2>2. CASE HandleEvent
    <3>1. Head(listener) \in Events
      BY <2>2 DEF HandleEvent, GeoInv, GeoTypeOK
    <3>2. Marked(Head(listener)) \in {"none", "created", "uploading", "terminated"}
      BY Zenon, SMT, <3>1 DEF Marked, Events
    <3>3. /\ row' = [row EXCEPT ![Head(listener).id] = Marked(Head(listener))]
          /\ late' \subseteq late \cup {Head(listener).id}
          /\ listener' = <<>> /\ UNCHANGED <<sent, faults>>
      BY Zenon, SMT, <2>2 DEF HandleEvent
    <3>4. late' \subseteq UploadIDs
      BY Zenon, SMT, <3>1, <3>3 DEF Events, GeoInv, GeoTypeOK
    <3>5. row' \in [UploadIDs -> {"none", "created", "uploading", "received", "finished", "failed", "terminated"}]
      BY Zenon, SMT, <3>2, <3>3 DEF GeoInv, GeoTypeOK
    <3>6. listener' \in Seq(Events) /\ Len(listener') <= 1
      BY <3>3
    <3> QED BY Zenon, SMT, <1>1, <3>3, <3>4, <3>5, <3>6 DEF GeoInv, GeoTypeOK
  <2>3. CASE DropEvent
    <3>1. listener' \in Seq(Events) /\ Len(listener') <= 1 /\ faults' \in 0..MaxFaults
      BY <2>3 DEF DropEvent, Fault, GeoInv, GeoTypeOK
    <3>2. UNCHANGED <<sent, row, late>>
      BY Zenon, SMT, <2>3 DEF DropEvent, dbVars
    <3> QED BY Zenon, SMT, <1>1, <3>1, <3>2 DEF GeoInv, GeoTypeOK
  <2> QED BY Zenon, SMT, <2>1, <2>2, <2>3 DEF EventSteps
<1> QED BY ZenonT(30), SMTT(60), <1>1, <1>2 DEF GeoInv, Way, Calls, Spent, InList, InHand, Stored, Backed

\* An upload whose state is not touched keeps its invariant.
LEMMA OtherKept ==
  ASSUME NEW j \in UploadIDs, Way(j), Calls(j),
         notify'[j] = notify[j], task'[j] = task[j], file'[j] = file[j],
         offset'[j] = offset[j], pq'[j] = pq[j], published'[j] = published[j],
         repeatable'[j] = repeatable[j],
         j \in accepted' <=> j \in accepted, j \in answered' <=> j \in answered
  PROVE  Way(j)' /\ Calls(j)'
  BY DEF Way, Calls, Spent

\* With the results and the calls as they are, they stay backed.
LEMMA ResultsKept ==
  ASSUME GeoInv, UNCHANGED <<results, got, published, answered>>,
         \A i \in UploadIDs : task[i].st # "none" => task'[i].st # "none"
  PROVE  InList' /\ InHand' /\ Stored'
<1>1. \A r \in Results : Backed(r) => Backed(r)'
  BY Zenon, SMT DEF Backed, Results
<1>2. \A k \in 1..Len(results) : results[k] \in Results
  BY DEF GeoInv, GeoTypeOK
<1>3. \A k \in 1..Len(got) : got[k] \in Results
  BY DEF GeoInv, GeoTypeOK
<1> QED BY Zenon, SMT, <1>1, <1>2, <1>3 DEF GeoInv, InList, InHand, Stored

-----------------------------------------------------------------------------
(* The requests of the client.                                             *)

\* What the file of an upload with a task, or under Notify, can not be.
LEMMA FileFacts ==
  ASSUME GeoInv, NEW i \in UploadIDs
  PROVE  /\ file[i] \in {"none", "tus"} => task[i].st = "none"
         /\ file[i] \in {"none", "tus"} => notify[i].pc \in {"idle", "rename"}
         /\ offset[i] < Size => task[i].st = "none" /\ notify[i].pc = "idle"
         /\ Owner(i) \in Users
<1> USE GeoAssumption
<1>1. Way(i) /\ Owner(i) \in Users /\ offset[i] \in Nat
  BY DEF GeoInv, GeoTypeOK
<1> QED BY <1>1 DEF Way

\* POST, PATCH and DELETE reach an upload only while it has no task.
LEMMA TusInv ==
  ASSUME GeoInv, NEW i \in UploadIDs, PostFile(i) \/ PatchFile(i) \/ DelFile(i)
  PROVE  GeoInv'
<1> USE GeoAssumption
<1>1. UNCHANGED <<listener, row, pq, notify, task, results, got, published, faults, accepted,
                  repeatable, answered, late, lost>>
  BY Zenon, SMT DEF PostFile, PatchFile, DelFile, dbVars
<1>2. /\ file' \in [UploadIDs -> {"none", "tus", "removed"} \cup Users]
      /\ offset' \in [UploadIDs -> 0 .. Size]
      /\ info' \in [UploadIDs -> BOOLEAN]
      /\ \A j \in UploadIDs : j # i => file'[j] = file[j] /\ offset'[j] = offset[j]
  <2>1. CASE PostFile(i)
    BY Zenon, SMT, <2>1 DEF PostFile, GeoInv, GeoTypeOK
  <2>2. CASE PatchFile(i)
    BY SMTT(60), SMTT(45), <2>2 DEF PatchFile, GeoInv, GeoTypeOK
  <2>3. CASE DelFile(i)
    BY Zenon, SMT, <2>3 DEF DelFile, GeoInv, GeoTypeOK
  <2> QED BY Zenon, SMT, <2>1, <2>2, <2>3
<1>3. sent' \subseteq Events
  BY DEF PostFile, PatchFile, DelFile, GeoInv, GeoTypeOK, Event, Events
<1>4. GeoTypeOK'
  BY Zenon, SMT, <1>1, <1>2, <1>3 DEF GeoInv, GeoTypeOK
<1>5. task[i].st = "none"
  BY Zenon, SMT, FileFacts DEF PostFile, PatchFile, DelFile, GetUpload
<1>6. \/ notify[i].pc = "idle"
      \/ notify[i].pc = "rename" /\ offset'[i] = offset[i]
  BY Zenon, SMT, FileFacts DEF PostFile, PatchFile, DelFile, Reachable, Locked
<1>7. ASSUME NEW j \in UploadIDs PROVE Way(j)' /\ Calls(j)'
  <2>1. Way(j) /\ Calls(j)
    BY Zenon, SMT DEF GeoInv
  <2>2. CASE j = i
    BY Zenon, SMT, <1>1, <1>5, <1>6, <2>1, <2>2 DEF Way, Calls, Spent
  <2>3. CASE j # i
    BY Zenon, SMT, <1>1, <1>2, <2>1, <2>3, OtherKept
  <2> QED BY Zenon, SMT, <2>2, <2>3
<1>8. InList' /\ InHand' /\ Stored'
  BY Zenon, SMT, <1>1, ResultsKept
<1> QED BY Zenon, SMT, <1>4, <1>7, <1>8 DEF GeoInv

-----------------------------------------------------------------------------
(* Notify.                                                                 *)

\* A request moves on, or away, and touches nothing else of what Way says.
LEMMA NotifyMoveInv ==
  ASSUME GeoInv, NEW i \in UploadIDs,
         UNCHANGED <<offset, listener, sent, pq, task, results, got, published,
                     accepted, repeatable, answered, late, lost>>,
         GeoTypeOK',
         \A j \in UploadIDs : j # i => notify'[j] = notify[j] /\ file'[j] = file[j],
         Way(i)'
  PROVE  GeoInv'
<1>1. ASSUME NEW j \in UploadIDs PROVE Way(j)' /\ Calls(j)'
  <2>1. Way(j) /\ Calls(j)
    BY Zenon, SMT DEF GeoInv
  <2>2. CASE j = i
    BY Zenon, SMT, <2>1, <2>2 DEF Calls, Spent
  <2>3. CASE j # i
    BY Zenon, SMT, <2>1, <2>3, OtherKept
  <2> QED BY Zenon, SMT, <2>2, <2>3
<1>2. InList' /\ InHand' /\ Stored'
  BY Zenon, SMT, ResultsKept
<1> QED BY Zenon, SMT, <1>1, <1>2 DEF GeoInv

\* The request leaves: Way asks nothing of an upload without one.
LEMMA LeaveFacts ==
  ASSUME GeoInv, NEW i \in UploadIDs, Leave(i)
  PROVE  /\ notify' \in [UploadIDs -> [pc : NotifyPlaces, user : Users \cup {NoUser}]]
         /\ notify'[i].pc = "idle"
         /\ \A j \in UploadIDs : j # i => notify'[j] = notify[j]
<1>1. NoNotify \in [pc : NotifyPlaces, user : Users \cup {NoUser}] /\ NoNotify.pc = "idle"
  BY Zenon, SMT DEF NoNotify, NotifyPlaces
<1> QED BY Zenon, SMT, <1>1 DEF Leave, GeoInv, GeoTypeOK

\* The request goes on with the user it has.
LEMMA GoToFacts ==
  ASSUME GeoInv, NEW i \in UploadIDs, NEW pc \in NotifyPlaces, GoTo(i, pc)
  PROVE  /\ notify' \in [UploadIDs -> [pc : NotifyPlaces, user : Users \cup {NoUser}]]
         /\ notify'[i].pc = pc /\ notify'[i].user = notify[i].user
         /\ \A j \in UploadIDs : j # i => notify'[j] = notify[j]
  BY Zenon, SMT DEF GoTo, GeoInv, GeoTypeOK

\* Notify begins, for a file that is where tusd wrote it.
LEMMA StartNotifyInv ==
  ASSUME GeoInv, NEW i \in UploadIDs, NEW u \in Users, StartNotify(i, u)
  PROVE  GeoInv'
<1> USE GeoAssumption
<1>1. /\ notify' \in [UploadIDs -> [pc : NotifyPlaces, user : Users \cup {NoUser}]]
      /\ notify'[i].pc = "rename" /\ notify'[i].user = u
      /\ \A j \in UploadIDs : j # i => notify'[j] = notify[j]
  <2>1. [pc |-> "rename", user |-> u] \in [pc : NotifyPlaces, user : Users \cup {NoUser}]
    BY Zenon, SMT DEF NotifyPlaces
  <2> QED BY Zenon, SMT, <2>1 DEF StartNotify, GeoInv, GeoTypeOK
<1>2. UNCHANGED <<file, offset, info, sent, listener, row, pq, task, results, got, published, faults,
                  accepted, repeatable, answered, late, lost>>
  BY Zenon, SMT DEF StartNotify, diskVars, dbVars
<1>3. GeoTypeOK'
  BY Zenon, SMT, <1>1, <1>2 DEF GeoInv, GeoTypeOK
<1>4. task[i].st = "none" /\ offset[i] = Size
  BY Zenon, SMT, FileFacts DEF StartNotify, GetUpload
<1>5. Way(i)'
  <2>1. Way(i)
    BY Zenon, SMT DEF GeoInv
  <2> QED BY Zenon, SMT, <1>1, <1>2, <1>4, <2>1 DEF Way
<1> QED BY Zenon, SMT, <1>1, <1>2, <1>3, <1>5, NotifyMoveInv

\* The file is moved to the directory of the user.
LEMMA RenameInv ==
  ASSUME GeoInv, NEW i \in UploadIDs, Rename(i)
  PROVE  GeoInv'
<1> USE GeoAssumption
<1>1. /\ notify' \in [UploadIDs -> [pc : NotifyPlaces, user : Users \cup {NoUser}]]
      /\ notify'[i].pc = "decode" /\ notify'[i].user = notify[i].user
      /\ \A j \in UploadIDs : j # i => notify'[j] = notify[j]
  <2>1. "decode" \in NotifyPlaces
    BY Zenon, SMT DEF NotifyPlaces
  <2> QED BY Zenon, SMT, <2>1, GoToFacts DEF Rename
<1>2. UNCHANGED <<offset, info, sent, listener, row, pq, task, results, got, published, faults,
                  accepted, repeatable, answered, late, lost>>
  BY Zenon, SMT DEF Rename, dbVars
<1>3. Way(i) /\ notify[i].pc = "rename"
  BY Zenon, SMT DEF GeoInv, Rename, At
<1>4. notify[i].user \in Users /\ task[i].st = "none" /\ offset[i] = Size
  BY Zenon, SMT, <1>3 DEF Way
<1>5. /\ file' \in [UploadIDs -> {"none", "tus", "removed"} \cup Users]
      /\ file'[i] = notify[i].user
      /\ \A j \in UploadIDs : j # i => file'[j] = file[j]
  BY Zenon, SMT, <1>4 DEF Rename, GeoInv, GeoTypeOK
<1>6. GeoTypeOK'
  BY Zenon, SMT, <1>1, <1>2, <1>5 DEF GeoInv, GeoTypeOK
<1>7. Way(i)'
  BY Zenon, SMT, <1>1, <1>2, <1>3, <1>4, <1>5 DEF Way
<1> QED BY Zenon, SMT, <1>1, <1>2, <1>5, <1>6, <1>7, NotifyMoveInv

\* Steps of Notify on the way to the publish query, and all that give up.
LEMMA NotifyStepInv ==
  ASSUME GeoInv, NEW i \in UploadIDs,
         \/ DecodeFails(i) \/ Decode(i) \/ RemoveInfo(i) \/ ProcessUpload(i)
         \/ ProcessUploadFails(i) \/ EnqueueFails(i) \/ EnqueueFailed(i)
  PROVE  GeoInv'
<1> USE GeoAssumption
<1>1. UNCHANGED <<file, offset, sent, listener, pq, task, results, got, published,
                  accepted, repeatable, answered, late, lost>>
  BY Zenon, SMT DEF DecodeFails, Decode, RemoveInfo, ProcessUpload, ProcessUploadFails, EnqueueFails,
     EnqueueFailed, diskVars, dbVars
<1>2. /\ info' \in [UploadIDs -> BOOLEAN] /\ faults' \in 0 .. MaxFaults
      /\ row' \in [UploadIDs -> {"none", "created", "uploading", "received", "finished", "failed", "terminated"}]
  <2>1. CASE DecodeFails(i) \/ Decode(i)
    BY Zenon, SMT, <2>1 DEF DecodeFails, Decode, GeoInv, GeoTypeOK, diskVars, dbVars
  <2>2. CASE RemoveInfo(i)
    <3>1. row' = row /\ (faults' = faults \/ Fault) /\ info' \in {info, [info EXCEPT ![i] = FALSE]}
      BY Zenon, SMT, <2>2 DEF RemoveInfo, dbVars
    <3> QED BY Zenon, SMT, <3>1, FaultType DEF GeoInv, GeoTypeOK
  <2>3. CASE ProcessUpload(i)
    BY Zenon, SMT, <2>3 DEF ProcessUpload, GeoInv, GeoTypeOK, diskVars
  <2>4. CASE ProcessUploadFails(i) \/ EnqueueFails(i)
    BY SMTT(60), SMTT(45), <2>4 DEF ProcessUploadFails, EnqueueFails, Fault, GeoInv, GeoTypeOK, diskVars, dbVars
  <2>5. CASE EnqueueFailed(i)
    <3>1. info' = info /\ (faults' = faults \/ Fault) /\ row' \in {row, [row EXCEPT ![i] = "failed"]}
      BY Zenon, SMT, <2>5 DEF EnqueueFailed, diskVars
    <3> QED BY Zenon, SMT, <3>1, FaultType DEF GeoInv, GeoTypeOK
  <2> QED BY Zenon, SMT, <2>1, <2>2, <2>3, <2>4, <2>5
<1>3. {"remove", "process", "query", "failed"} \subseteq NotifyPlaces
  BY Zenon, SMT DEF NotifyPlaces
<1>4. /\ notify' \in [UploadIDs -> [pc : NotifyPlaces, user : Users \cup {NoUser}]]
      /\ \A j \in UploadIDs : j # i => notify'[j] = notify[j]
      /\ \/ notify'[i].pc = "idle"
         \/ /\ notify'[i].user = notify[i].user
            /\ notify[i].pc \notin {"idle", "rename"}
            /\ \/ notify'[i].pc \in {"remove", "process"}
               \/ notify'[i].pc = "query" /\ Owner(i) = notify[i].user
               \/ notify'[i].pc = "failed" /\ notify[i].pc = "enqueue"
  <2>1. CASE DecodeFails(i) \/ ProcessUploadFails(i) \/ EnqueueFailed(i)
    BY Zenon, SMT, <2>1, LeaveFacts DEF DecodeFails, ProcessUploadFails, EnqueueFailed
  <2>2. CASE Decode(i)
    BY Zenon, SMT, <1>3, <2>2, GoToFacts DEF Decode, At
  <2>3. CASE RemoveInfo(i)
    BY Zenon, SMT, <1>3, <2>3, GoToFacts DEF RemoveInfo, At
  <2>4. CASE ProcessUpload(i)
    BY Zenon, SMT, <1>3, <2>4, GoToFacts DEF ProcessUpload, At, GetOwn
  <2>5. CASE EnqueueFails(i)
    BY Zenon, SMT, <1>3, <2>5, GoToFacts DEF EnqueueFails, At
  <2> QED BY Zenon, SMT, <2>1, <2>2, <2>3, <2>4, <2>5
<1>5. GeoTypeOK'
  BY Zenon, SMT, <1>1, <1>2, <1>4 DEF GeoInv, GeoTypeOK
<1>6. Way(i)'
  <2>1. Way(i)
    BY Zenon, SMT DEF GeoInv
  <2> QED BY Zenon, SMT, <1>1, <1>4, <2>1 DEF Way
<1> QED BY Zenon, SMT, <1>1, <1>4, <1>5, <1>6, NotifyMoveInv

\* The publish query of an upload is inserted by the owner's request.
LEMMA SetPublishQueryInv ==
  ASSUME GeoInv, NEW i \in UploadIDs, SetPublishQuery(i)
  PROVE  GeoInv'
<1> USE GeoAssumption
<1>1. UNCHANGED <<file, offset, info, sent, listener, row, task, results, got, published,
                  accepted, repeatable, answered, late, lost>>
  BY Zenon, SMT DEF SetPublishQuery, diskVars
<1>2. /\ faults' \in 0 .. MaxFaults
      /\ pq' \in [UploadIDs -> {"none", "received", "succeeded", "failed"}]
      /\ \A j \in UploadIDs : j # i => pq'[j] = pq[j]
      /\ \/ pq'[i] = pq[i] /\ Leave(i)
         \/ pq[i] = "none" /\ pq'[i] = "received" /\ GoTo(i, "enqueue")
  <2>1. /\ faults' = faults \/ Fault
        /\ \/ pq' = pq /\ Leave(i)
           \/ pq[i] = "none" /\ pq' = [pq EXCEPT ![i] = "received"] /\ GoTo(i, "enqueue")
    BY Zenon, SMT DEF SetPublishQuery
  <2>2. pq \in [UploadIDs -> {"none", "received", "succeeded", "failed"}]
    BY Zenon, SMT DEF GeoInv, GeoTypeOK
  <2>3. faults' \in 0 .. MaxFaults
    BY Zenon, SMT, <2>1, FaultType DEF GeoInv, GeoTypeOK
  <2> QED BY Zenon, SMT, <2>1, <2>2, <2>3
<1>3. notify[i].pc = "query" /\ "enqueue" \in NotifyPlaces
  BY Zenon, SMT DEF SetPublishQuery, At, NotifyPlaces
<1>4. /\ notify' \in [UploadIDs -> [pc : NotifyPlaces, user : Users \cup {NoUser}]]
      /\ \A j \in UploadIDs : j # i => notify'[j] = notify[j]
      /\ \/ notify'[i].pc = "idle" /\ pq'[i] = pq[i]
         \/ /\ notify'[i].user = notify[i].user /\ notify'[i].pc = "enqueue"
            /\ pq'[i] = "received"
  BY Zenon, SMT, <1>2, <1>3, GoToFacts, LeaveFacts
<1>5. GeoTypeOK'
  BY Zenon, SMT, <1>1, <1>2, <1>4 DEF GeoInv, GeoTypeOK
<1>6. ASSUME NEW j \in UploadIDs PROVE Way(j)' /\ Calls(j)'
  <2>1. Way(j) /\ Calls(j)
    BY Zenon, SMT DEF GeoInv
  <2>2. CASE j = i
    BY Zenon, SMT, <1>1, <1>3, <1>4, <2>1, <2>2 DEF Way, Calls, Spent
  <2>3. CASE j # i
    BY Zenon, SMT, <1>1, <1>2, <1>4, <2>1, <2>3, OtherKept
  <2> QED BY Zenon, SMT, <2>2, <2>3
<1>7. InList' /\ InHand' /\ Stored'
  BY Zenon, SMT, <1>1, ResultsKept
<1> QED BY Zenon, SMT, <1>5, <1>6, <1>7 DEF GeoInv

\* The upload gets its task, and Notify is answered 202.
LEMMA EnqueueInv ==
  ASSUME GeoInv, NEW i \in UploadIDs, Enqueue(i)
  PROVE  GeoInv'
<1> USE GeoAssumption
<1>1. UNCHANGED <<file, offset, info, sent, listener, row, pq, results, got, published, faults,
                  repeatable, answered, late, lost>>
  BY Zenon, SMT DEF Enqueue, diskVars, dbVars
<1>2. Way(i) /\ Calls(i) /\ notify[i].pc = "enqueue" /\ task[i].st = "none"
  BY Zenon, SMT DEF GeoInv, Enqueue, At
<1>3. /\ notify[i].user \in Users /\ notify[i].user = Owner(i) /\ file[i] = Owner(i)
      /\ offset[i] = Size /\ pq[i] # "none"
  BY Zenon, SMT, <1>2 DEF Way
<1> DEFINE new == [NoGeoTask EXCEPT !.st = "pending", !.dir = notify[i].user]
<1>4. /\ new \in Tasks /\ new.st = "pending" /\ new.dir = Owner(i)
  <2>1. NoGeoTask \in Tasks
    BY DEF NoGeoTask, Tasks, TaskStates, Stages, Response
  <2> QED BY Zenon, SMT, <1>3, <2>1 DEF Tasks, TaskStates
<1>5. task' = [task EXCEPT ![i] = new] /\ accepted' = accepted \cup {i}
  BY Zenon, SMT DEF Enqueue
<1> HIDE DEF new
<1>6. /\ task' \in [UploadIDs -> Tasks] /\ task'[i].st = "pending" /\ task'[i].dir = Owner(i)
      /\ \A j \in UploadIDs : j # i => task'[j] = task[j]
  BY Zenon, SMT, <1>4, <1>5 DEF GeoInv, GeoTypeOK
<1>7. /\ notify' \in [UploadIDs -> [pc : NotifyPlaces, user : Users \cup {NoUser}]]
      /\ notify'[i].pc = "idle"
      /\ \A j \in UploadIDs : j # i => notify'[j] = notify[j]
  BY Zenon, SMT, LeaveFacts DEF Enqueue
<1>8. GeoTypeOK'
  BY Zenon, SMT, <1>1, <1>5, <1>6, <1>7 DEF GeoInv, GeoTypeOK
<1>9. ASSUME NEW j \in UploadIDs PROVE Way(j)' /\ Calls(j)'
  <2>1. CASE j = i
    <3>1. Way(i)'
      BY Zenon, SMT, <1>1, <1>3, <1>6, <1>7 DEF Way
    <3>2. Calls(i)'
      BY Zenon, SMT, <1>1, <1>2, <1>6 DEF Calls, Spent
    <3> QED BY Zenon, SMT, <2>1, <3>1, <3>2
  <2>2. CASE j # i
    <3>1. Way(j) /\ Calls(j)
      BY Zenon, SMT DEF GeoInv
    <3> QED BY Zenon, SMT, <1>1, <1>5, <1>6, <1>7, <2>2, <3>1, OtherKept
  <2> QED BY Zenon, SMT, <2>1, <2>2
<1>10. InList' /\ InHand' /\ Stored'
  BY Zenon, SMT, <1>1, <1>6, ResultsKept
<1> QED BY Zenon, SMT, <1>8, <1>9, <1>10 DEF GeoInv

-----------------------------------------------------------------------------
(* The worker.                                                             *)

\* Steps of a task leave alone what Way says of its upload and of the others.
LEMMA TaskInv ==
  ASSUME GeoInv, NEW i \in UploadIDs,
         UNCHANGED <<file, offset, info, sent, listener, row, pq, notify, got, accepted, late>>,
         task' \in [UploadIDs -> Tasks],
         task[i].st # "none", task'[i].st # "none", task'[i].dir = task[i].dir,
         \A j \in UploadIDs : j # i => /\ task'[j] = task[j]
                                       /\ published'[j] = published[j]
                                       /\ repeatable'[j] = repeatable[j]
                                       /\ j \in answered' <=> j \in answered,
         answered \subseteq answered', answered' \subseteq UploadIDs,
         published'[i] >= published[i],
         published' \in [UploadIDs -> Nat], repeatable' \in [UploadIDs -> Nat],
         results' \in Seq(Results), faults' \in 0 .. MaxFaults, lost' \subseteq UploadIDs,
         Calls(i)', InList'
  PROVE  GeoInv'
<1>1. GeoTypeOK'
  BY Zenon, SMT DEF GeoInv, GeoTypeOK
<1>2. ASSUME NEW j \in UploadIDs PROVE Way(j)' /\ Calls(j)'
  <2>1. Way(j) /\ Calls(j)
    BY Zenon, SMT DEF GeoInv
  <2>2. CASE j = i
    BY Zenon, SMT, <2>1, <2>2 DEF Way
  <2>3. CASE j # i
    BY Zenon, SMT, <2>1, <2>3, OtherKept
  <2> QED BY Zenon, SMT, <2>2, <2>3
<1>3. \A r \in Results : Backed(r) => Backed(r)'
  <2>1. ASSUME NEW j \in UploadIDs
        PROVE  /\ task[j].st # "none" => task'[j].st # "none"
               /\ published'[j] >= published[j] /\ published'[j] \in Nat
    <3>1. published[j] \in Nat /\ published'[j] \in Nat
      BY Zenon, SMT DEF GeoInv, GeoTypeOK
    <3>2. CASE j = i
      BY Zenon, SMT, <3>1, <3>2
    <3>3. CASE j # i
      BY <3>1, <3>3
    <3> QED BY Zenon, SMT, <3>2, <3>3
  <2> QED BY Zenon, SMT, <2>1, BackedStays
<1>4. \A k \in 1..Len(got) : got[k] \in Results
  BY DEF GeoInv, GeoTypeOK
<1>5. InHand' /\ Stored'
  BY Zenon, SMT, <1>3, <1>4 DEF GeoInv, InHand, Stored
<1> QED BY Zenon, SMT, <1>1, <1>2, <1>5 DEF GeoInv

\* The list as it is stays backed under the steps of a task.
LEMMA ListStays ==
  ASSUME GeoInv, results' = results,
         \A j \in UploadIDs : /\ task[j].st # "none" => task'[j].st # "none"
                              /\ published'[j] >= published[j] /\ published'[j] \in Nat,
         answered \subseteq answered'
  PROVE  InList'
<1>1. \A k \in 1..Len(results) : results[k] \in Results /\ Backed(results[k])
  BY DEF GeoInv, GeoTypeOK, InList
<1> QED BY Zenon, SMT, <1>1, BackedStays DEF InList

\* A task is a record of these five.
LEMMA TaskRecord ==
  ASSUME GeoInv, NEW i \in UploadIDs
  PROVE  /\ task[i] = [st |-> task[i].st, tries |-> task[i].tries, stage |-> task[i].stage,
                       resp |-> task[i].resp, dir |-> task[i].dir]
         /\ task[i].st \in TaskStates /\ task[i].tries \in 0 .. MaxRetry
         /\ task[i].stage \in Stages /\ task[i].resp \in Response
         /\ task[i].dir \in Users \cup {NoUser}
         /\ task \in [UploadIDs -> Tasks]
  BY Zenon, SMT DEF GeoInv, GeoTypeOK, Tasks

\* Step and StepResp in these terms.
LEMMA StepFacts ==
  ASSUME GeoInv, NEW i \in UploadIDs, NEW stage \in Stages, NEW resp \in Response,
         \/ StepResp(i, stage, resp)
         \/ Step(i, stage) /\ resp = task[i].resp
  PROVE  /\ task' \in [UploadIDs -> Tasks]
         /\ task'[i].st = task[i].st /\ task'[i].stage = stage /\ task'[i].resp = resp
         /\ task'[i].dir = task[i].dir
         /\ \A j \in UploadIDs : j # i => task'[j] = task[j]
<1>1. task \in [UploadIDs -> Tasks]
  BY Zenon, SMT, TaskRecord
<1>2. CASE StepResp(i, stage, resp)
  BY ZenonT(30), SMTT(60), <1>1, <1>2 DEF StepResp, Tasks
<1>3. CASE Step(i, stage) /\ resp = task[i].resp
  BY Zenon, SMT, <1>1, <1>3 DEF Step, Tasks
<1> QED BY Zenon, SMT, <1>2, <1>3

\* The worker takes a task: its calls are what they were.
LEMMA StartTaskInv ==
  ASSUME GeoInv, NEW i \in UploadIDs, StartTask(i)
  PROVE  GeoInv'
<1> USE GeoAssumption
<1>1. UNCHANGED <<file, offset, info, sent, listener, row, pq, notify, results, got, published, faults,
                  accepted, repeatable, answered, late, lost>>
  BY Zenon, SMT DEF StartTask, diskVars, dbVars
<1>2. /\ task' \in [UploadIDs -> Tasks]
      /\ task'[i].st = "active" /\ task'[i].stage = "analyze" /\ task'[i].resp = "none"
      /\ task'[i].dir = task[i].dir
      /\ \A j \in UploadIDs : j # i => task'[j] = task[j]
  <2>1. "active" \in TaskStates /\ "analyze" \in Stages /\ "none" \in Response
    BY Zenon, SMT DEF TaskStates, Stages, Response
  <2>2. task \in [UploadIDs -> Tasks]
    BY Zenon, SMT, TaskRecord
  <2> QED BY ZenonT(30), SMTT(60), <2>1, <2>2 DEF StartTask, Tasks
<1>3. task[i].st \in {"pending", "retry"}
  BY Zenon, SMT DEF StartTask
<1>4. Calls(i)
  BY Zenon, SMT DEF GeoInv
<1>5. Calls(i)'
  BY Zenon, SMT, <1>1, <1>2, <1>3, <1>4 DEF Calls, Spent
<1>6. InList'
  BY Zenon, SMT, <1>1, <1>2, ResultsKept
<1>7. published[i] \in Nat
  BY Zenon, SMT DEF GeoInv, GeoTypeOK
<1>8. /\ published' \in [UploadIDs -> Nat] /\ repeatable' \in [UploadIDs -> Nat]
      /\ results' \in Seq(Results) /\ faults' \in 0 .. MaxFaults
      /\ lost' \subseteq UploadIDs /\ answered' \subseteq UploadIDs
  BY Zenon, SMT, <1>1 DEF GeoInv, GeoTypeOK
<1>9. /\ \A j \in UploadIDs : j # i => /\ task'[j] = task[j]
                                       /\ published'[j] = published[j]
                                       /\ repeatable'[j] = repeatable[j]
                                       /\ j \in answered' <=> j \in answered
      /\ answered \subseteq answered' /\ published'[i] >= published[i]
      /\ task[i].st # "none" /\ task'[i].st # "none"
  BY SMTT(60), SMTT(45), <1>1, <1>2, <1>3, <1>7
<1> QED BY Zenon, SMT, <1>1, <1>2, <1>5, <1>6, <1>8, <1>9, TaskInv

\* Analyze and Reflect only move the task on.
LEMMA PrepareInv ==
  ASSUME GeoInv, NEW i \in UploadIDs, Analyze(i) \/ Reflect(i)
  PROVE  GeoInv'
<1> USE GeoAssumption
<1>1. UNCHANGED <<file, offset, info, sent, listener, row, pq, notify, results, got, published, faults,
                  accepted, repeatable, answered, late, lost>>
  BY Zenon, SMT DEF Analyze, Reflect, diskVars, dbVars
<1>2. task[i].st = "active" /\ task[i].stage \in {"analyze", "reflect"}
  BY Zenon, SMT DEF Analyze, Reflect, Running
<1>3. PICK s \in {"reflect", "call", "fatal", "again"} : Step(i, s)
  <2>1. CASE Analyze(i)
    BY Zenon, SMT, <2>1 DEF Analyze
  <2>2. CASE Reflect(i)
    BY Zenon, SMT, <2>2 DEF Reflect
  <2> QED BY Zenon, SMT, <2>1, <2>2
<1>4. s \in Stages /\ task[i].resp \in Response
  BY Zenon, SMT, TaskRecord DEF Stages
<1>5. /\ task' \in [UploadIDs -> Tasks]
      /\ task'[i].st = task[i].st /\ task'[i].stage = s /\ task'[i].resp = task[i].resp
      /\ task'[i].dir = task[i].dir
      /\ \A j \in UploadIDs : j # i => task'[j] = task[j]
  BY Zenon, SMT, <1>3, <1>4, StepFacts
<1>6. Calls(i)
  BY Zenon, SMT DEF GeoInv
<1>7. Calls(i)'
  BY Zenon, SMT, <1>1, <1>2, <1>5, <1>6 DEF Calls, Spent
<1>8. InList'
  BY Zenon, SMT, <1>1, <1>2, <1>5, ResultsKept
<1>9. published[i] \in Nat
  BY Zenon, SMT DEF GeoInv, GeoTypeOK
<1>10. /\ published' \in [UploadIDs -> Nat] /\ repeatable' \in [UploadIDs -> Nat]
       /\ results' \in Seq(Results) /\ faults' \in 0 .. MaxFaults
       /\ lost' \subseteq UploadIDs /\ answered' \subseteq UploadIDs
  BY Zenon, SMT, <1>1 DEF GeoInv, GeoTypeOK
<1>11. /\ \A j \in UploadIDs : j # i => /\ task'[j] = task[j]
                                        /\ published'[j] = published[j]
                                        /\ repeatable'[j] = repeatable[j]
                                        /\ j \in answered' <=> j \in answered
       /\ answered \subseteq answered' /\ published'[i] >= published[i]
       /\ task[i].st # "none" /\ task'[i].st # "none"
  BY SMTT(60), SMTT(45), <1>1, <1>2, <1>5, <1>9
<1> QED BY Zenon, SMT, <1>1, <1>5, <1>7, <1>8, <1>10, <1>11, TaskInv

\* The call: what the SDK carries out is accounted for by the stage "write" or
\* by a reason to repeat it.
LEMMA CallSDKInv ==
  ASSUME GeoInv, NEW i \in UploadIDs, CallSDK(i)
  PROVE  GeoInv'
<1> USE GeoAssumption
<1>1. UNCHANGED <<file, offset, info, sent, listener, row, pq, notify, results, got, accepted, late, lost>>
  BY Zenon, SMT DEF CallSDK, diskVars, dbVars
<1>2. task[i].st = "active" /\ task[i].stage = "call"
  BY Zenon, SMT DEF CallSDK, Running
<1>3. /\ published \in [UploadIDs -> Nat] /\ repeatable \in [UploadIDs -> Nat]
      /\ answered \subseteq UploadIDs /\ task[i].resp \in Response
      /\ {"fatal", "again", "write"} \subseteq Stages /\ {"ok", "error"} \subseteq Response
  BY Zenon, SMT, TaskRecord DEF GeoInv, GeoTypeOK, Stages, Response
<1>4. published[i] \in Nat /\ repeatable[i] \in Nat /\ published[i] <= repeatable[i] /\ Calls(i)
  BY Zenon, SMT, <1>2, <1>3 DEF GeoInv, Calls, Spent
<1>5. /\ published' \in [UploadIDs -> Nat] /\ repeatable' \in [UploadIDs -> Nat]
      /\ faults' \in 0 .. MaxFaults /\ answered' \subseteq UploadIDs
      /\ task' \in [UploadIDs -> Tasks] /\ task'[i].st = "active" /\ task'[i].dir = task[i].dir
      /\ \A j \in UploadIDs : j # i => /\ task'[j] = task[j]
                                       /\ published'[j] = published[j]
                                       /\ repeatable'[j] = repeatable[j]
                                       /\ j \in answered' <=> j \in answered
      /\ answered \subseteq answered' /\ published'[i] >= published[i]
      /\ Calls(i)'
  <2>1. CASE /\ Step(i, "fatal") \/ Step(i, "again")
             /\ UNCHANGED <<published, faults, repeatable, answered>>
    <3>1. PICK s \in {"fatal", "again"} : Step(i, s)
      BY Zenon, SMT, <2>1
    <3>2. /\ task' \in [UploadIDs -> Tasks]
          /\ task'[i].st = task[i].st /\ task'[i].stage = s /\ task'[i].resp = task[i].resp
          /\ task'[i].dir = task[i].dir
          /\ \A j \in UploadIDs : j # i => task'[j] = task[j]
      BY SMTT(60), SMTT(45), <3>1, <1>3, StepFacts
    <3>3. Calls(i)'
      BY Zenon, SMT, <1>1, <1>2, <1>4, <2>1, <3>2 DEF Calls, Spent
    <3>4. faults' \in 0 .. MaxFaults
      BY Zenon, SMT, <2>1 DEF GeoInv, GeoTypeOK
    <3> QED BY <1>2, <1>3, <1>4, <2>1, <3>2, <3>3, <3>4
  <2>2. CASE /\ StepResp(i, "fatal", "error")
             /\ answered' = answered \cup {i}
             /\ UNCHANGED <<published, faults, repeatable>>
    <3>2. /\ task' \in [UploadIDs -> Tasks]
          /\ task'[i].st = task[i].st /\ task'[i].stage = "fatal" /\ task'[i].resp = "error"
          /\ task'[i].dir = task[i].dir
          /\ \A j \in UploadIDs : j # i => task'[j] = task[j]
      BY Zenon, SMT, <2>2, <1>3, StepFacts
    <3>3. Calls(i)'
      BY Zenon, SMT, <1>1, <1>2, <1>4, <2>2, <3>2 DEF Calls, Spent
    <3>4. faults' \in 0 .. MaxFaults
      BY Zenon, SMT, <2>2 DEF GeoInv, GeoTypeOK
    <3> QED BY SMTT(60), SMTT(45), <1>2, <1>3, <1>4, <2>2, <3>2, <3>3, <3>4
  <2>3. CASE /\ StepResp(i, "write", "ok")
             /\ published' = [published EXCEPT ![i] = @ + 1]
             /\ answered' = answered \cup {i}
             /\ UNCHANGED <<faults, repeatable>>
    <3>2. /\ task' \in [UploadIDs -> Tasks]
          /\ task'[i].st = task[i].st /\ task'[i].stage = "write" /\ task'[i].resp = "ok"
          /\ task'[i].dir = task[i].dir
          /\ \A j \in UploadIDs : j # i => task'[j] = task[j]
      BY Zenon, SMT, <2>3, <1>3, StepFacts
    <3>5. published'[i] = published[i] + 1 /\ published' \in [UploadIDs -> Nat]
      BY SMTT(60), SMTT(45), <1>3, <1>4, <2>3
    <3>3. Calls(i)'
      BY <1>1, <1>2, <1>4, <2>3, <3>2, <3>5 DEF Calls, Spent
    <3>4. faults' \in 0 .. MaxFaults
      BY Zenon, SMT, <2>3 DEF GeoInv, GeoTypeOK
    <3> QED BY SMTT(60), SMTT(45), <1>2, <1>3, <1>4, <2>3, <3>2, <3>3, <3>4, <3>5
  <2>4. CASE /\ Fault /\ Step(i, "again")
             /\ published' = [published EXCEPT ![i] = @ + 1]
             /\ repeatable' = [repeatable EXCEPT ![i] = @ + 1]
             /\ UNCHANGED answered
    <3>2. /\ task' \in [UploadIDs -> Tasks]
          /\ task'[i].st = task[i].st /\ task'[i].stage = "again" /\ task'[i].resp = task[i].resp
          /\ task'[i].dir = task[i].dir
          /\ \A j \in UploadIDs : j # i => task'[j] = task[j]
      BY Zenon, SMT, <2>4, <1>3, StepFacts
    <3>5. /\ published'[i] = published[i] + 1 /\ published' \in [UploadIDs -> Nat]
          /\ repeatable'[i] = repeatable[i] + 1 /\ repeatable' \in [UploadIDs -> Nat]
      BY SMTT(60), SMTT(45), <1>3, <1>4, <2>4
    <3>3. Calls(i)'
      BY <1>1, <1>2, <1>4, <2>4, <3>2, <3>5 DEF Calls, Spent
    <3>4. faults' \in 0 .. MaxFaults
      BY Zenon, SMT, <2>4, FaultType
    <3> QED BY SMTT(60), SMTT(45), <1>2, <1>3, <1>4, <2>4, <3>2, <3>3, <3>4, <3>5
  <2> QED BY Zenon, SMT, <2>1, <2>2, <2>3, <2>4 DEF CallSDK
<1>6. InList'
  <2>1. ASSUME NEW j \in UploadIDs
        PROVE  /\ task[j].st # "none" => task'[j].st # "none"
               /\ published'[j] >= published[j] /\ published'[j] \in Nat
    <3>1. published[j] \in Nat /\ published'[j] \in Nat
      BY Zenon, SMT, <1>3, <1>5
    <3>2. CASE j = i
      BY Zenon, SMT, <3>1, <3>2, <1>5
    <3>3. CASE j # i
      BY <3>1, <3>3, <1>5
    <3> QED BY Zenon, SMT, <3>2, <3>3
  <2> QED BY Zenon, SMT, <1>1, <1>5, <2>1, ListStays
<1>7. results' \in Seq(Results) /\ lost' \subseteq UploadIDs
  BY Zenon, SMT, <1>1 DEF GeoInv, GeoTypeOK
<1>8. task[i].st # "none" /\ task'[i].st # "none"
  BY Zenon, SMT, <1>2, <1>5
<1> QED BY Zenon, SMT, <1>1, <1>5, <1>6, <1>7, <1>8, TaskInv

\* What is true of a step of a task that calls nothing.
LEMMA QuietTask ==
  ASSUME GeoInv, NEW i \in UploadIDs,
         UNCHANGED <<file, offset, info, sent, listener, row, pq, notify, got, published, accepted,
                     answered, late>>,
         task' \in [UploadIDs -> Tasks],
         task[i].st # "none", task'[i].st # "none", task'[i].dir = task[i].dir,
         \A j \in UploadIDs : j # i => task'[j] = task[j] /\ repeatable'[j] = repeatable[j],
         repeatable' \in [UploadIDs -> Nat],
         results' \in Seq(Results), faults' \in 0 .. MaxFaults, lost' \subseteq UploadIDs,
         Calls(i)', InList'
  PROVE  GeoInv'
<1>1. published \in [UploadIDs -> Nat] /\ answered \subseteq UploadIDs
  BY Zenon, SMT DEF GeoInv, GeoTypeOK
<1>2. published[i] \in Nat
  BY Zenon, SMT, <1>1
<1>3. /\ \A j \in UploadIDs : j # i => /\ task'[j] = task[j]
                                       /\ published'[j] = published[j]
                                       /\ repeatable'[j] = repeatable[j]
                                       /\ j \in answered' <=> j \in answered
      /\ answered \subseteq answered' /\ answered' \subseteq UploadIDs
      /\ published'[i] >= published[i] /\ published' \in [UploadIDs -> Nat]
  BY <1>1, <1>2
<1> QED BY Zenon, SMT, <1>3, TaskInv

\* A result is written, or not: the list stays backed.
LEMMA ListGrows ==
  ASSUME GeoInv, UNCHANGED <<published, answered>>,
         \A j \in UploadIDs : task[j].st # "none" => task'[j].st # "none",
         NEW r \in Results, Backed(r),
         results' = results \/ results' = Append(results, r)
  PROVE  InList' /\ results' \in Seq(Results)
<1>1. results \in Seq(Results) /\ InList
  BY Zenon, SMT DEF GeoInv, GeoTypeOK
<1>2. \A q \in Results : Backed(q) => Backed(q)'
  BY Zenon, SMT DEF Backed, Results
<1>3. CASE results' = results
  BY <1>1, <1>2, <1>3 DEF InList
<1>4. CASE results' = Append(results, r)
  <2>1. results' \in Seq(Results) /\ Len(results') = Len(results) + 1
    BY <1>1, <1>4
  <2>2. \A k \in 1 .. Len(results') :
           results'[k] = IF k = Len(results) + 1 THEN r ELSE results[k]
    BY <1>1, <1>4
  <2>3. \A k \in 1 .. Len(results') : k = Len(results) + 1 \/ k \in 1 .. Len(results)
    BY <1>1, <2>1
  <2>4. \A k \in 1 .. Len(results) : results[k] \in Results /\ Backed(results[k])
    BY <1>1 DEF InList
  <2>5. ASSUME NEW k \in 1 .. Len(results') PROVE Backed(results[k])'
    <3>1. CASE k = Len(results) + 1
      BY Zenon, SMT, <3>1, <2>2, <1>2
    <3>2. CASE k # Len(results) + 1
      BY Zenon, SMT, <3>2, <2>2, <2>3, <2>4, <1>2
    <3> QED BY Zenon, SMT, <3>1, <3>2
  <2> QED BY Zenon, SMT, <2>1, <2>5 DEF InList
<1> QED BY Zenon, SMT, <1>3, <1>4

\* ProcessTask writes a result of a call the SDK carried out or answered.
LEMMA WriteInv ==
  ASSUME GeoInv, NEW i \in UploadIDs, WriteResult(i) \/ WriteFailure(i)
  PROVE  GeoInv'
<1> USE GeoAssumption
<1>1. UNCHANGED <<file, offset, info, sent, listener, row, pq, notify, got, published, accepted,
                  answered, late>>
  BY Zenon, SMT DEF WriteResult, WriteFailure, diskVars, dbVars
<1>2. /\ repeatable \in [UploadIDs -> Nat] /\ task[i].resp \in Response /\ lost \subseteq UploadIDs
      /\ published[i] \in Nat /\ faults \in 0 .. MaxFaults /\ results \in Seq(Results)
      /\ {"done", "again", "skip"} \subseteq Stages
  BY Zenon, SMT, TaskRecord DEF GeoInv, GeoTypeOK, Stages
<1>3. Calls(i) /\ task[i].st = "active" /\ task[i].stage \in {"write", "fatal"} /\ repeatable[i] \in Nat
  BY Zenon, SMT, <1>2 DEF GeoInv, WriteResult, WriteFailure, Running
<1>4. PICK s \in {"done", "again", "skip"} : Step(i, s)
  BY Zenon, SMT DEF WriteResult, WriteFailure
<1>5. /\ task' \in [UploadIDs -> Tasks]
      /\ task'[i].st = task[i].st /\ task'[i].stage = s /\ task'[i].resp = task[i].resp
      /\ task'[i].dir = task[i].dir
      /\ \A j \in UploadIDs : j # i => task'[j] = task[j]
  BY Zenon, SMT, <1>2, <1>4, StepFacts
<1>6. \A j \in UploadIDs : task[j].st # "none" => task'[j].st # "none"
  BY Zenon, SMT, <1>5
<1>7. CASE WriteResult(i)
  <2> DEFINE r == Result(i, task[i].resp, FALSE)
  <2>1. task[i].stage = "write" /\ published[i] > 0
    BY Zenon, SMT, <1>3, <1>7 DEF WriteResult, Running, Calls
  <2>2. r \in Results /\ Backed(r)
    BY Zenon, SMT, <1>2, <1>3, <2>1 DEF Result, Results, Backed, Calls
  <2>3. /\ results' = results \/ results' = Append(results, r)
        /\ lost' \subseteq UploadIDs
    BY Zenon, SMT, <1>2, <1>7 DEF WriteResult
  <2>4. InList' /\ results' \in Seq(Results)
    <3> HIDE DEF r
    <3> QED BY Zenon, SMT, <1>1, <1>6, <2>2, <2>3, ListGrows
  <2>5. CASE Step(i, "done") /\ UNCHANGED <<faults, repeatable>>
    <3>1. task'[i].stage = "done"
      BY Zenon, SMT, <1>2, <2>5, StepFacts
    <3>2. Calls(i)'
      BY Zenon, SMT, <1>1, <1>3, <1>5, <2>1, <2>5, <3>1 DEF Calls, Spent
    <3>3. faults' \in 0 .. MaxFaults /\ repeatable' \in [UploadIDs -> Nat]
      BY Zenon, SMT, <1>2, <2>5
    <3> QED BY Zenon, SMT, <1>1, <1>3, <1>5, <2>3, <2>4, <2>5, <3>2, <3>3, QuietTask
  <2>6. CASE Fault /\ Step(i, "again") /\ repeatable' = [repeatable EXCEPT ![i] = @ + 1]
    <3>1. task'[i].stage = "again"
      BY Zenon, SMT, <1>2, <2>6, StepFacts
    <3>4. /\ repeatable' \in [UploadIDs -> Nat] /\ repeatable'[i] = repeatable[i] + 1
          /\ \A j \in UploadIDs : j # i => repeatable'[j] = repeatable[j]
      BY SMTT(60), SMTT(45), <1>2, <1>3, <2>6
    <3>2. Calls(i)'
      BY SMTT(60), SMTT(45), <1>1, <1>2, <1>3, <1>5, <2>1, <3>1, <3>4 DEF Calls, Spent
    <3>3. faults' \in 0 .. MaxFaults
      BY Zenon, SMT, <2>6, FaultType
    <3> QED BY Zenon, SMT, <1>1, <1>3, <1>5, <2>3, <2>4, <3>2, <3>3, <3>4, QuietTask
  <2> QED BY Zenon, SMT, <1>7, <2>5, <2>6 DEF WriteResult
<1>8. CASE WriteFailure(i)
  <2> DEFINE r == Result(i, task[i].resp, TRUE)
  <2>1. task[i].stage = "fatal" /\ Step(i, "skip") /\ UNCHANGED repeatable
    BY Zenon, SMT, <1>8 DEF WriteFailure, Running
  <2>2. r \in Results /\ Backed(r)
    BY Zenon, SMT, <1>2, <1>3 DEF Result, Results, Backed, Calls
  <2>3. /\ results' = results \/ results' = Append(results, r)
        /\ lost' \subseteq UploadIDs
    BY Zenon, SMT, <1>2, <1>8 DEF WriteFailure
  <2>4. InList' /\ results' \in Seq(Results)
    <3> HIDE DEF r
    <3> QED BY Zenon, SMT, <1>1, <1>6, <2>2, <2>3, ListGrows
  <2>5. task'[i].stage = "skip"
    BY Zenon, SMT, <1>2, <2>1, StepFacts
  <2>6. Calls(i)'
    BY Zenon, SMT, <1>1, <1>3, <1>5, <2>1, <2>5 DEF Calls, Spent
  <2>7. faults' \in 0 .. MaxFaults
    BY Zenon, SMT, <1>2, <1>8, FaultType DEF WriteFailure
  <2> QED BY Zenon, SMT, <1>1, <1>2, <1>3, <1>5, <2>1, <2>3, <2>4, <2>6, <2>7, QuietTask
<1> QED BY Zenon, SMT, <1>7, <1>8

\* asynq takes what ProcessTask returns: only a success ends as completed.
LEMMA FinishTaskInv ==
  ASSUME GeoInv, NEW i \in UploadIDs, FinishTask(i)
  PROVE  GeoInv'
<1> USE GeoAssumption
<1>1. UNCHANGED <<file, offset, info, sent, listener, row, pq, notify, results, got, published, faults,
                  accepted, repeatable, answered, late, lost>>
  BY Zenon, SMT DEF FinishTask, diskVars, dbVars
<1>2. /\ repeatable \in [UploadIDs -> Nat] /\ lost \subseteq UploadIDs
      /\ faults \in 0 .. MaxFaults /\ results \in Seq(Results) /\ task \in [UploadIDs -> Tasks]
  BY Zenon, SMT DEF GeoInv, GeoTypeOK
<1>3. Calls(i) /\ task[i].st = "active" /\ task[i].stage \in {"done", "skip", "again"}
  BY Zenon, SMT DEF GeoInv, FinishTask, Running
<1>4. "completed" \in TaskStates /\ "archived" \in TaskStates /\ "retry" \in TaskStates
  BY Zenon, SMT DEF TaskStates
<1>5. /\ task' \in [UploadIDs -> Tasks]
      /\ task'[i].dir = task[i].dir
      /\ \A j \in UploadIDs : j # i => task'[j] = task[j]
      /\ \/ task[i].stage = "done" /\ task'[i].st = "completed"
         \/ task[i].stage # "done" /\ task'[i].st \in {"archived", "retry"}
  <2>1. CASE Running(i, "done") /\ task' = [task EXCEPT ![i].st = "completed"]
    BY Zenon, SMT, <1>2, <1>4, <2>1 DEF Running, Tasks
  <2>2. CASE Running(i, "skip") /\ task' = [task EXCEPT ![i].st = "archived"]
    BY ZenonT(30), SMTT(60), <1>2, <1>4, <2>2 DEF Running, Tasks
  <2>3. CASE Running(i, "again") /\ Retry(i)
    <3>1. task[i].tries \in 0 .. MaxRetry
      BY Zenon, SMT, TaskRecord
    <3> DEFINE st == IF task[i].tries < MaxRetry THEN "retry" ELSE "archived"
               n == IF task[i].tries < MaxRetry THEN task[i].tries + 1 ELSE task[i].tries
    <3>2. st \in {"archived", "retry"} /\ st \in TaskStates /\ n \in 0 .. MaxRetry
      BY <1>4, <3>1
    <3>3. task' = [task EXCEPT ![i].st = st, ![i].tries = n]
      BY Zenon, SMT, <2>3 DEF Retry
    <3> HIDE DEF st, n
    <3> QED BY ZenonT(30), SMTT(60), <1>2, <2>3, <3>2, <3>3 DEF Running, Tasks
  <2> QED BY Zenon, SMT, <2>1, <2>2, <2>3 DEF FinishTask
<1>6. Calls(i)'
  BY Zenon, SMT, <1>1, <1>3, <1>5 DEF Calls, Spent
<1>7. \A j \in UploadIDs : task[j].st # "none" => task'[j].st # "none"
  BY Zenon, SMT, <1>3, <1>5
<1>8. InList'
  BY Zenon, SMT, <1>1, <1>7, ResultsKept
<1>9. task[i].st # "none" /\ task'[i].st # "none"
  BY Zenon, SMT, <1>3, <1>7
<1> QED BY Zenon, SMT, <1>1, <1>2, <1>5, <1>6, <1>8, <1>9, QuietTask

\* Every step of the worker.
LEMMA TaskStepsInv ==
  ASSUME GeoInv, NEW i \in UploadIDs, TaskSteps(i)
  PROVE  GeoInv'
  BY Zenon, SMT, StartTaskInv, PrepareInv, CallSDKInv, WriteInv, FinishTaskInv DEF TaskSteps

-----------------------------------------------------------------------------
(* The goroutine of results.                                               *)

\* What is known of the result in hand.
LEMMA GotFacts ==
  ASSUME GeoInv, got # <<>>
  PROVE  /\ got \in Seq(Results) /\ Len(got) \in {1, 2} /\ got[1] \in Results /\ got[1].id \in UploadIDs
         /\ Backed(got[1])
         /\ Len(got) = 2 => got[1].resp # "none"
<1>1. got \in Seq(Results) /\ Len(got) <= 2 /\ InHand /\ Stored
  BY Zenon, SMT DEF GeoInv, GeoTypeOK
<1>2. Len(got) \in {1, 2} /\ 1 \in 1..Len(got)
  <2> DEFINE n == Len(got)
  <2>1. n \in Nat /\ n # 0 /\ n <= 2
    BY <1>1
  <2> HIDE DEF n
  <2>2. n \in {1, 2} /\ 1 \in 1..n
    BY <2>1
  <2> QED BY Zenon, SMT, <2>2 DEF n
<1>3. got[1] \in Results /\ Backed(got[1])
  BY <1>1, <1>2 DEF InHand
<1> QED BY Zenon, SMT, <1>1, <1>2, <1>3 DEF Stored, Results

\* A result is popped.
LEMMA PopInv ==
  ASSUME GeoInv, GetUploadProcessResult
  PROVE  GeoInv'
<1>1. UNCHANGED <<file, offset, info, sent, listener, row, pq, notify, task, published, faults,
                  accepted, repeatable, answered, late, lost>>
  BY Zenon, SMT DEF GetUploadProcessResult, diskVars, dbVars
<1>2. results \in Seq(Results) /\ results # <<>> /\ results' = Tail(results) /\ got' = <<Head(results)>>
  BY Zenon, SMT DEF GetUploadProcessResult, GeoInv, GeoTypeOK
<1>3. Head(results) \in Results /\ Backed(Head(results)) /\ results' \in Seq(Results)
  BY <1>2 DEF GeoInv, InList
<1>4. \A q : Backed(q) => Backed(q)'
  BY Zenon, SMT, <1>1 DEF Backed
<1>5. got' \in Seq(Results) /\ Len(got') = 1 /\ got'[1] = Head(results)
  BY <1>2, <1>3
<1>6. GeoTypeOK'
  BY SMTT(60), SMTT(45), <1>1, <1>3, <1>5 DEF GeoInv, GeoTypeOK
<1>7. \A j \in UploadIDs : Way(j)' /\ Calls(j)'
  BY ZenonT(30), SMTT(60), <1>1 DEF GeoInv, Way, Calls, Spent
<1>8. InHand' /\ Stored'
  BY <1>3, <1>4, <1>5 DEF InHand, Stored
<1>9. InList'
  <2>1. Len(results') = Len(results) - 1 /\ \A k \in 1 .. Len(results') : results'[k] = results[k + 1]
    BY <1>2
  <2>2. \A k \in 1 .. Len(results') : k + 1 \in 1 .. Len(results)
    BY <1>2, <2>1
  <2>3. \A k \in 1 .. Len(results') : Backed(results[k + 1])
    BY Zenon, SMT, <2>2 DEF GeoInv, InList
  <2> QED BY Zenon, SMT, <1>4, <2>1, <2>3 DEF InList
<1> QED BY Zenon, SMT, <1>6, <1>7, <1>8, <1>9 DEF GeoInv

\* The result in hand is dropped, or only the row is written.
LEMMA DropInv ==
  ASSUME GeoInv, SaveFailed \/ SaveFails
  PROVE  GeoInv'
<1>1. UNCHANGED <<file, offset, info, sent, listener, pq, notify, task, results, published,
                  accepted, repeatable, answered, late>>
  BY Zenon, SMT DEF SaveFailed, SaveFails, diskVars, dbVars
<1>2. got # <<>> /\ got' = <<>>
  BY SMTT(60), SMTT(45) DEF SaveFailed, SaveFails
<1>3. got[1].id \in UploadIDs
  BY Zenon, SMT, <1>2, GotFacts
<1>4. faults' \in 0 .. MaxFaults
  BY Zenon, SMT, FaultType DEF SaveFailed, SaveFails, GeoInv, GeoTypeOK
<1>5. row' \in [UploadIDs -> {"none", "created", "uploading", "received", "finished", "failed", "terminated"}]
  BY Zenon, SMT, <1>3 DEF SaveFailed, SaveFails, dbVars, GeoInv, GeoTypeOK
<1>6. lost' \subseteq UploadIDs
  BY Zenon, SMT, <1>3 DEF SaveFailed, SaveFails, GeoInv, GeoTypeOK
<1>7. got' \in Seq(Results) /\ Len(got') = 0
  BY SMTT(60), SMTT(45), <1>2
<1>8. GeoTypeOK'
  BY SMTT(60), SMTT(45), <1>1, <1>4, <1>5, <1>6, <1>7 DEF GeoInv, GeoTypeOK
<1>9. \A j \in UploadIDs : Way(j)' /\ Calls(j)'
  BY ZenonT(30), SMTT(60), <1>1 DEF GeoInv, Way, Calls, Spent
<1>10. InList' /\ InHand' /\ Stored'
  BY SMTT(60), SMTT(45), <1>1, <1>7 DEF GeoInv, InList, InHand, Stored, Backed
<1> QED BY Zenon, SMT, <1>8, <1>9, <1>10 DEF GeoInv

\* The upload is marked finished, and its file removed: the SDK has answered.
LEMMA SaveFinishedInv ==
  ASSUME GeoInv, SaveFinished
  PROVE  GeoInv'
<1> USE GeoAssumption
<1> DEFINE i == got[1].id
<1>1. UNCHANGED <<offset, info, sent, listener, pq, notify, task, results, published, accepted,
                  repeatable, answered, late>>
  BY Zenon, SMT DEF SaveFinished
<1>2. Len(got) = 1 /\ got # <<>> /\ got[1].resp # "none" /\ got' = got \o got
  BY DEF SaveFinished
<1>3. got \in Seq(Results) /\ got[1] \in Results /\ i \in UploadIDs /\ Backed(got[1])
  BY Zenon, SMT, <1>2, GotFacts
<1>4. i \in answered /\ task[i].st # "none"
  BY Zenon, SMT, <1>2, <1>3 DEF Backed
<1>5. got' \in Seq(Results) /\ Len(got') = 2 /\ got'[1] = got[1] /\ got'[2] = got[1]
  <2>1. /\ got' \in Seq(Results) /\ Len(got') = Len(got) + Len(got)
        /\ \A k \in 1 .. Len(got) + Len(got) :
              got'[k] = IF k <= Len(got) THEN got[k] ELSE got[k - Len(got)]
    BY ZenonT(30), SMTT(60), <1>2, <1>3, ConcatProperties
  <2> QED BY <1>2, <2>1
<1>6. /\ file' \in [UploadIDs -> {"none", "tus", "removed"} \cup Users]
      /\ file'[i] = "removed" \/ file'[i] = file[i]
      /\ \A j \in UploadIDs : j # i => file'[j] = file[j]
      /\ row' \in [UploadIDs -> {"none", "created", "uploading", "received", "finished", "failed", "terminated"}]
      /\ lost' \subseteq UploadIDs /\ faults' \in 0 .. MaxFaults
  <2>1. /\ file \in [UploadIDs -> {"none", "tus", "removed"} \cup Users]
        /\ row \in [UploadIDs -> {"none", "created", "uploading", "received", "finished", "failed", "terminated"}]
        /\ lost \subseteq UploadIDs /\ faults \in 0 .. MaxFaults
    BY Zenon, SMT DEF GeoInv, GeoTypeOK
  <2>2. CASE /\ row' = [row EXCEPT ![got[1].id] = "finished"]
             /\ file' = [file EXCEPT ![got[1].id] = "removed"]
             /\ UNCHANGED <<faults, lost>>
    BY Zenon, SMT, <1>3, <2>1, <2>2
  <2>3. CASE Fault /\ lost' = lost \cup {got[1].id} /\ UNCHANGED <<row, file>>
    BY Zenon, SMT, <1>3, <2>1, <2>3, FaultType
  <2> QED BY Zenon, SMT, <2>2, <2>3 DEF SaveFinished
<1> HIDE DEF i
<1>7. GeoTypeOK'
  BY SMTT(60), SMTT(45), <1>1, <1>5, <1>6 DEF GeoInv, GeoTypeOK
<1>8. ASSUME NEW j \in UploadIDs PROVE Way(j)' /\ Calls(j)'
  <2>1. Way(j) /\ Calls(j)
    BY Zenon, SMT DEF GeoInv
  <2>2. CASE j = i
    <3>1. notify[i].pc = "idle"
      BY Zenon, SMT, <2>1, <2>2, <1>4 DEF Way
    <3>2. Way(j)'
      BY Zenon, SMT, <1>1, <1>4, <1>6, <2>1, <2>2, <3>1 DEF Way
    <3> QED BY Zenon, SMT, <1>1, <2>1, <3>2 DEF Calls, Spent
  <2>3. CASE j # i
    BY Zenon, SMT, <1>1, <1>6, <2>1, <2>3, OtherKept
  <2> QED BY Zenon, SMT, <2>2, <2>3
<1>9. \A q : Backed(q) => Backed(q)'
  BY Zenon, SMT, <1>1 DEF Backed
<1>10. InList' /\ Stored'
  BY Zenon, SMT, <1>1, <1>2, <1>5, <1>9 DEF GeoInv, InList, Stored
<1>11. InHand'
  <2>1. \A k \in 1 .. Len(got') : got'[k] = got[1]
    BY <1>5
  <2> QED BY Zenon, SMT, <1>3, <1>5, <1>9, <2>1 DEF InHand
<1> QED BY Zenon, SMT, <1>7, <1>8, <1>10, <1>11 DEF GeoInv

\* The publish query is settled: as succeeded only for a success.
LEMMA SaveQueryInv ==
  ASSUME GeoInv, SaveQuery
  PROVE  GeoInv'
<1> DEFINE i == got[1].id
<1>1. UNCHANGED <<file, offset, info, sent, listener, row, notify, task, results, published, faults,
                  accepted, repeatable, answered, late, lost>>
  BY Zenon, SMT DEF SaveQuery, diskVars
<1>2. Len(got) = 2 /\ got # <<>> /\ got' = <<>>
  BY DEF SaveQuery
<1>3. got[1] \in Results /\ i \in UploadIDs /\ Backed(got[1])
  BY Zenon, SMT, <1>2, GotFacts
<1>4. /\ pq' \in [UploadIDs -> {"none", "received", "succeeded", "failed"}]
      /\ pq'[i] = "failed" \/ (pq'[i] = "succeeded" /\ published[i] > 0)
      /\ \A j \in UploadIDs : j # i => pq'[j] = pq[j]
  <2>1. ResultStatus(got[1]) = "failed" \/ (ResultStatus(got[1]) = "succeeded" /\ published[i] > 0)
    BY Zenon, SMT, <1>3 DEF ResultStatus, Backed
  <2>2. pq' = [pq EXCEPT ![i] = ResultStatus(got[1])] /\ pq \in [UploadIDs -> {"none", "received", "succeeded", "failed"}]
    BY Zenon, SMT DEF SaveQuery, GeoInv, GeoTypeOK
  <2> HIDE DEF i
  <2> QED BY Zenon, SMT, <1>3, <2>1, <2>2
<1> HIDE DEF i
<1>5. got' \in Seq(Results) /\ Len(got') = 0
  BY <1>2
<1>6. GeoTypeOK'
  BY SMTT(60), SMTT(45), <1>1, <1>4, <1>5 DEF GeoInv, GeoTypeOK
<1>7. ASSUME NEW j \in UploadIDs PROVE Way(j)' /\ Calls(j)'
  <2>1. Way(j) /\ Calls(j)
    BY Zenon, SMT DEF GeoInv
  <2>2. CASE j = i
    BY Zenon, SMT, <1>1, <1>4, <2>1, <2>2 DEF Way, Calls, Spent
  <2>3. CASE j # i
    BY Zenon, SMT, <1>1, <1>4, <2>1, <2>3, OtherKept
  <2> QED BY Zenon, SMT, <2>2, <2>3
<1>8. InList' /\ InHand' /\ Stored'
  BY <1>1, <1>5 DEF GeoInv, InList, InHand, Stored, Backed
<1> QED BY Zenon, SMT, <1>6, <1>7, <1>8 DEF GeoInv

\* After a crash no task runs and no request is left; a task that ran may
\* have called the SDK.
LEMMA CrashInv ==
  ASSUME GeoInv, GeoCrash
  PROVE  GeoInv'
<1> USE GeoAssumption
<1>1. UNCHANGED <<file, offset, info, row, pq, results, published, accepted, answered, late>>
  BY Zenon, SMT DEF GeoCrash, diskVars, dbVars
<1>2. /\ sent' = {} /\ listener' = <<>> /\ got' = <<>>
      /\ notify' = [j \in UploadIDs |-> NoNotify] /\ faults' \in 0 .. MaxFaults
  BY Zenon, SMT, FaultType DEF GeoCrash
<1>3. /\ repeatable' \in [UploadIDs -> Nat]
      /\ \A j \in UploadIDs :
            repeatable'[j] = IF task[j].st = "active" THEN repeatable[j] + 1 ELSE repeatable[j]
  <2>1. repeatable \in [UploadIDs -> Nat]
    BY Zenon, SMT DEF GeoInv, GeoTypeOK
  <2>2. repeatable' = [j \in UploadIDs |->
                         IF task[j].st = "active" THEN repeatable[j] + 1 ELSE repeatable[j]]
    BY Zenon, SMT DEF GeoCrash
  <2> QED BY <2>1, <2>2
<1>4. /\ task' \in [UploadIDs -> Tasks]
      /\ \A j \in UploadIDs : task[j].st # "active" => task'[j] = task[j]
      /\ \A j \in UploadIDs : task[j].st = "active" => /\ task'[j].st \in {"retry", "archived"}
                                                       /\ task'[j].dir = task[j].dir
  <2> DEFINE st(j) == IF task[j].tries < MaxRetry THEN "retry" ELSE "archived"
             n(j) == IF task[j].tries < MaxRetry THEN task[j].tries + 1 ELSE task[j].tries
             t(j) == IF task[j].st # "active" THEN task[j]
                     ELSE [task[j] EXCEPT !.st = st(j), !.tries = n(j)]
  <2>1. task' = [j \in UploadIDs |-> t(j)]
    BY Zenon, SMT DEF GeoCrash
  <2>2. ASSUME NEW j \in UploadIDs
        PROVE  /\ st(j) \in {"retry", "archived"} /\ st(j) \in TaskStates
               /\ n(j) \in 0 .. MaxRetry /\ task[j] \in Tasks
    <3>1. task[j].tries \in 0 .. MaxRetry /\ task[j] \in Tasks
      BY Zenon, SMT, TaskRecord
    <3>2. "retry" \in TaskStates /\ "archived" \in TaskStates
      BY Zenon, SMT DEF TaskStates
    <3>3. MaxRetry \in Nat
      BY Zenon, SMT, GeoAssumption
    <3> QED BY <3>1, <3>2, <3>3
  <2>3. ASSUME NEW j \in UploadIDs
        PROVE  /\ t(j) \in Tasks
               /\ task[j].st # "active" => t(j) = task[j]
               /\ task[j].st = "active" => t(j).st \in {"retry", "archived"} /\ t(j).dir = task[j].dir
    <3> HIDE DEF st, n
    <3> QED BY Zenon, SMT, <2>2 DEF Tasks
  <2> HIDE DEF t
  <2> QED BY Zenon, SMT, <2>1, <2>3
<1>5. lost' \subseteq UploadIDs
  <2>1. lost \subseteq UploadIDs
    BY Zenon, SMT DEF GeoInv, GeoTypeOK
  <2>2. CASE got = <<>>
    BY Zenon, SMT, <2>1, <2>2 DEF GeoCrash
  <2>3. CASE got # <<>>
    BY Zenon, SMT, <2>1, <2>3, GotFacts DEF GeoCrash
  <2> QED BY Zenon, SMT, <2>2, <2>3
<1>6. GeoTypeOK'
  <2>1. notify' \in [UploadIDs -> [pc : NotifyPlaces, user : Users \cup {NoUser}]]
    BY Zenon, SMT, <1>2 DEF NoNotify, NotifyPlaces
  <2>2. /\ sent' \subseteq Events /\ listener' \in Seq(Events) /\ Len(listener') <= 1
        /\ got' \in Seq(Results) /\ Len(got') <= 2
    BY SMTT(60), SMTT(45), <1>2
  <2> QED BY Zenon, SMT, <1>1, <1>2, <1>3, <1>4, <1>5, <2>1, <2>2 DEF GeoInv, GeoTypeOK
<1>7. ASSUME NEW j \in UploadIDs PROVE Way(j)' /\ Calls(j)'
  <2>1. Way(j) /\ Calls(j) /\ published[j] \in Nat /\ repeatable[j] \in Nat
    BY Zenon, SMT DEF GeoInv, GeoTypeOK
  <2>2. notify'[j].pc = "idle"
    BY Zenon, SMT, <1>2 DEF NoNotify
  <2>3. (task'[j].st = "none" <=> task[j].st = "none") /\ task'[j].dir = task[j].dir
    BY Zenon, SMT, <1>4
  <2>4. Way(j)'
    BY Zenon, SMT, <1>1, <2>1, <2>2, <2>3 DEF Way
  <2>5. CASE task[j].st = "active"
    BY SMTT(60), SMTT(45), <1>1, <1>3, <1>4, <2>1, <2>4, <2>5 DEF Calls, Spent
  <2>6. CASE task[j].st # "active"
    BY Zenon, SMT, <1>1, <1>3, <1>4, <2>1, <2>4, <2>6 DEF Calls, Spent
  <2> QED BY Zenon, SMT, <2>5, <2>6
<1>8. \A r \in Results : Backed(r) => Backed(r)'
  <2>1. \A j \in UploadIDs : task[j].st # "none" => task'[j].st # "none"
    BY Zenon, SMT, <1>4
  <2> QED BY Zenon, SMT, <1>1, <2>1 DEF Backed, Results
<1>9. InList' /\ InHand' /\ Stored'
  <2>1. \A k \in 1..Len(results) : results[k] \in Results
    BY DEF GeoInv, GeoTypeOK
  <2>2. Len(got') = 0
    BY Zenon, SMT, <1>2
  <2> QED BY <1>1, <1>8, <2>1, <2>2 DEF GeoInv, InList, InHand, Stored
<1> QED BY Zenon, SMT, <1>6, <1>7, <1>9 DEF GeoInv

-----------------------------------------------------------------------------

\* Every step of clients, goroutines, the worker and the machine preserves
\* the invariant.
LEMMA GeoStep == GeoInv /\ [GeoNext]_geoVars => GeoInv'
<1> SUFFICES ASSUME GeoInv, [GeoNext]_geoVars PROVE GeoInv'
  OBVIOUS
<1>1. ASSUME NEW i \in UploadIDs, NotifySteps(i) PROVE GeoInv'
  BY Zenon, SMT, <1>1, RenameInv, NotifyStepInv, SetPublishQueryInv, EnqueueInv DEF NotifySteps
<1>2. CASE SaveSteps
  BY Zenon, SMT, <1>2, PopInv, DropInv, SaveFinishedInv, SaveQueryInv DEF SaveSteps
<1>3. CASE UNCHANGED geoVars
  BY ZenonT(30), SMTT(60), <1>3 DEF geoVars, GeoInv, GeoTypeOK, Way, Calls, Spent, InList, InHand, Stored, Backed
<1> QED BY Zenon, SMT, <1>1, <1>2, <1>3, TusInv, StartNotifyInv, TaskStepsInv, EventInv, CrashInv DEF GeoNext

\* GeoInv holds in every reachable state.
LEMMA GeoInvariance == GeoSpec => []GeoInv
  BY GeoInitInv, GeoStep, PTL DEF GeoSpec

-----------------------------------------------------------------------------
(* The order of events, results and tables: GeoOrder is kept by every step *)
(* that GeoInv holds in.                                                   *)

\* Events are told apart by kind and upload, alone or taken by the listener.
LEMMA EventFacts ==
  ASSUME NEW k, NEW i, NEW l, NEW j
  PROVE  /\ Event(k, i) = Event(l, j) <=> k = l /\ i = j
         /\ Event(k, i).kind = k /\ Event(k, i).id = i
         /\ <<Event(k, i)>> # <<>>
         /\ <<Event(k, i)>> = <<Event(l, j)>> <=> k = l /\ i = j
  BY DEF Event

\* The listener holds one event.
LEMMA Taken ==
  ASSUME listener \in Seq(Events), Len(listener) <= 1, listener # <<>>
  PROVE  Head(listener) \in Events /\ listener = <<Head(listener)>>
<1> DEFINE n == Len(listener)
<1>1. n \in Nat /\ n # 0 /\ n <= 1
  OBVIOUS
<1> HIDE DEF n
<1>2. n = 1
  BY <1>1
<1> QED BY <1>2 DEF n

\* What a step leaves alone of an upload.
LEMMA RecordedKept ==
  ASSUME NEW j \in UploadIDs, Recorded(j),
         listener' = listener,
         Event("created", j) \in sent' <=> Event("created", j) \in sent,
         Event("terminated", j) \in sent' <=> Event("terminated", j) \in sent,
         row'[j] = row[j], file'[j] = file[j],
         task'[j].st = "none" <=> task[j].st = "none", notify'[j].pc = notify[j].pc
  PROVE  Recorded(j)'
  BY Zenon, SMT DEF Recorded, Pending

\* POST comes before all that is recorded of an upload; DELETE only while no
\* request holds its lock.
LEMMA TusRecorded ==
  ASSUME GeoInv, GeoOrder, NEW i \in UploadIDs, PostFile(i) \/ PatchFile(i) \/ DelFile(i),
         NEW j \in UploadIDs
  PROVE  Recorded(j)'
<1>1. UNCHANGED <<listener, row, notify, task>>
  BY Zenon, SMT DEF PostFile, PatchFile, DelFile, dbVars
<1>2. Recorded(j) /\ file \in [UploadIDs -> {"none", "tus", "removed"} \cup Users]
  BY Zenon, SMT DEF GeoOrder, GeoInv, GeoTypeOK
<1>3. CASE PostFile(i)
  <2>1. /\ file[i] = "none" /\ file' = [file EXCEPT ![i] = "tus"] /\ sent' = sent \cup {Event("created", i)}
    BY Zenon, SMT, <1>3 DEF PostFile
  <2>2. Event("terminated", j) \in sent' <=> Event("terminated", j) \in sent
    BY Zenon, SMT, <2>1, EventFacts
  <2>3. CASE j = i
    <3>1. ~Pending("created", i) /\ ~Pending("terminated", i) /\ row[i] = "none" /\ file'[i] = "tus"
      BY Zenon, SMT, <1>2, <2>1, <2>3 DEF Recorded
    <3> QED BY Zenon, SMT, <1>1, <1>2, <2>1, <2>2, <2>3, <3>1 DEF Recorded, Pending
  <2>4. CASE j # i
    <3>1. file'[j] = file[j] /\ (Event("created", j) \in sent' <=> Event("created", j) \in sent)
      BY Zenon, SMT, <1>2, <2>1, <2>4, EventFacts
    <3> QED BY Zenon, SMT, <1>1, <1>2, <2>2, <3>1, RecordedKept
  <2> QED BY Zenon, SMT, <2>3, <2>4
<1>4. CASE PatchFile(i)
  <2>1. file' = file /\ sent' = sent \cup {Event("progress", i)}
    BY Zenon, SMT, <1>4 DEF PatchFile
  <2>2. /\ Event("created", j) \in sent' <=> Event("created", j) \in sent
        /\ Event("terminated", j) \in sent' <=> Event("terminated", j) \in sent
    BY Zenon, SMT, <2>1, EventFacts
  <2> QED BY Zenon, SMT, <1>1, <1>2, <2>1, <2>2, RecordedKept
<1>5. CASE DelFile(i)
  <2>1. /\ file[i] = "tus" /\ Event("created", i) \notin sent /\ notify[i].pc = "idle"
        /\ file' = [file EXCEPT ![i] = "removed"] /\ sent' = sent \cup {Event("terminated", i)}
    BY Zenon, SMT, <1>5 DEF DelFile, Reachable, GetUpload, Locked
  <2>2. Event("created", j) \in sent' <=> Event("created", j) \in sent
    BY Zenon, SMT, <2>1, EventFacts
  <2>3. CASE j = i
    <3>1. task[i].st = "none" /\ file'[i] = "removed"
      BY Zenon, SMT, <1>2, <2>1, FileFacts
    <3> QED BY Zenon, SMT, <1>1, <1>2, <2>1, <2>2, <2>3, <3>1 DEF Recorded, Pending
  <2>4. CASE j # i
    <3>1. file'[j] = file[j] /\ (Event("terminated", j) \in sent' <=> Event("terminated", j) \in sent)
      BY Zenon, SMT, <1>2, <2>1, <2>4, EventFacts
    <3> QED BY Zenon, SMT, <1>1, <1>2, <2>2, <3>1, RecordedKept
  <2> QED BY Zenon, SMT, <2>3, <2>4
<1> QED BY Zenon, SMT, <1>3, <1>4, <1>5

\* The listener takes an event, drops it, or writes the row: the first one
\* inserts it, and none takes it away.
LEMMA EventRecorded ==
  ASSUME GeoInv, GeoOrder, EventSteps, NEW j \in UploadIDs
  PROVE  Recorded(j)'
<1>1. UNCHANGED <<file, notify, task>>
  BY Zenon, SMT DEF EventSteps, TakeEvent, HandleEvent, DropEvent, diskVars
<1>2. Recorded(j)
  BY Zenon, SMT DEF GeoOrder
<1>3. CASE \E e \in Events : TakeEvent(e)
  <2>1. PICK e \in Events : TakeEvent(e)
    BY Zenon, SMT, <1>3
  <2>2. /\ listener = <<>> /\ e \in sent /\ sent' = sent \ {e} /\ listener' = <<e>> /\ row' = row
    BY Zenon, SMT, <2>1 DEF TakeEvent, dbVars
  <2>3. /\ Event("created", j) \in sent' => Event("created", j) \in sent /\ listener' # <<Event("created", j)>>
        /\ Pending("created", j)' => Event("created", j) \in sent
        /\ Pending("terminated", j)' => Event("terminated", j) \in sent
    BY <2>2 DEF Pending
  <2> QED BY Zenon, SMT, <1>1, <1>2, <2>2, <2>3 DEF Recorded, Pending
<1>4. CASE HandleEvent
  <2> DEFINE e == Head(listener)
  <2>1. /\ listener # <<>> /\ listener' = <<>> /\ sent' = sent
        /\ row' = [row EXCEPT ![e.id] = Marked(e)]
    BY Zenon, SMT, <1>4 DEF HandleEvent
  <2>2. e \in Events /\ listener = <<e>>
    <3>1. listener \in Seq(Events) /\ Len(listener) <= 1 /\ listener # <<>>
      BY Zenon, SMT, <2>1 DEF GeoInv, GeoTypeOK
    <3> QED BY Zenon, SMT, <3>1, Taken
  <2>3. e.id \in UploadIDs /\ e = Event(e.kind, e.id) /\ e.kind \in {"created", "progress", "terminated"}
    BY <2>2 DEF Events, Event
  <2>4. row'[j] = IF j = e.id THEN Marked(e) ELSE row[j]
    BY Zenon, SMT, <2>1, <2>3 DEF GeoInv, GeoTypeOK
  <2>5. \A k : listener' # <<Event(k, j)>>
    BY Zenon, SMT, <2>1, EventFacts
  <2> HIDE DEF e
  <2>6. CASE j # e.id \/ e.kind # "created"
    <3>1. row'[j] = "none" <=> row[j] = "none"
      BY Zenon, SMT, <2>3, <2>4, <2>6 DEF Marked
    <3> QED BY Zenon, SMT, <1>1, <1>2, <2>1, <2>5, <3>1 DEF Recorded, Pending
  <2>7. CASE j = e.id /\ e.kind = "created"
    <3>1. row'[j] = "created" /\ listener = <<Event("created", j)>>
      BY Zenon, SMT, <2>2, <2>3, <2>4, <2>7 DEF Marked
    <3> QED BY Zenon, SMT, <1>1, <1>2, <2>1, <2>5, <3>1 DEF Recorded, Pending
  <2> QED BY Zenon, SMT, <2>6, <2>7
<1>5. CASE DropEvent
  <2>1. listener' = <<>> /\ sent' = sent /\ row' = row
    BY Zenon, SMT, <1>5 DEF DropEvent, dbVars
  <2>2. \A k : listener' # <<Event(k, j)>>
    BY Zenon, SMT, <2>1, EventFacts
  <2> QED BY Zenon, SMT, <1>1, <1>2, <2>1, <2>2 DEF Recorded, Pending
<1> QED BY Zenon, SMT, <1>3, <1>4, <1>5 DEF EventSteps

\* Notify takes the file from where tusd wrote it, and records no upload that
\* has no row.
LEMMA NotifyRecorded ==
  ASSUME GeoInv, GeoOrder, NEW i \in UploadIDs, NEW j \in UploadIDs,
         NotifySteps(i) \/ \E u \in Users : StartNotify(i, u)
  PROVE  Recorded(j)'
<1>1. UNCHANGED <<sent, listener>>
  BY Zenon, SMT DEF NotifySteps, StartNotify, Rename, DecodeFails, Decode, RemoveInfo, ProcessUpload,
     ProcessUploadFails, SetPublishQuery, Enqueue, EnqueueFails, EnqueueFailed
<1>2. Recorded(j) /\ Way(j)
  BY Zenon, SMT DEF GeoOrder, GeoInv
<1>3. CASE j # i
  <2>1. file'[j] = file[j] /\ row'[j] = row[j] /\ notify'[j] = notify[j] /\ task'[j] = task[j]
    BY Zenon, SMT, <1>3 DEF NotifySteps, StartNotify, Rename, DecodeFails, Decode, RemoveInfo, ProcessUpload,
       ProcessUploadFails, SetPublishQuery, Enqueue, EnqueueFails, EnqueueFailed, diskVars, dbVars,
       GoTo, Leave, GeoInv, GeoTypeOK
  <2> QED BY Zenon, SMT, <1>1, <1>2, <2>1, RecordedKept
<1>4. CASE j = i
  <2>1. CASE \E u \in Users : StartNotify(i, u)
    <3>1. /\ file[i] = "tus" /\ UNCHANGED <<file, row, task>> /\ notify'[i].pc = "rename"
      BY Zenon, SMT, <2>1 DEF StartNotify, GetUpload, diskVars, dbVars, GeoInv, GeoTypeOK
    <3> QED BY Zenon, SMT, <1>1, <1>2, <1>4, <3>1 DEF Recorded, Pending
  <2>2. CASE Rename(i)
    <3>1. /\ UNCHANGED <<row, task>> /\ notify'[i].pc = "decode" /\ file'[i] = notify[i].user
          /\ notify[i].pc = "rename"
      BY Zenon, SMT, <2>2 DEF Rename, At, GoTo, dbVars, GeoInv, GeoTypeOK
    <3>2. file[i] = "tus" /\ notify[i].user \in Users
      BY Zenon, SMT, <1>2, <1>4, <3>1 DEF Recorded, Way
    <3>3. file'[i] \notin {"none", "tus", "removed"}
      BY Zenon, SMT, <3>1, <3>2, GeoAssumption
    <3> QED BY Zenon, SMT, <1>1, <1>2, <1>4, <3>1, <3>2, <3>3 DEF Recorded, Pending
  <2>3. CASE DecodeFails(i) \/ Decode(i) \/ RemoveInfo(i) \/ ProcessUploadFails(i)
    <3>1. UNCHANGED <<file, row, task>> /\ notify'[i].pc \in {"idle", "remove", "process"}
      BY Zenon, SMT, <2>3 DEF DecodeFails, Decode, RemoveInfo, ProcessUploadFails, GoTo, Leave, NoNotify,
         diskVars, dbVars, GeoInv, GeoTypeOK
    <3> QED BY Zenon, SMT, <1>1, <1>2, <1>4, <3>1 DEF Recorded, Pending
  <2>4. CASE ProcessUpload(i)
    <3>1. /\ UNCHANGED <<file, task>> /\ notify'[i].pc = "query" /\ row[i] # "none" /\ row'[i] = "received"
      BY Zenon, SMT, <2>4 DEF ProcessUpload, GetOwn, GoTo, diskVars, GeoInv, GeoTypeOK
    <3> QED BY Zenon, SMT, <1>1, <1>2, <1>4, <3>1 DEF Recorded, Pending
  <2>5. CASE SetPublishQuery(i) \/ EnqueueFails(i)
    <3>1. /\ UNCHANGED <<file, row, task>> /\ notify'[i].pc \in {"idle", "enqueue", "failed"}
          /\ notify[i].pc \in {"query", "enqueue"}
      BY Zenon, SMT, <2>5 DEF SetPublishQuery, EnqueueFails, At, GoTo, Leave, NoNotify, diskVars, dbVars,
         GeoInv, GeoTypeOK
    <3> QED BY Zenon, SMT, <1>1, <1>2, <1>4, <3>1 DEF Recorded, Pending
  <2>6. CASE Enqueue(i)
    <3>1. UNCHANGED <<file, row>> /\ notify'[i].pc = "idle" /\ notify[i].pc = "enqueue"
      BY Zenon, SMT, <2>6 DEF Enqueue, At, Leave, NoNotify, diskVars, dbVars, GeoInv, GeoTypeOK
    <3>2. row[i] # "none" /\ file[i] \in Users
      BY Zenon, SMT, <1>2, <1>4, <3>1 DEF Recorded, Way
    <3>3. file[i] # "removed"
      BY Zenon, SMT, <3>2, GeoAssumption
    <3> QED BY Zenon, SMT, <1>1, <1>2, <1>4, <3>1, <3>2, <3>3 DEF Recorded, Pending
  <2>7. CASE EnqueueFailed(i)
    <3>1. /\ UNCHANGED <<file, task>> /\ notify'[i].pc = "idle" /\ notify[i].pc = "failed"
          /\ row'[i] = "failed" \/ row'[i] = row[i]
      BY Zenon, SMT, <2>7 DEF EnqueueFailed, At, Leave, NoNotify, diskVars, GeoInv, GeoTypeOK
    <3> QED BY Zenon, SMT, <1>1, <1>2, <1>4, <3>1 DEF Recorded, Pending
  <2> QED BY Zenon, SMT, <2>1, <2>2, <2>3, <2>4, <2>5, <2>6, <2>7 DEF NotifySteps
<1> QED BY Zenon, SMT, <1>3, <1>4

\* A task goes on and stays a task; it writes one result, and is over then.
LEMMA TaskMoves ==
  ASSUME GeoInv, NEW i \in UploadIDs, TaskSteps(i)
  PROVE  /\ UNCHANGED <<file, sent, listener, row, pq, notify, got, late>>
         /\ task[i].st # "none" /\ task'[i].st # "none"
         /\ \A j \in UploadIDs : j # i => task'[j] = task[j] /\ repeatable'[j] = repeatable[j]
         /\ repeatable'[i] = repeatable[i] \/ repeatable'[i] > 0
         /\ lost \subseteq lost'
         /\ Over(i) => Over(i)'
         /\ \/ results' = results
            \/ \E r \in Results : results' = Append(results, r) /\ r.id = i /\ ~Over(i) /\ Over(i)'
<1>1. UNCHANGED <<file, sent, listener, row, pq, notify, got, late>>
  BY Zenon, SMT DEF TaskSteps, StartTask, Analyze, Reflect, CallSDK, WriteResult, WriteFailure, FinishTask,
     diskVars, dbVars
<1>2. repeatable \in [UploadIDs -> Nat] /\ repeatable[i] \in Nat /\ task \in [UploadIDs -> Tasks]
      /\ task[i].resp \in Response
  BY Zenon, SMT, TaskRecord DEF GeoInv, GeoTypeOK
<1>3. /\ \A j \in UploadIDs : j # i => repeatable'[j] = repeatable[j]
      /\ repeatable'[i] = repeatable[i] \/ repeatable'[i] > 0
      /\ lost \subseteq lost'
  <2>1. repeatable' = repeatable \/ repeatable' = [repeatable EXCEPT ![i] = repeatable[i] + 1]
    BY Zenon, SMT DEF TaskSteps, StartTask, Analyze, Reflect, CallSDK, WriteResult, WriteFailure, FinishTask
  <2>2. lost \subseteq lost'
    BY Zenon, SMT DEF TaskSteps, StartTask, Analyze, Reflect, CallSDK, WriteResult, WriteFailure, FinishTask
  <2> QED BY <1>2, <2>1, <2>2
<1>4. ASSUME NEW s \in Stages, NEW resp \in Response, task[i].st = "active",
             Step(i, s) \/ StepResp(i, s, resp)
      PROVE  /\ task'[i].st = "active" /\ task'[i].stage = s
             /\ \A j \in UploadIDs : j # i => task'[j] = task[j]
  <2>1. CASE Step(i, s)
    BY Zenon, SMT, <1>2, <1>4, <2>1, StepFacts
  <2>2. CASE StepResp(i, s, resp)
    BY Zenon, SMT, <1>4, <2>2, StepFacts
  <2> QED BY Zenon, SMT, <1>4, <2>1, <2>2
<1>5. CASE StartTask(i)
  <2>1. task[i].st \in {"pending", "retry"} /\ results' = results
    BY Zenon, SMT, <1>5 DEF StartTask
  <2>2. task'[i].st = "active" /\ \A j \in UploadIDs : j # i => task'[j] = task[j]
    BY ZenonT(30), SMTT(60), <1>2, <1>5 DEF StartTask, Tasks
  <2>3. ~Over(i)
    BY Zenon, SMT, <2>1 DEF Over
  <2> QED BY Zenon, SMT, <1>1, <1>3, <2>1, <2>2, <2>3
<1>6. CASE Analyze(i) \/ Reflect(i) \/ CallSDK(i)
  <2>1. task[i].st = "active" /\ task[i].stage \in {"analyze", "reflect", "call"} /\ results' = results
    BY Zenon, SMT, <1>6 DEF Analyze, Reflect, CallSDK, Running
  <2>2. \E s \in Stages, resp \in Response : Step(i, s) \/ StepResp(i, s, resp)
    BY Zenon, SMT, <1>2, <1>6 DEF Analyze, Reflect, CallSDK, Stages, Response
  <2>3. task'[i].st = "active" /\ \A j \in UploadIDs : j # i => task'[j] = task[j]
    BY Zenon, SMT, <2>1, <2>2, <1>4
  <2>4. ~Over(i)
    BY Zenon, SMT, <2>1 DEF Over
  <2> QED BY Zenon, SMT, <1>1, <1>3, <2>1, <2>3, <2>4
<1>7. CASE WriteResult(i) \/ WriteFailure(i)
  <2>1. task[i].st = "active" /\ task[i].stage \in {"write", "fatal"}
    BY Zenon, SMT, <1>7 DEF WriteResult, WriteFailure, Running
  <2>2. ~Over(i)
    BY Zenon, SMT, <2>1 DEF Over
  <2>3. PICK s \in {"done", "skip", "again"} :
           Step(i, s) /\ (results' = results \/ s \in {"done", "skip"})
    BY Zenon, SMT, <1>7 DEF WriteResult, WriteFailure
  <2>4. s \in Stages
    BY Zenon, SMT DEF Stages
  <2>5. /\ task'[i].st = "active" /\ task'[i].stage = s
        /\ \A j \in UploadIDs : j # i => task'[j] = task[j]
    BY Zenon, SMT, <1>2, <1>4, <2>1, <2>3, <2>4
  <2>6. PICK e \in BOOLEAN : results' = results \/ results' = Append(results, Result(i, task[i].resp, e))
    BY Zenon, SMT, <1>7 DEF WriteResult, WriteFailure
  <2>7. Result(i, task[i].resp, e) \in Results /\ Result(i, task[i].resp, e).id = i
    BY Zenon, SMT, <1>2 DEF Result, Results
  <2>8. s \in {"done", "skip"} => Over(i)'
    BY Zenon, SMT, <2>5 DEF Over
  <2> QED BY Zenon, SMT, <1>1, <1>3, <2>1, <2>2, <2>3, <2>5, <2>6, <2>7, <2>8
<1>8. CASE FinishTask(i)
  <2>1. task[i].st = "active" /\ task[i].stage \in {"done", "skip", "again"} /\ results' = results
    BY Zenon, SMT, <1>8 DEF FinishTask, Running
  <2>2. \E st \in {"completed", "archived", "retry"} : \E n :
           /\ task' = [task EXCEPT ![i].st = st, ![i].tries = n]
           /\ st = "retry" => task[i].stage = "again"
    <3>1. CASE Running(i, "done") /\ task' = [task EXCEPT ![i].st = "completed"]
      <4>1. task' = [task EXCEPT ![i].st = "completed", ![i].tries = task[i].tries]
        BY ZenonT(30), SMTT(60), <1>2, <3>1 DEF Tasks
      <4> QED BY Zenon, SMT, <4>1
    <3>2. CASE Running(i, "skip") /\ task' = [task EXCEPT ![i].st = "archived"]
      <4>1. task' = [task EXCEPT ![i].st = "archived", ![i].tries = task[i].tries]
        BY ZenonT(30), SMTT(60), <1>2, <3>2 DEF Tasks
      <4> QED BY Zenon, SMT, <4>1
    <3>3. CASE Running(i, "again") /\ Retry(i)
      BY Zenon, SMT, <3>3 DEF Retry, Running
    <3> QED BY Zenon, SMT, <1>8, <3>1, <3>2, <3>3 DEF FinishTask
  <2>3. PICK st \in {"completed", "archived", "retry"} : \E n :
           /\ task' = [task EXCEPT ![i].st = st, ![i].tries = n]
           /\ st = "retry" => task[i].stage = "again"
    BY Zenon, <2>2
  <2>4. PICK n : task' = [task EXCEPT ![i].st = st, ![i].tries = n]
    BY Zenon, <2>3
  <2>5. st = "retry" => task[i].stage = "again"
    BY Zenon, <2>3
  <2>6. task'[i].st = st /\ \A j \in UploadIDs : j # i => task'[j] = task[j]
    BY ZenonT(30), SMTT(60), <1>2, <2>4 DEF Tasks
  <2>7. Over(i) => Over(i)'
    BY Zenon, SMT, <2>1, <2>3, <2>5, <2>6 DEF Over
  <2> QED BY Zenon, SMT, <1>1, <1>3, <2>1, <2>6, <2>7
<1> QED BY Zenon, SMT, <1>5, <1>6, <1>7, <1>8 DEF TaskSteps

\* Storing a result touches the row, the file and the query of its upload only.
LEMMA SaveMoves ==
  ASSUME GeoInv, SaveSteps
  PROVE  /\ UNCHANGED <<sent, listener, notify, task, repeatable, late>> /\ lost \subseteq lost'
         /\ \A j \in UploadIDs : ~Held(j) => row'[j] = row[j] /\ file'[j] = file[j] /\ pq'[j] = pq[j]
         /\ \A j \in UploadIDs : /\ row'[j] \in {row[j], "failed", "finished"}
                                 /\ file'[j] \in {file[j], "removed"}
<1>1. UNCHANGED <<sent, listener, notify, task, repeatable, late>> /\ lost \subseteq lost'
  BY Zenon, SMT DEF SaveSteps, GetUploadProcessResult, SaveFailed, SaveFinished, SaveQuery, SaveFails
<1>2. /\ row \in [UploadIDs -> {"none", "created", "uploading", "received", "finished", "failed", "terminated"}]
      /\ file \in [UploadIDs -> {"none", "tus", "removed"} \cup Users]
      /\ pq \in [UploadIDs -> {"none", "received", "succeeded", "failed"}]
  BY Zenon, SMT DEF GeoInv, GeoTypeOK
<1>3. CASE GetUploadProcessResult \/ SaveFails
  BY Zenon, SMT, <1>1, <1>3 DEF GetUploadProcessResult, SaveFails, diskVars, dbVars
<1>4. CASE SaveFailed \/ SaveFinished \/ SaveQuery
  <2>1. got # <<>>
    BY <1>4 DEF SaveFailed, SaveFinished, SaveQuery
  <2>2. \/ row' = [row EXCEPT ![got[1].id] = "failed"] /\ UNCHANGED <<file, pq>>
        \/ /\ row' = [row EXCEPT ![got[1].id] = "finished"] /\ UNCHANGED pq
           /\ file' = [file EXCEPT ![got[1].id] = "removed"]
        \/ UNCHANGED <<row, file, pq>>
        \/ /\ pq' = [pq EXCEPT ![got[1].id] = ResultStatus(got[1])]
           /\ UNCHANGED <<row, file>>
    BY Zenon, SMT, <1>4 DEF SaveFailed, SaveFinished, SaveQuery, diskVars
  <2> QED BY Zenon, SMT, <1>1, <1>2, <2>1, <2>2 DEF Held
<1> QED BY Zenon, SMT, <1>3, <1>4 DEF SaveSteps

\* An upload with a result in hand has a task, and its Notify is over.
LEMMA HeldFacts ==
  ASSUME GeoInv, GeoOrder, NEW i \in UploadIDs, Held(i)
  PROVE  /\ task[i].st # "none" /\ row[i] # "none" /\ file[i] # "none" /\ notify[i].pc = "idle"
         /\ ~Pending("created", i) /\ ~Pending("terminated", i)
<1>1. Backed(got[1]) /\ got[1].id = i
  BY Zenon, SMT, GotFacts DEF Held
<1>2. task[i].st # "none"
  BY Zenon, SMT, <1>1 DEF Backed
<1>3. Recorded(i) /\ Way(i)
  BY Zenon, SMT DEF GeoOrder, GeoInv
<1> QED BY Zenon, SMT, <1>2, <1>3 DEF Recorded, Way

\* Results are stored for uploads that have their task.
LEMMA SaveRecorded ==
  ASSUME GeoInv, GeoOrder, SaveSteps, NEW j \in UploadIDs
  PROVE  Recorded(j)'
<1>1. /\ UNCHANGED <<sent, listener, notify, task>>
      /\ ~Held(j) => row'[j] = row[j] /\ file'[j] = file[j]
      /\ row'[j] \in {row[j], "failed", "finished"} /\ file'[j] \in {file[j], "removed"}
  BY Zenon, SMT, SaveMoves
<1>2. Recorded(j)
  BY Zenon, SMT DEF GeoOrder
<1>3. CASE ~Held(j)
  BY Zenon, SMT, <1>1, <1>2, <1>3, RecordedKept
<1>4. CASE Held(j)
  <2>1. /\ task[j].st # "none" /\ row[j] # "none" /\ file[j] # "none" /\ notify[j].pc = "idle"
        /\ ~Pending("created", j) /\ ~Pending("terminated", j)
    BY Zenon, SMT, <1>4, HeldFacts
  <2>2. row'[j] # "none" /\ file'[j] # "none"
    BY Zenon, SMT, <1>1, <2>1
  <2> QED BY Zenon, SMT, <1>1, <2>1, <2>2 DEF Recorded, Pending
<1> QED BY Zenon, SMT, <1>3, <1>4

\* After a crash no event is pending and no request runs; a task that ran is
\* one to repeat.
LEMMA CrashMoves ==
  ASSUME GeoInv, GeoCrash
  PROVE  /\ UNCHANGED <<file, row, pq, results, late>> /\ lost \subseteq lost'
         /\ sent' = {} /\ listener' = <<>> /\ got' = <<>>
         /\ \A j \in UploadIDs : /\ notify'[j].pc = "idle"
                                 /\ task'[j].st = "none" <=> task[j].st = "none"
                                 /\ repeatable'[j] = 0 => task'[j] = task[j] /\ repeatable[j] = 0
                                 /\ repeatable'[j] > 0 \/ repeatable'[j] = repeatable[j]
<1>1. /\ UNCHANGED <<file, row, pq, results, late>> /\ lost \subseteq lost'
      /\ sent' = {} /\ listener' = <<>> /\ got' = <<>>
      /\ notify' = [j \in UploadIDs |-> NoNotify]
  BY Zenon, SMT DEF GeoCrash, diskVars, dbVars
<1>2. ASSUME NEW j \in UploadIDs
      PROVE  /\ notify'[j].pc = "idle"
             /\ task'[j].st = "none" <=> task[j].st = "none"
             /\ repeatable'[j] = 0 => task'[j] = task[j] /\ repeatable[j] = 0
             /\ repeatable'[j] > 0 \/ repeatable'[j] = repeatable[j]
  <2>1. notify'[j].pc = "idle"
    BY Zenon, SMT, <1>1 DEF NoNotify
  <2>2. repeatable'[j] = IF task[j].st = "active" THEN repeatable[j] + 1 ELSE repeatable[j]
    BY Zenon, SMT DEF GeoCrash
  <2>3. repeatable[j] \in Nat /\ task[j] \in Tasks
    BY Zenon, SMT DEF GeoInv, GeoTypeOK
  <2>4. CASE task[j].st = "active"
    <3> DEFINE st == IF task[j].tries < MaxRetry THEN "retry" ELSE "archived"
               n == IF task[j].tries < MaxRetry THEN task[j].tries + 1 ELSE task[j].tries
    <3>1. task'[j] = [task[j] EXCEPT !.st = st, !.tries = n]
      BY Zenon, SMT, <2>4 DEF GeoCrash
    <3>2. st # "none"
      BY Zenon, SMT
    <3> HIDE DEF st, n
    <3>3. task'[j].st # "none"
      BY Zenon, SMT, <2>3, <3>1, <3>2 DEF Tasks
    <3>4. repeatable'[j] > 0
      BY <2>2, <2>3, <2>4
    <3> QED BY <2>1, <2>4, <3>3, <3>4
  <2>5. CASE task[j].st # "active"
    <3>1. task'[j] = task[j] /\ repeatable'[j] = repeatable[j]
      BY Zenon, SMT, <2>2, <2>5 DEF GeoCrash
    <3> QED BY Zenon, SMT, <2>1, <3>1
  <2> QED BY Zenon, SMT, <2>4, <2>5
<1> QED BY Zenon, SMT, <1>1, <1>2

\* Every step keeps the order of events, row, file and task.
LEMMA RecordedStep ==
  ASSUME GeoInv, GeoOrder, GeoNext, NEW j \in UploadIDs
  PROVE  Recorded(j)'
<1>1. Recorded(j)
  BY Zenon, SMT DEF GeoOrder
<1>2. ASSUME NEW i \in UploadIDs, TaskSteps(i) PROVE Recorded(j)'
  <2>1. /\ UNCHANGED <<file, sent, listener, row, notify>>
        /\ task[i].st # "none" /\ task'[i].st # "none"
        /\ j # i => task'[j] = task[j]
    BY Zenon, SMT, <1>2, TaskMoves
  <2>2. task'[j].st = "none" <=> task[j].st = "none"
    BY Zenon, SMT, <2>1
  <2> QED BY Zenon, SMT, <1>1, <2>1, <2>2, RecordedKept
<1>3. CASE GeoCrash
  <2>1. /\ UNCHANGED <<file, row>> /\ sent' = {} /\ listener' = <<>> /\ notify'[j].pc = "idle"
        /\ task'[j].st = "none" <=> task[j].st = "none"
    BY Zenon, SMT, <1>3, CrashMoves
  <2>2. ~Pending("created", j)' /\ ~Pending("terminated", j)'
    BY Zenon, SMT, <2>1, EventFacts DEF Pending
  <2> QED BY Zenon, SMT, <1>1, <2>1, <2>2 DEF Recorded
<1> QED BY Zenon, SMT, <1>2, <1>3, TusRecorded, EventRecorded, NotifyRecorded, SaveRecorded DEF GeoNext

\* With the results where they are, they stay single.
LEMMA SingleKept ==
  ASSUME NEW j \in UploadIDs, Single(j), results' = results, got' = got,
         Settled(j)' => Settled(j), Over(j) => Over(j)'
  PROVE  Single(j)'
  BY Zenon, SMT DEF Single, Listed, Held

\* Requests and events neither settle a query nor restart a task; Notify makes
\* a task where there was none.
LEMMA QuietMoves ==
  ASSUME GeoInv, NEW j \in UploadIDs,
         \/ EventSteps
         \/ \E i \in UploadIDs : PostFile(i) \/ PatchFile(i) \/ DelFile(i) \/ NotifySteps(i)
         \/ \E i \in UploadIDs, u \in Users : StartNotify(i, u)
  PROVE  /\ UNCHANGED <<results, got, repeatable, lost>>
         /\ Settled(j)' => Settled(j)
         /\ Over(j) => Over(j)'
<1>1. pq \in [UploadIDs -> {"none", "received", "succeeded", "failed"}] /\ task \in [UploadIDs -> Tasks]
  BY Zenon, SMT DEF GeoInv, GeoTypeOK
<1>2. CASE \E i \in UploadIDs : Enqueue(i)
  <2>1. PICK i \in UploadIDs : Enqueue(i)
    BY Zenon, SMT, <1>2
  <2>2. /\ UNCHANGED <<results, got, repeatable, lost, pq>> /\ task[i].st = "none"
        /\ task' = [task EXCEPT ![i] = [NoGeoTask EXCEPT !.st = "pending", !.dir = notify[i].user]]
    BY Zenon, SMT, <2>1 DEF Enqueue, dbVars
  <2>3. Over(j) => j # i
    BY Zenon, SMT, <2>2 DEF Over
  <2>4. j # i => task'[j] = task[j]
    BY Zenon, SMT, <1>1, <2>2
  <2> QED BY Zenon, SMT, <2>2, <2>3, <2>4 DEF Over, Settled
<1>3. CASE \E i \in UploadIDs : SetPublishQuery(i)
  <2>1. PICK i \in UploadIDs : SetPublishQuery(i)
    BY Zenon, SMT, <1>3
  <2>2. /\ UNCHANGED <<results, got, repeatable, lost, task>>
        /\ pq' = pq \/ pq' = [pq EXCEPT ![i] = "received"]
    BY Zenon, SMT, <2>1 DEF SetPublishQuery
  <2> QED BY Zenon, SMT, <1>1, <2>2 DEF Over, Settled
<1>4. CASE ~\E i \in UploadIDs : Enqueue(i) \/ SetPublishQuery(i)
  <2>1. CASE EventSteps
    <3>1. UNCHANGED <<results, got, repeatable, lost, task, pq>>
      BY Zenon, SMT, <2>1 DEF EventSteps, TakeEvent, HandleEvent, DropEvent, dbVars
    <3> QED BY Zenon, SMT, <3>1 DEF Over, Settled
  <2>2. CASE \E i \in UploadIDs : PostFile(i) \/ PatchFile(i) \/ DelFile(i) \/ NotifySteps(i)
    <3>1. UNCHANGED <<results, got, repeatable, lost, task, pq>>
      BY Zenon, SMT, <1>4, <2>2 DEF PostFile, PatchFile, DelFile, NotifySteps, Rename, DecodeFails, Decode,
         RemoveInfo, ProcessUpload, ProcessUploadFails, EnqueueFails, EnqueueFailed, dbVars
    <3> QED BY Zenon, SMT, <3>1 DEF Over, Settled
  <2>3. CASE \E i \in UploadIDs, u \in Users : StartNotify(i, u)
    <3>1. UNCHANGED <<results, got, repeatable, lost, task, pq>>
      BY Zenon, SMT, <2>3 DEF StartNotify, dbVars
    <3> QED BY Zenon, SMT, <3>1 DEF Over, Settled
  <2> QED BY Zenon, SMT, <2>1, <2>2, <2>3
<1> QED BY Zenon, SMT, <1>2, <1>3, <1>4

\* A task that is not over has no result anywhere; the one it writes is its first.
LEMMA TaskSingle ==
  ASSUME GeoInv, GeoOrder, NEW i \in UploadIDs, TaskSteps(i), NEW j \in UploadIDs, repeatable'[j] = 0
  PROVE  Single(j)'
<1>1. /\ UNCHANGED <<pq, got>> /\ (j # i => task'[j] = task[j] /\ repeatable'[j] = repeatable[j])
      /\ repeatable'[i] = repeatable[i] \/ repeatable'[i] > 0
      /\ Over(i) => Over(i)'
      /\ \/ results' = results
         \/ \E r \in Results : results' = Append(results, r) /\ r.id = i /\ ~Over(i) /\ Over(i)'
  BY Zenon, SMT, TaskMoves
<1>2. repeatable[j] = 0
  BY <1>1
<1>3. Single(j) /\ results \in Seq(Results)
  BY Zenon, SMT, <1>2 DEF GeoOrder, GeoInv, GeoTypeOK
<1>4. (Over(j) => Over(j)') /\ (Settled(j)' <=> Settled(j)) /\ (Held(j)' <=> Held(j))
  BY Zenon, SMT, <1>1 DEF Over, Settled, Held
<1>5. CASE results' = results
  BY Zenon, SMT, <1>1, <1>3, <1>4, <1>5, SingleKept
<1>6. CASE \E r \in Results : results' = Append(results, r) /\ r.id = i /\ ~Over(i) /\ Over(i)'
  <2>1. PICK r \in Results : results' = Append(results, r) /\ r.id = i /\ ~Over(i) /\ Over(i)'
    BY Zenon, SMT, <1>6
  <2> DEFINE n == Len(results)
  <2>2. /\ n \in Nat /\ Len(results') = n + 1
        /\ \A k \in 1 .. n + 1 : results'[k] = IF k = n + 1 THEN r ELSE results[k]
    BY <1>3, <2>1
  <2> HIDE DEF n
  <2>3. \A k \in 1 .. n + 1 : k = n + 1 \/ k \in 1 .. n
    BY <2>2
  <2>4. CASE j = i
    <3>1. ~Settled(j) /\ ~Listed(j) /\ ~Held(j)
      BY Zenon, SMT, <1>3, <2>1, <2>4 DEF Single
    <3>2. \A k \in 1 .. n : results[k].id # j
      BY Zenon, SMT, <3>1 DEF Listed, n
    <3>3. \A k \in 1 .. Len(results') : results'[k].id = j => k = n + 1
      BY Zenon, SMT, <2>2, <2>3, <3>2
    <3> QED BY Zenon, SMT, <1>4, <2>1, <2>4, <3>1, <3>3 DEF Single
  <2>5. CASE j # i
    <3>1. \A k \in 1 .. Len(results') : results'[k].id = j => k \in 1 .. n /\ results[k].id = j
      BY Zenon, SMT, <2>1, <2>2, <2>3, <2>5
    <3>2. Listed(j)' => Listed(j)
      BY Zenon, SMT, <3>1 DEF Listed, n
    <3>3. \A k, l \in 1 .. Len(results') : results'[k].id = j /\ results'[l].id = j => k = l
      BY Zenon, SMT, <1>3, <3>1 DEF Single, n
    <3> QED BY Zenon, SMT, <1>3, <1>4, <3>2, <3>3 DEF Single
  <2> QED BY Zenon, SMT, <2>4, <2>5
<1> QED BY Zenon, SMT, <1>1, <1>5, <1>6

\* The result in hand is the same once its upload is marked finished.
LEMMA Doubled ==
  ASSUME GeoInv, SaveFinished
  PROVE  got # <<>> /\ got'[1] = got[1]
<1>1. Len(got) = 1 /\ got # <<>> /\ got' = got \o got
  BY DEF SaveFinished
<1>2. got \in Seq(Results)
  BY Zenon, SMT DEF GeoInv, GeoTypeOK
<1>3. \A k \in 1 .. Len(got) + Len(got) : got'[k] = IF k <= Len(got) THEN got[k] ELSE got[k - Len(got)]
  BY ZenonT(30), SMTT(60), <1>1, <1>2, ConcatProperties
<1> QED BY <1>1, <1>3

\* A result leaves the list for the hand, and the hand for the table.
LEMMA SaveSingle ==
  ASSUME GeoInv, GeoOrder, SaveSteps, NEW j \in UploadIDs, repeatable'[j] = 0
  PROVE  Single(j)'
<1>1. UNCHANGED <<task, repeatable>> /\ (~Held(j) => pq'[j] = pq[j])
  BY Zenon, SMT, SaveMoves
<1>2. Single(j) /\ results \in Seq(Results)
  BY Zenon, SMT, <1>1 DEF GeoOrder, GeoInv, GeoTypeOK
<1>3. Over(j)' <=> Over(j)
  BY Zenon, SMT, <1>1 DEF Over
<1>4. CASE GetUploadProcessResult
  <2>1. /\ got = <<>> /\ results # <<>> /\ got' = <<Head(results)>> /\ results' = Tail(results) /\ pq' = pq
    BY Zenon, SMT, <1>4 DEF GetUploadProcessResult, dbVars
  <2> DEFINE n == Len(results)
  <2>2. /\ n \in Nat /\ n # 0 /\ Len(results') = n - 1 /\ Head(results) = results[1]
        /\ \A k \in 1 .. n - 1 : results'[k] = results[k + 1]
        /\ got'[1] = results[1] /\ got' # <<>>
    BY <1>2, <2>1
  <2> HIDE DEF n
  <2>3. 1 \in 1 .. n /\ \A k \in 1 .. n - 1 : k + 1 \in 1 .. n /\ k + 1 # 1
    BY <2>2
  <2>4. (Held(j)' => Listed(j)) /\ ~Held(j) /\ (Settled(j)' <=> Settled(j))
    BY Zenon, SMT, <2>1, <2>2, <2>3 DEF Held, Listed, Settled, n
  <2>5. Listed(j)' => Listed(j)
    <3>1. SUFFICES ASSUME NEW k \in 1 .. n - 1, results'[k].id = j PROVE Listed(j)
      BY Zenon, SMT, <2>2 DEF Listed
    <3>2. results[k + 1].id = j /\ k + 1 \in 1 .. n
      BY Zenon, SMT, <2>2, <2>3, <3>1
    <3> QED BY Zenon, SMT, <3>2 DEF Listed, n
  <2>6. Held(j)' => ~Listed(j)'
    <3>1. SUFFICES ASSUME Held(j)', NEW k \in 1 .. n - 1, results'[k].id = j PROVE FALSE
      BY Zenon, SMT, <2>2 DEF Listed
    <3>2. results[1].id = j /\ results[k + 1].id = j /\ k + 1 \in 1 .. n /\ k + 1 # 1
      BY Zenon, SMT, <2>2, <2>3, <3>1 DEF Held
    <3> QED BY Zenon, SMT, <1>2, <2>3, <3>2 DEF Single, n
  <2>7. \A k, l \in 1 .. Len(results') : results'[k].id = j /\ results'[l].id = j => k = l
    <3>1. SUFFICES ASSUME NEW k \in 1 .. n - 1, NEW l \in 1 .. n - 1, results'[k].id = j, results'[l].id = j
                   PROVE  k = l
      BY Zenon, SMT, <2>2
    <3>2. /\ results[k + 1].id = j /\ results[l + 1].id = j /\ k + 1 \in 1 .. n /\ l + 1 \in 1 .. n
      BY Zenon, SMT, <2>2, <2>3, <3>1
    <3>3. k + 1 = l + 1
      BY Zenon, SMT, <1>2, <3>2 DEF Single, n
    <3> QED BY <3>3, <2>2
  <2> QED BY Zenon, SMT, <1>2, <1>3, <2>4, <2>5, <2>6, <2>7 DEF Single
<1>5. CASE SaveFailed \/ SaveFails
  <2>1. results' = results /\ got' = <<>> /\ pq' = pq
    BY Zenon, SMT, <1>5 DEF SaveFailed, SaveFails, dbVars
  <2> QED BY Zenon, SMT, <1>2, <1>3, <2>1 DEF Single, Settled, Held, Listed
<1>6. CASE SaveFinished
  <2>1. results' = results /\ pq' = pq
    BY Zenon, SMT, <1>6 DEF SaveFinished
  <2>2. got # <<>> /\ got'[1] = got[1]
    BY Zenon, SMT, <1>6, Doubled
  <2>3. Held(j)' => Held(j)
    BY Zenon, SMT, <2>1, <2>2 DEF Held
  <2> QED BY Zenon, SMT, <1>2, <1>3, <2>1, <2>3 DEF Single, Settled, Listed
<1>7. CASE SaveQuery
  <2>1. results' = results /\ got' = <<>> /\ (~Held(j) => pq'[j] = pq[j])
    BY Zenon, SMT, <1>1, <1>7 DEF SaveQuery
  <2>2. ~Held(j)' /\ (Settled(j)' => Settled(j) \/ Held(j)) /\ (Listed(j)' <=> Listed(j))
    BY Zenon, SMT, <2>1 DEF Held, Settled, Listed
  <2> QED BY Zenon, SMT, <1>2, <1>3, <2>1, <2>2 DEF Single
<1> QED BY Zenon, SMT, <1>4, <1>5, <1>6, <1>7 DEF SaveSteps

\* Every step keeps the results of a task that is not repeated single.
LEMMA SingleStep ==
  ASSUME GeoInv, GeoOrder, GeoNext, NEW j \in UploadIDs, repeatable'[j] = 0
  PROVE  Single(j)'
<1>1. CASE \/ EventSteps
           \/ \E i \in UploadIDs : PostFile(i) \/ PatchFile(i) \/ DelFile(i) \/ NotifySteps(i)
           \/ \E i \in UploadIDs, u \in Users : StartNotify(i, u)
  <2>1. /\ UNCHANGED <<results, got, repeatable>> /\ (Settled(j)' => Settled(j)) /\ (Over(j) => Over(j)')
    BY Zenon, SMT, <1>1, QuietMoves
  <2>2. Single(j)
    BY Zenon, SMT, <2>1 DEF GeoOrder
  <2> QED BY Zenon, SMT, <2>1, <2>2, SingleKept
<1>2. CASE GeoCrash
  <2>1. /\ UNCHANGED <<pq, results>> /\ got' = <<>> /\ task'[j] = task[j] /\ repeatable[j] = 0
    BY Zenon, SMT, <1>2, CrashMoves
  <2>2. Single(j)
    BY Zenon, SMT, <2>1 DEF GeoOrder
  <2> QED BY Zenon, SMT, <2>1, <2>2 DEF Single, Settled, Listed, Held, Over
<1> QED BY Zenon, SMT, <1>1, <1>2, TaskSingle, SaveSingle DEF GeoNext

\* A finished upload stays so: a late event, a repeated task and a lost result
\* are what Excused is about, and nothing else writes its row.
LEMMA FinishedStep ==
  ASSUME GeoInv, GeoOrder, GeoNext, NEW j \in UploadIDs
  PROVE  Finished(j)'
<1>1. Finished(j) /\ Recorded(j) /\ Way(j) /\ (repeatable[j] = 0 => Single(j)) /\ repeatable[j] \in Nat
  BY Zenon, SMT DEF GeoOrder, GeoInv, GeoTypeOK
<1>2. Settled(j) \/ Held(j) => task[j].st # "none" \/ Excused(j)
  <2>1. Held(j) => task[j].st # "none"
    BY Zenon, SMT, HeldFacts
  <2>2. Settled(j) /\ repeatable[j] = 0 => task[j].st # "none"
    BY Zenon, SMT, <1>1 DEF Single, Over
  <2>3. repeatable[j] = 0 \/ repeatable[j] > 0
    BY <1>1
  <2> QED BY Zenon, SMT, <2>1, <2>2, <2>3 DEF Excused
<1>3. CASE EventSteps
  <2>1. UNCHANGED <<pq, got, repeatable, lost>> /\ late \subseteq late'
    BY Zenon, SMT, <1>3 DEF EventSteps, TakeEvent, HandleEvent, DropEvent, dbVars
  <2>2. row[j] = "finished" /\ task[j].st # "none" => row'[j] = "finished" \/ j \in late'
    <3>1. CASE ~HandleEvent
      <4>1. row' = row
        BY Zenon, SMT, <1>3, <3>1 DEF EventSteps, TakeEvent, DropEvent, dbVars
      <4> QED BY Zenon, SMT, <4>1
    <3>2. CASE HandleEvent
      <4> DEFINE e == Head(listener)
      <4>1. /\ row' = [row EXCEPT ![e.id] = Marked(e)]
            /\ late' = IF e.kind = "progress" /\ row[e.id] \notin {"created", "uploading"}
                       THEN late \cup {e.id} ELSE late
        BY Zenon, SMT, <3>2 DEF HandleEvent
      <4>2. e \in Events /\ listener = <<e>> /\ e = Event(e.kind, e.id)
        <5>1. listener \in Seq(Events) /\ Len(listener) <= 1 /\ listener # <<>>
          BY Zenon, SMT, <3>2 DEF HandleEvent, GeoInv, GeoTypeOK
        <5>2. e \in Events /\ listener = <<e>>
          BY Zenon, SMT, <5>1, Taken
        <5> QED BY <5>2 DEF Events, Event
      <4> HIDE DEF e
      <4>3. row \in [UploadIDs -> {"none", "created", "uploading", "received", "finished", "failed", "terminated"}]
            /\ e.id \in UploadIDs /\ e.kind \in {"created", "progress", "terminated"}
        BY Zenon, SMT, <4>2 DEF GeoInv, GeoTypeOK, Events
      <4>4. CASE j # e.id
        BY Zenon, SMT, <4>1, <4>3, <4>4
      <4>5. CASE j = e.id /\ e.kind = "progress"
        BY Zenon, SMT, <4>1, <4>3, <4>5
      <4>6. CASE j = e.id /\ e.kind \in {"created", "terminated"}
        <5>1. Pending(e.kind, j)
          BY Zenon, SMT, <4>2, <4>6 DEF Pending
        <5> QED BY Zenon, SMT, <1>1, <4>6, <5>1 DEF Recorded
      <4> QED BY Zenon, SMT, <4>3, <4>4, <4>5, <4>6
    <3> QED BY Zenon, SMT, <3>1, <3>2
  <2> QED BY Zenon, SMT, <1>1, <1>2, <2>1, <2>2 DEF Finished, Settled, Held, Excused
<1>4. CASE \/ \E i \in UploadIDs : PostFile(i) \/ PatchFile(i) \/ DelFile(i) \/ NotifySteps(i)
           \/ \E i \in UploadIDs, u \in Users : StartNotify(i, u)
  <2>1. /\ UNCHANGED <<got, repeatable, lost>> /\ (Settled(j)' => Settled(j))
    BY Zenon, SMT, <1>4, QuietMoves
  <2>2. late' = late
    BY Zenon, SMT, <1>4 DEF PostFile, PatchFile, DelFile, NotifySteps, Rename, DecodeFails, Decode, RemoveInfo,
       ProcessUpload, ProcessUploadFails, SetPublishQuery, Enqueue, EnqueueFails, EnqueueFailed, StartNotify
  <2>3. row'[j] = row[j] \/ notify[j].pc \in {"process", "failed"}
    BY Zenon, SMT, <1>4 DEF PostFile, PatchFile, DelFile, NotifySteps, Rename, DecodeFails, Decode, RemoveInfo,
       ProcessUpload, ProcessUploadFails, SetPublishQuery, Enqueue, EnqueueFails, EnqueueFailed, StartNotify,
       dbVars, At, GeoInv, GeoTypeOK
  <2>4. notify[j].pc \in {"process", "failed"} => task[j].st = "none"
    BY Zenon, SMT, <1>1 DEF Way
  <2> QED BY Zenon, SMT, <1>1, <1>2, <2>1, <2>2, <2>3, <2>4 DEF Finished, Held, Excused
<1>5. ASSUME NEW i \in UploadIDs, TaskSteps(i) PROVE Finished(j)'
  <2>1. /\ UNCHANGED <<row, pq, got, late>> /\ lost \subseteq lost'
        /\ repeatable'[j] = repeatable[j] \/ repeatable'[j] > 0
    BY Zenon, SMT, <1>5, TaskMoves
  <2> QED BY Zenon, SMT, <1>1, <2>1 DEF Finished, Settled, Held, Excused
<1>6. CASE SaveSteps
  <2>1. /\ UNCHANGED <<repeatable, late>> /\ lost \subseteq lost'
        /\ ~Held(j) => row'[j] = row[j] /\ pq'[j] = pq[j]
    BY Zenon, SMT, <1>6, SaveMoves
  <2>2. Excused(j) => Excused(j)'
    BY Zenon, SMT, <2>1 DEF Excused
  <2>3. CASE GetUploadProcessResult
    <3>1. row' = row /\ pq' = pq /\ Len(got') # 2
      BY <2>3 DEF GetUploadProcessResult, dbVars
    <3> QED BY Zenon, SMT, <1>1, <2>2, <3>1 DEF Finished, Settled
  <2>4. CASE SaveFailed
    <3>1. got' = <<>> /\ pq' = pq
      BY Zenon, SMT, <2>4 DEF SaveFailed
    <3>2. Held(j) /\ repeatable[j] = 0 => ~Settled(j)
      BY Zenon, SMT, <1>1 DEF Single
    <3>3. repeatable[j] = 0 \/ Excused(j)
      BY <1>1 DEF Excused
    <3> QED BY Zenon, SMT, <1>1, <2>1, <2>2, <3>1, <3>2, <3>3 DEF Finished, Settled, Held
  <2>5. CASE SaveFinished
    <3>1. pq' = pq
      BY Zenon, SMT, <2>5 DEF SaveFinished
    <3>2. got # <<>> /\ got'[1] = got[1]
      BY Zenon, SMT, <2>5, Doubled
    <3>3. Held(j) => row'[j] = "finished" \/ j \in lost'
      BY Zenon, SMT, <2>5 DEF SaveFinished, Held, GeoInv, GeoTypeOK
    <3> QED BY Zenon, SMT, <1>1, <2>1, <2>2, <3>1, <3>2, <3>3 DEF Finished, Settled, Held, Excused
  <2>6. CASE SaveQuery
    <3>1. got' = <<>> /\ row' = row /\ Len(got) = 2
      BY Zenon, SMT, <2>6 DEF SaveQuery
    <3> QED BY Zenon, SMT, <1>1, <2>1, <2>2, <3>1 DEF Finished, Settled, Held
  <2>7. CASE SaveFails
    <3>1. got' = <<>> /\ row' = row /\ pq' = pq
      BY Zenon, SMT, <2>7 DEF SaveFails, dbVars
    <3> QED BY Zenon, SMT, <1>1, <2>2, <3>1 DEF Finished, Settled, Held
  <2> QED BY Zenon, SMT, <1>6, <2>3, <2>4, <2>5, <2>6, <2>7 DEF SaveSteps
<1>7. CASE GeoCrash
  <2>1. /\ UNCHANGED <<row, pq, late>> /\ lost \subseteq lost' /\ got' = <<>>
        /\ repeatable'[j] > 0 \/ repeatable'[j] = repeatable[j]
    BY Zenon, SMT, <1>7, CrashMoves
  <2> QED BY Zenon, SMT, <1>1, <2>1 DEF Finished, Settled, Held, Excused
<1> QED BY Zenon, SMT, <1>3, <1>4, <1>5, <1>6, <1>7 DEF GeoNext

\* The order holds from the start, and every step keeps it.
LEMMA GeoOrdered == GeoSpec => []GeoOrder
<1>1. NewHandler => GeoOrder
  <2>1. SUFFICES ASSUME NewHandler, NEW i \in UploadIDs
                 PROVE  Recorded(i) /\ (repeatable[i] = 0 => Single(i)) /\ Finished(i)
    BY Zenon, SMT DEF GeoOrder
  <2>2. /\ sent = {} /\ listener = <<>> /\ row[i] = "none" /\ notify[i].pc = "idle" /\ task[i].st = "none"
        /\ pq[i] = "none" /\ got = <<>> /\ Len(results) = 0
    BY <2>1 DEF NewHandler, NewForklift, NoNotify, NoGeoTask
  <2>3. Recorded(i)
    BY Zenon, SMT, <2>2, EventFacts DEF Recorded, Pending
  <2>4. ~Settled(i) /\ ~Held(i)
    BY Zenon, SMT, <2>2 DEF Settled, Held
  <2>5. \A k \in 1..Len(results) : FALSE
    BY <2>2
  <2> QED BY Zenon, SMT, <2>3, <2>4, <2>5 DEF Single, Listed, Finished
<1>2. GeoInv /\ GeoOrder /\ [GeoNext]_geoVars => GeoOrder'
  <2>1. GeoInv /\ GeoOrder /\ GeoNext => GeoOrder'
    BY Zenon, SMT, RecordedStep, SingleStep, FinishedStep DEF GeoOrder
  <2>2. GeoOrder /\ UNCHANGED geoVars => GeoOrder'
    BY Zenon, SMT DEF geoVars, GeoOrder, Recorded, Pending, Single, Settled, Listed, Held, Over, Finished, Excused
  <2> QED BY Zenon, SMT, <2>1, <2>2
<1> QED BY <1>1, <1>2, GeoInvariance, PTL DEF GeoSpec

\* Publishing v3, for every number of uploads, users, retries and faults:
\* saveUploadProcessingResult marks a query succeeded only for a call the SDK
\* carried out; ProcessTask repeats that call only for a lost answer, a result
\* that could not be written or a crash; a task runs for the complete file of its
\* owner, which stays until the SDK has answered; a 202 of Notify has its task and
\* its query; and the two tables agree on an upload once its query is settled.
THEOREM GeoSafety == GeoSpec => []GeoSafe
<1>1. GeoInv /\ GeoOrder => GeoSafe
  <2>1. SUFFICES ASSUME GeoInv, GeoOrder PROVE GeoSafe
    OBVIOUS
  <2>2. GeoTypeOK /\ accepted \subseteq UploadIDs /\ \A i \in UploadIDs : Way(i) /\ Calls(i) /\ Recorded(i) /\ Finished(i)
    BY Zenon, SMT, <2>1 DEF GeoInv, GeoOrder, GeoTypeOK
  <2>3. SucceededIsPublished /\ PublishedOnce
    BY Zenon, SMT, <2>2 DEF Calls, SucceededIsPublished, PublishedOnce
  <2>4. TaskIsComplete /\ FileKeptForTask
    BY Zenon, SMT, <2>2 DEF Way, TaskIsComplete, FileKeptForTask
  <2>5. AcceptedHasTask
    <3>1. SUFFICES ASSUME NEW i \in accepted PROVE task[i].st # "none" /\ Status(i, Owner(i)) # 404
      BY Zenon, SMT DEF AcceptedHasTask
    <3>2. task[i].st # "none" /\ pq[i] # "none" /\ row[i] # "none"
      BY Zenon, SMT, <2>2 DEF Way, Recorded
    <3>3. pq[i] \in {"received", "succeeded", "failed"}
      BY Zenon, SMT, <2>2, <3>2 DEF GeoTypeOK
    <3> QED BY <3>2, <3>3 DEF Status, GetOwn
  <2>6. SettledIsFinished
    BY Zenon, SMT, <2>2 DEF Finished, Settled, Excused, SettledIsFinished
  <2> QED BY Zenon, SMT, <2>2, <2>3, <2>4, <2>5, <2>6 DEF GeoSafe
<1> QED BY <1>1, GeoInvariance, GeoOrdered, PTL
=================================================================================
