--------------------------- MODULE UploadServiceProofs ---------------------------
(***************************************************************************)
(* Safety of the parts of the uploads service, for any number of uploads,  *)
(* tasks, requests and processes.                                          *)
(*                                                                         *)
(* The uploads (Uploads): the inductive invariant follows one upload       *)
(* through its life (Life): once it is stored in full no request can write *)
(* to it, its row was inserted before the first PATCH and will not be      *)
(* inserted again, and what is on its way to the queue or in it has been   *)
(* recorded.                                                               *)
(*                                                                         *)
(* The service with forklift behind it (Ingest): the inductive invariant   *)
(* tracks every task from the message that queued it to the stream it has  *)
(* made.  A step of the two services is one of Uploads or leaves its state *)
(* alone, so that the invariant of Uploads is taken over as it stands.     *)
(*                                                                         *)
(* The locks in Redis (RedisLocker): mutual exclusion rests on one fact, a *)
(* request that uses its upload owns the key, unless the key has expired   *)
(* under it (Owning).                                                      *)
(*                                                                         *)
(* The life of the process (UploadsLife): what main has built when it gets *)
(* somewhere (Built), and what the goroutine of the signals has undone     *)
(* when it does (Trapped).                                                 *)
(*                                                                         *)
(* Who may upload (UploadTokens): a token carries the user it was issued   *)
(* to, and an upload the token it came with (TokensInv).                   *)
(***************************************************************************)
EXTENDS Ingest, RedisLocker, UploadsLife, UploadTokens, TLAPS

-----------------------------------------------------------------------------
(* Uploads.                                                                *)

\* The upload is stored in full and closed to writers.
Whole(f) == tus[f].offset = Size /\ tus[f].state \in {"finished", "gone"}

Life(f) ==
    /\ tus[f].state = "none" =>
          request[f] = "none" /\ status[f] = "absent" /\ listener["created"].file # f
    /\ request[f] \in {"create", "write"} => tus[f].state = "open"
    /\ request[f] = "complete" => Whole(f)
    /\ request[f] = "create" => status[f] = "absent" /\ listener["created"].file # f
    /\ listener["created"].file = f => status[f] = "absent"
    /\ tus[f].state = "finished" => tus[f].offset = Size
    /\ listener["completed"].file = f => Whole(f)
    /\ listener["notify"].file = f => Whole(f)
    /\ key[f] => Whole(f) /\ status[f] \in {"completed", "processed"}
    /\ owner[f] => status[f] # "absent"
    /\ f \notin withBody /\ (request[f] = "write" \/ Whole(f)) => owner[f]
    /\ listener["notify"].file = f /\ listener["notify"].user /\ f \notin withBody
          => key[f]

\* A listener is free exactly when it holds no upload.
Named == \A h \in Hooks : listener[h].file = NoFile => listener[h] = NoEvent

Sound(m) ==
    m.key => Whole(m.file) /\ (m.user /\ m.file \notin withBody => key[m.file])

UploadsInv ==
    /\ UploadsTypeOK
    /\ Named
    /\ \A f \in Files : Life(f)
    /\ \A m \in handedOff : Sound(m)

-----------------------------------------------------------------------------
\* Initially there are no uploads, events or messages.
LEMMA UploadsInitInv == UploadsInit => UploadsInv
<1> SUFFICES ASSUME UploadsInit PROVE UploadsInv
  OBVIOUS
<1> USE UploadsAssumption
<1>1. UploadsTypeOK
  BY DEF UploadsInit, UploadsTypeOK, Event, NoEvent
<1>2. Named
  BY Zenon, SMT DEF UploadsInit, Named
<1>3. ASSUME NEW f \in Files PROVE Life(f)
  <2>1. \A h \in Hooks : listener[h].file = NoFile
    BY Zenon, SMT DEF UploadsInit, NoEvent
  <2>2. listener["created"].file = NoFile /\ listener["completed"].file = NoFile
        /\ listener["notify"].file = NoFile
    BY Zenon, SMT, <2>1 DEF Hooks
  <2>3. tus[f].state = "none"
    BY Zenon, SMT DEF UploadsInit
  <2>4. f # NoFile
    OBVIOUS
  <2> QED BY Zenon, SMT, <2>2, <2>3, <2>4 DEF UploadsInit, Life, Whole
<1>4. \A m \in handedOff : Sound(m)
  BY Zenon, SMT DEF UploadsInit
<1> QED BY Zenon, SMT, <1>1, <1>2, <1>3, <1>4 DEF UploadsInv

\* A busy listener holds the event of an upload.
LEMMA BusyListener ==
  ASSUME UploadsInv, NEW h \in Hooks, ~Free(h)
  PROVE  listener[h].file \in Files /\ listener[h] \in Event
  BY Zenon, SMT DEF UploadsInv, UploadsTypeOK, Named, Free, Event

\* An empty event names no upload.
LEMMA NoEventFile == NoEvent.file = NoFile /\ NoEvent \in Event
  BY UploadsAssumption DEF NoEvent, Event

\* Whatever was stored in full stays so unless the step opens an upload anew,
\* and messages stay sound.
LEMMA SoundStays ==
  ASSUME UploadsInv, UploadsTypeOK', withBody \subseteq withBody',
         \A g \in Files : Whole(g) => Whole(g)',
         \A g \in Files : key[g] => key'[g],
         NEW m \in handedOff
  PROVE  Sound(m)'
<1>1. m.file \in Files /\ Sound(m)
  BY Zenon, SMT DEF UploadsInv, UploadsTypeOK, Message
<1>2. Whole(m.file) => Whole(m.file)'
  BY Zenon, SMT, <1>1
<1> QED BY Zenon, SMT, <1>1, <1>2 DEF Sound

-----------------------------------------------------------------------------
(* Requests.                                                               *)

\* POST opens an upload nobody has heard of.
LEMMA PostInv ==
  ASSUME UploadsInv, NEW f \in Files, NEW body \in BOOLEAN, PostFile(f, body)
  PROVE  UploadsInv'
<1> USE UploadsAssumption
<1>1. UploadsTypeOK'
  BY SMTT(60), SMTT(45) DEF UploadsInv, UploadsTypeOK, PostFile, table
<1>2. /\ tus[f].state = "none" /\ tus'[f].state = "open" /\ request'[f] = "create"
      /\ \A g \in Files : g # f => tus'[g] = tus[g] /\ request'[g] = request[g]
      /\ UNCHANGED <<owed, listener, object, status, owner, received, key, handedOff>>
      /\ withBody \subseteq withBody' /\ withBody' \subseteq withBody \cup {f}
  BY Zenon, SMT DEF UploadsInv, UploadsTypeOK, PostFile, table
<1>3. Named'
  BY Zenon, SMT, <1>2 DEF UploadsInv, Named
<1>4. ASSUME NEW g \in Files PROVE Life(g)'
  <2>1. Life(g)
    BY Zenon, SMT DEF UploadsInv
  <2>2. CASE g = f
    BY Zenon, SMT, <1>2, <2>1, <2>2 DEF Life, Whole
  <2>3. CASE g # f
    BY Zenon, SMT, <1>2, <2>1, <2>3 DEF Life, Whole
  <2> QED BY Zenon, SMT, <2>2, <2>3
<1>5. \A m \in handedOff' : Sound(m)'
  <2>1. \A g \in Files : Whole(g) => Whole(g)'
    BY Zenon, SMT, <1>2 DEF Whole
  <2> QED BY Zenon, SMT, <1>1, <1>2, <2>1, SoundStays
<1> QED BY Zenon, SMT, <1>1, <1>3, <1>4, <1>5 DEF UploadsInv

\* PATCH opens a request on an upload whose row has its owner.
LEMMA PatchInv ==
  ASSUME UploadsInv, NEW f \in Files, PatchFile(f)
  PROVE  UploadsInv'
<1> USE UploadsAssumption
<1>1. UploadsTypeOK'
  BY Zenon, SMT DEF UploadsInv, UploadsTypeOK, PatchFile, StartPatch, table
<1>2. /\ tus[f].state = "open" /\ owner[f] /\ request'[f] = "write"
      /\ \A g \in Files : g # f => request'[g] = request[g]
      /\ UNCHANGED <<tus, withBody, owed, listener, object, status, owner,
                     received, key, handedOff>>
  BY Zenon, SMT DEF UploadsInv, UploadsTypeOK, PatchFile, StartPatch, verifyUploadFileAccess, table
<1>3. Named'
  BY Zenon, SMT, <1>2 DEF UploadsInv, Named
<1>4. ASSUME NEW g \in Files PROVE Life(g)'
  <2>1. Life(g)
    BY Zenon, SMT DEF UploadsInv
  <2>2. CASE g = f
    BY Zenon, SMT, <1>2, <2>1, <2>2 DEF Life, Whole
  <2>3. CASE g # f
    BY Zenon, SMT, <1>2, <2>1, <2>3 DEF Life, Whole
  <2> QED BY Zenon, SMT, <2>2, <2>3
<1>5. \A m \in handedOff' : Sound(m)'
  <2>1. \A g \in Files : Whole(g) => Whole(g)'
    BY Zenon, SMT, <1>2 DEF Whole
  <2> QED BY Zenon, SMT, <1>1, <1>2, <2>1, SoundStays
<1> QED BY Zenon, SMT, <1>1, <1>3, <1>4, <1>5 DEF UploadsInv

\* A chunk is written to an upload that is open, hence not stored in full.
LEMMA WriteChunkInv ==
  ASSUME UploadsInv, NEW f \in Files, NEW n \in 0..Size, NEW more \in BOOLEAN,
         WriteChunk(f, n, more)
  PROVE  UploadsInv'
<1> USE UploadsAssumption
<1>1. UploadsTypeOK'
  BY SMTT(60), SMTT(45) DEF UploadsInv, UploadsTypeOK, WriteChunk, Progressed, table
<1>2. /\ request[f] = "write" /\ request'[f] \in {"write", "none"}
      /\ tus'[f].state = tus[f].state
      /\ \A g \in Files : g # f => request'[g] = request[g] /\ tus'[g] = tus[g]
      /\ UNCHANGED <<withBody, listener, object, status, owner, received, key, handedOff>>
  BY DEF UploadsInv, UploadsTypeOK, WriteChunk, table
<1>3. tus[f].state = "open"
  BY Zenon, SMT, <1>2 DEF UploadsInv, Life
<1>4. Named'
  BY Zenon, SMT, <1>2 DEF UploadsInv, Named
<1>5. ASSUME NEW g \in Files PROVE Life(g)'
  <2>1. Life(g)
    BY Zenon, SMT DEF UploadsInv
  <2>2. CASE g = f
    BY Zenon, SMT, <1>2, <1>3, <2>1, <2>2 DEF Life, Whole
  <2>3. CASE g # f
    BY Zenon, SMT, <1>2, <2>1, <2>3 DEF Life, Whole
  <2> QED BY Zenon, SMT, <2>2, <2>3
<1>6. \A m \in handedOff' : Sound(m)'
  <2>1. \A g \in Files : Whole(g) => Whole(g)'
    BY Zenon, SMT, <1>2, <1>3 DEF Whole
  <2> QED BY Zenon, SMT, <1>1, <1>2, <2>1, SoundStays
<1> QED BY Zenon, SMT, <1>1, <1>4, <1>5, <1>6 DEF UploadsInv

\* The last chunk makes it whole; the row's owner is known by then.
LEMMA WriteLastInv ==
  ASSUME UploadsInv, NEW f \in Files, WriteLastChunk(f)
  PROVE  UploadsInv'
<1> USE UploadsAssumption
<1>1. UploadsTypeOK'
  BY DEF UploadsInv, UploadsTypeOK, WriteLastChunk, Progressed, table
<1>2. /\ request[f] = "write" /\ request'[f] = "complete"
      /\ tus'[f].state = "finished" /\ tus'[f].offset = Size
      /\ \A g \in Files : g # f => request'[g] = request[g] /\ tus'[g] = tus[g]
      /\ UNCHANGED <<withBody, listener, status, owner, received, key, handedOff>>
  BY Zenon, SMT DEF UploadsInv, UploadsTypeOK, WriteLastChunk, table
<1>3. tus[f].state = "open"
  BY Zenon, SMT, <1>2 DEF UploadsInv, Life
<1>4. Named'
  BY Zenon, SMT, <1>2 DEF UploadsInv, Named
<1>5. ASSUME NEW g \in Files PROVE Life(g)'
  <2>1. Life(g)
    BY Zenon, SMT DEF UploadsInv
  <2>2. CASE g = f
    BY Zenon, SMT, <1>2, <1>3, <2>1, <2>2 DEF Life, Whole
  <2>3. CASE g # f
    BY Zenon, SMT, <1>2, <2>1, <2>3 DEF Life, Whole
  <2> QED BY Zenon, SMT, <2>2, <2>3
<1>6. \A m \in handedOff' : Sound(m)'
  <2>1. \A g \in Files : Whole(g) => Whole(g)'
    BY Zenon, SMT, <1>2, <1>3 DEF Whole
  <2> QED BY Zenon, SMT, <1>1, <1>2, <2>1, SoundStays
<1> QED BY Zenon, SMT, <1>1, <1>4, <1>5, <1>6 DEF UploadsInv

\* DELETE leaves the offset; the upload has a row with its owner.
LEMMA DelInv ==
  ASSUME UploadsInv, NEW f \in Files, DelFile(f)
  PROVE  UploadsInv'
<1> USE UploadsAssumption
<1>1. UploadsTypeOK'
  BY ZenonT(30), SMTT(60) DEF UploadsInv, UploadsTypeOK, DelFile, table
<1>2. /\ request[f] = "none" /\ request'[f] = "terminate" /\ owner[f]
      /\ tus[f].state \in {"open", "finished"}
      /\ tus'[f].state = "gone" /\ tus'[f].offset = tus[f].offset
      /\ \A g \in Files : g # f => request'[g] = request[g] /\ tus'[g] = tus[g]
      /\ UNCHANGED <<withBody, listener, status, owner, received, key, handedOff>>
  BY Zenon, SMT DEF UploadsInv, UploadsTypeOK, DelFile, verifyUploadFileAccess, table
<1>3. Named'
  BY Zenon, SMT, <1>2 DEF UploadsInv, Named
<1>4. ASSUME NEW g \in Files PROVE Life(g)'
  <2>1. Life(g)
    BY Zenon, SMT DEF UploadsInv
  <2>2. CASE g = f
    BY Zenon, SMT, <1>2, <2>1, <2>2 DEF Life, Whole
  <2>3. CASE g # f
    BY Zenon, SMT, <1>2, <2>1, <2>3 DEF Life, Whole
  <2> QED BY Zenon, SMT, <2>2, <2>3
<1>5. \A m \in handedOff' : Sound(m)'
  <2>1. \A g \in Files : Whole(g) => Whole(g)'
    BY Zenon, SMT, <1>2 DEF Whole
  <2> QED BY Zenon, SMT, <1>1, <1>2, <2>1, SoundStays
<1> QED BY Zenon, SMT, <1>1, <1>3, <1>4, <1>5 DEF UploadsInv

-----------------------------------------------------------------------------
(* Listeners taking events.                                                *)

\* What taking an event does to the listeners.
LEMMA TakeFacts ==
  ASSUME UploadsInv, NEW hook \in Hooks, NEW f \in Files, NEW n \in 0..Size,
         Take(hook, f, n)
  PROVE  /\ listener' \in [Hooks -> Event]
         /\ listener'[hook].file = f
         /\ \A h \in Hooks : h # hook => listener'[h] = listener[h]
         /\ Named'
         /\ UNCHANGED <<tus, withBody, object, status, owner, received, key,
                        handedOff, dropped>>
<1> USE UploadsAssumption
<1>1. PICK user \in TokenValid :
        listener' = [listener EXCEPT ![hook] =
                        [file |-> f, offset |-> n, user |-> user]]
  BY Zenon, SMT DEF Take
<1>2. [file |-> f, offset |-> n, user |-> user] \in Event
  BY Zenon, SMT DEF Event
<1>3. listener \in [Hooks -> Event]
  BY Zenon, SMT DEF UploadsInv, UploadsTypeOK
<1>4. /\ listener' \in [Hooks -> Event] /\ listener'[hook].file = f
      /\ \A h \in Hooks : h # hook => listener'[h] = listener[h]
  BY Zenon, SMT, <1>1, <1>2, <1>3
<1>5. Named'
  BY Zenon, SMT, <1>4 DEF UploadsInv, Named
<1>6. UNCHANGED <<tus, withBody, object, status, owner, received, key,
                  handedOff, dropped>>
  BY Zenon, SMT DEF Take, table
<1> QED BY Zenon, SMT, <1>4, <1>5, <1>6

\* Taking the four kinds of events.
LEMMA TakeInv ==
  ASSUME UploadsInv, NEW f \in Files,
         \/ CreatedUploads(f) \/ UploadProgress(f)
         \/ TerminatedUploads(f) \/ CompleteUploads(f)
  PROVE  UploadsInv'
<1> USE UploadsAssumption
<1>1. PICK hook \in {"created", "progress", "terminated", "completed"}, n \in 0..Size :
        /\ Take(hook, f, n)
        /\ hook = "created" => request[f] = "create"
        /\ hook = "completed" => request[f] = "complete"
        /\ request' = request
           \/ /\ request[f] \in {"create", "terminate", "complete"}
              /\ request' = [request EXCEPT ![f] =
                    IF hook = "created" /\ f \in withBody THEN "write" ELSE "none"]
        /\ hook = "created" => request' # request
        /\ owed' \in [Files -> SUBSET (1..Size)]
  <2>1. request \in [Files -> {"none", "create", "write", "complete", "terminate"}]
        /\ owed \in [Files -> SUBSET (1..Size)]
    BY Zenon, SMT DEF UploadsInv, UploadsTypeOK
  <2>2. CASE CreatedUploads(f)
    <3>1. request'[f] # request[f]
      BY Zenon, SMT, <2>1, <2>2 DEF CreatedUploads
    <3> QED BY <2>1, <2>2, <3>1 DEF CreatedUploads
  <2>3. CASE UploadProgress(f)
    <3>1. PICK k \in owed[f] : Take("progress", f, k) /\ owed' = [owed EXCEPT ![f] = @ \ {k}]
      BY Zenon, SMT, <2>3 DEF UploadProgress
    <3>2. k \in 0..Size
      BY <2>1, <3>1
    <3> QED BY Zenon, SMT, <2>1, <2>3, <3>1, <3>2 DEF UploadProgress
  <2>4. CASE TerminatedUploads(f)
    BY <2>1, <2>4 DEF TerminatedUploads
  <2>5. CASE CompleteUploads(f)
    BY <2>1, <2>5 DEF CompleteUploads
  <2> QED BY Zenon, SMT, <2>2, <2>3, <2>4, <2>5
<1>2. hook \in Hooks /\ {"created", "completed", "notify"} \subseteq Hooks
  BY Zenon, SMT DEF Hooks
<1>3. /\ listener' \in [Hooks -> Event]
      /\ listener'[hook].file = f
      /\ \A h \in Hooks : h # hook => listener'[h] = listener[h]
      /\ Named'
      /\ UNCHANGED <<tus, withBody, object, status, owner, received, key,
                     handedOff, dropped>>
  BY Zenon, SMT, <1>1, <1>2, TakeFacts
<1>4. request \in [Files -> {"none", "create", "write", "complete", "terminate"}]
  BY Zenon, SMT DEF UploadsInv, UploadsTypeOK
<1>5. UploadsTypeOK'
  BY <1>1, <1>3, <1>4 DEF UploadsInv, UploadsTypeOK
<1>6. /\ \A g \in Files : g # f => request'[g] = request[g]
      /\ \/ request'[f] = request[f] /\ hook # "created"
         \/ request[f] \in {"create", "terminate", "complete"} /\ request'[f] = "none"
         \/ request[f] = "create" /\ request'[f] = "write" /\ f \in withBody
  BY Zenon, SMT, <1>1, <1>4
<1>7. ASSUME NEW g \in Files PROVE Life(g)'
  <2>1. Life(g)
    BY Zenon, SMT DEF UploadsInv
  <2>2. /\ listener'["notify"] = listener["notify"]
        /\ hook # "created" => listener'["created"] = listener["created"]
        /\ hook # "completed" => listener'["completed"] = listener["completed"]
    BY Zenon, SMT, <1>1, <1>2, <1>3
  <2>3. CASE g = f
    <3>1. CASE hook = "created"
      BY Zenon, SMT, <1>1, <1>3, <1>6, <2>1, <2>2, <2>3, <3>1 DEF Life, Whole
    <3>2. CASE hook # "created"
      BY Zenon, SMT, <1>1, <1>3, <1>6, <2>1, <2>2, <2>3, <3>2 DEF Life, Whole
    <3> QED BY Zenon, SMT, <3>1, <3>2
  <2>4. CASE g # f
    <3>1. /\ listener'["created"].file = g => listener["created"].file = g
          /\ listener'["completed"].file = g => listener["completed"].file = g
      BY Zenon, SMT, <1>3, <2>2, <2>4
    <3> QED BY Zenon, SMT, <1>3, <1>6, <2>1, <2>2, <2>4, <3>1 DEF Life, Whole
  <2> QED BY Zenon, SMT, <2>3, <2>4
<1>8. \A m \in handedOff' : Sound(m)'
  <2>1. \A g \in Files : Whole(g) => Whole(g)'
    BY Zenon, SMT, <1>3 DEF Whole
  <2> QED BY Zenon, SMT, <1>3, <1>5, <2>1, SoundStays
<1> QED BY Zenon, SMT, <1>3, <1>5, <1>7, <1>8 DEF UploadsInv

-----------------------------------------------------------------------------
(* Listeners at work.                                                      *)

\* What a listener that is done leaves behind.
LEMMA ReleaseFacts ==
  ASSUME UploadsInv, NEW hook \in Hooks, Release(hook)
  PROVE  /\ listener' \in [Hooks -> Event]
         /\ listener'[hook].file = NoFile
         /\ \A h \in Hooks : h # hook => listener'[h] = listener[h]
         /\ Named'
<1>1. listener \in [Hooks -> Event] /\ listener' = [listener EXCEPT ![hook] = NoEvent]
  BY Zenon, SMT DEF UploadsInv, UploadsTypeOK, Release
<1>2. /\ listener' \in [Hooks -> Event] /\ listener'[hook] = NoEvent
      /\ \A h \in Hooks : h # hook => listener'[h] = listener[h]
  BY Zenon, SMT, <1>1, NoEventFile
<1>3. Named'
  BY Zenon, SMT, <1>2 DEF UploadsInv, Named
<1> QED BY Zenon, SMT, <1>2, <1>3, NoEventFile

\* The row is inserted, once, before anybody could write to the upload.
LEMMA CreateInv ==
  ASSUME UploadsInv, NEW ok \in BOOLEAN, CreateUpload(ok)
  PROVE  UploadsInv'
<1> USE UploadsAssumption
<1> DEFINE e == listener["created"]
<1>1. "created" \in Hooks /\ "completed" \in Hooks /\ "notify" \in Hooks
  BY Zenon, SMT DEF Hooks
<1>2. e.file \in Files /\ e \in Event
  BY Zenon, SMT, <1>1, BusyListener DEF CreateUpload
<1>3. /\ listener' \in [Hooks -> Event]
      /\ listener'["created"].file = NoFile
      /\ \A h \in Hooks : h # "created" => listener'[h] = listener[h]
      /\ Named'
  BY Zenon, SMT, <1>1, ReleaseFacts DEF CreateUpload
<1>4. /\ \A g \in Files : g # e.file => status'[g] = status[g] /\ owner'[g] = owner[g]
      /\ \/ status'[e.file] = "created"
         \/ status'[e.file] = status[e.file] /\ owner'[e.file] = owner[e.file]
      /\ status' \in [Files -> {"absent", "created", "completed", "processed"}]
      /\ owner' \in [Files -> BOOLEAN]
  <2>1. e.user \in BOOLEAN
    BY Zenon, SMT, <1>2 DEF Event
  <2>2. /\ status \in [Files -> {"absent", "created", "completed", "processed"}]
        /\ owner \in [Files -> BOOLEAN]
    BY Zenon, SMT DEF UploadsInv, UploadsTypeOK
  <2>3. CASE ok
    BY ZenonT(30), SMTT(60), <1>2, <2>1, <2>2, <2>3 DEF CreateUpload
  <2>4. CASE ~ok
    BY Zenon, SMT, <1>2, <2>2, <2>4 DEF CreateUpload
  <2> QED BY Zenon, SMT, <2>3, <2>4
<1>5. UNCHANGED <<tus, request, withBody, owed, object, received, key, handedOff, dropped>>
  BY Zenon, SMT DEF CreateUpload, tusVars
<1>6. UploadsTypeOK'
  BY Zenon, SMT, <1>3, <1>4, <1>5 DEF UploadsInv, UploadsTypeOK
<1>7. ASSUME NEW g \in Files PROVE Life(g)'
  <2>1. Life(g)
    BY Zenon, SMT DEF UploadsInv
  <2>2. /\ listener'["notify"] = listener["notify"]
        /\ listener'["completed"] = listener["completed"]
        /\ listener'["created"].file # g
    BY Zenon, SMT, <1>1, <1>3
  <2>3. CASE g = e.file
    <3>1. /\ status[g] = "absent" /\ ~owner[g] /\ ~key[g]
          /\ request[g] # "create" /\ tus[g].state # "none"
      BY Zenon, SMT, <2>1, <2>3 DEF Life
    <3>2. ~(g \notin withBody /\ (request[g] = "write" \/ Whole(g)))
      BY Zenon, SMT, <2>1, <3>1 DEF Life
    <3> HIDE DEF e
    <3> QED BY Zenon, SMT, <1>4, <1>5, <2>1, <2>2, <2>3, <3>1, <3>2 DEF Life, Whole
  <2>4. CASE g # e.file
    <3>1. status'[g] = status[g] /\ owner'[g] = owner[g]
      BY Zenon, SMT, <1>4, <2>4
    <3> QED BY Zenon, SMT, <1>5, <2>1, <2>2, <3>1 DEF Life, Whole
  <2> QED BY Zenon, SMT, <2>3, <2>4
<1>8. \A m \in handedOff' : Sound(m)'
  <2>1. \A g \in Files : Whole(g) => Whole(g)'
    BY Zenon, SMT, <1>5 DEF Whole
  <2> QED BY Zenon, SMT, <1>5, <1>6, <2>1, SoundStays
<1> QED BY Zenon, SMT, <1>3, <1>6, <1>7, <1>8 DEF UploadsInv

\* Progress touches what was received, a termination the status of a row.
LEMMA ProgressTerminateInv ==
  ASSUME UploadsInv, NEW ok \in BOOLEAN,
         RecordUploadProgress(ok) \/ MarkUploadTerminated(ok)
  PROVE  UploadsInv'
<1> USE UploadsAssumption
<1>1. {"created", "completed", "notify", "progress", "terminated"} \subseteq Hooks
  BY Zenon, SMT DEF Hooks
<1>2. PICK hook \in {"progress", "terminated"} : Release(hook) /\ ~Free(hook)
  BY Zenon, SMT DEF RecordUploadProgress, MarkUploadTerminated
<1>3. /\ listener' \in [Hooks -> Event]
      /\ \A h \in Hooks : h # hook => listener'[h] = listener[h]
      /\ Named'
  BY Zenon, SMT, <1>1, <1>2, ReleaseFacts
<1>4. /\ listener'["notify"] = listener["notify"]
      /\ listener'["completed"] = listener["completed"]
      /\ listener'["created"] = listener["created"]
  BY Zenon, SMT, <1>1, <1>2, <1>3
<1>5. /\ UNCHANGED <<tus, request, withBody, owed, object, owner, key, handedOff, dropped>>
      /\ status' \in [Files -> {"absent", "created", "completed", "processed"}]
      /\ received' \in [Files -> 0..Size]
      /\ \A g \in Files : \/ status'[g] = status[g]
                          \/ status[g] # "absent" /\ status'[g] = "completed"
  <2>1. CASE RecordUploadProgress(ok)
    <3>1. listener["progress"].file \in Files /\ listener["progress"].offset \in 0..Size
      BY Zenon, SMT, <1>1, <2>1, BusyListener DEF RecordUploadProgress, Event
    <3> QED BY Zenon, SMT, <2>1, <3>1 DEF UploadsInv, UploadsTypeOK, RecordUploadProgress, tusVars
  <2>2. CASE MarkUploadTerminated(ok)
    <3>1. listener["terminated"].file \in Files
      BY Zenon, SMT, <1>1, <2>2, BusyListener DEF MarkUploadTerminated
    <3> QED BY Zenon, SMT, <2>2, <3>1 DEF UploadsInv, UploadsTypeOK, MarkUploadTerminated, tusVars, Matches
  <2> QED BY Zenon, SMT, <2>1, <2>2
<1>6. UploadsTypeOK'
  BY Zenon, SMT, <1>3, <1>5 DEF UploadsInv, UploadsTypeOK
<1>7. ASSUME NEW g \in Files PROVE Life(g)'
  <2>1. Life(g)
    BY Zenon, SMT DEF UploadsInv
  <2>2. \/ status'[g] = status[g]
        \/ status[g] # "absent" /\ status'[g] = "completed"
    BY Zenon, SMT, <1>5
  <2> QED BY Zenon, SMT, <1>4, <1>5, <2>1, <2>2 DEF Life, Whole
<1>8. \A m \in handedOff' : Sound(m)'
  <2>1. \A g \in Files : Whole(g) => Whole(g)'
    BY Zenon, SMT, <1>5 DEF Whole
  <2> QED BY Zenon, SMT, <1>5, <1>6, <2>1, SoundStays
<1> QED BY Zenon, SMT, <1>3, <1>6, <1>7, <1>8 DEF UploadsInv

\* The completed listener records the upload it is about to hand off.  A row of
\* the user is there to match, since PATCH has looked for it.
LEMMA CompletedInv ==
  ASSUME UploadsInv, MarkUploadCompleted
  PROVE  UploadsInv'
<1> USE UploadsAssumption
<1> DEFINE e == listener["completed"]
<1>1. "created" \in Hooks /\ "completed" \in Hooks /\ "notify" \in Hooks
  BY Zenon, SMT DEF Hooks
<1>2. e.file \in Files /\ e \in Event
  BY Zenon, SMT, <1>1, BusyListener DEF MarkUploadCompleted
<1>3. /\ listener \in [Hooks -> Event]
      /\ listener' = [listener EXCEPT !["completed"] = NoEvent, !["notify"] = e]
  BY Zenon, SMT DEF MarkUploadCompleted, UploadsInv, UploadsTypeOK
<1>4. /\ listener' \in [Hooks -> Event]
      /\ listener'["completed"] = NoEvent /\ listener'["notify"] = e
      /\ \A h \in Hooks \ {"completed", "notify"} : listener'[h] = listener[h]
  <2> HIDE DEF e
  <2> QED BY Zenon, SMT, <1>1, <1>2, <1>3, NoEventFile
<1>5. Named'
  BY Zenon, SMT, <1>1, <1>2, <1>4 DEF UploadsInv, Named
<1>6. /\ \A g \in Files : g # e.file => status'[g] = status[g] /\ key'[g] = key[g]
      /\ \/ /\ Matches(e) /\ status'[e.file] = "completed" /\ key'[e.file]
         \/ /\ ~Matches(e) /\ status'[e.file] = status[e.file] /\ key'[e.file] = key[e.file]
      /\ status' \in [Files -> {"absent", "created", "completed", "processed"}]
      /\ key' \in [Files -> BOOLEAN]
  <2>1. /\ status \in [Files -> {"absent", "created", "completed", "processed"}]
        /\ key \in [Files -> BOOLEAN]
    BY Zenon, SMT DEF UploadsInv, UploadsTypeOK
  <2>2. CASE Matches(e)
    BY ZenonT(30), SMTT(60), <1>2, <2>1, <2>2 DEF MarkUploadCompleted
  <2>3. CASE ~Matches(e)
    BY Zenon, SMT, <1>2, <2>1, <2>3 DEF MarkUploadCompleted
  <2> QED BY Zenon, SMT, <2>2, <2>3
<1>7. UNCHANGED <<tus, request, withBody, owed, object, owner, received, handedOff, dropped>>
  BY Zenon, SMT DEF MarkUploadCompleted, tusVars
<1>8. UploadsTypeOK'
  BY Zenon, SMT, <1>4, <1>6, <1>7 DEF UploadsInv, UploadsTypeOK
<1>9. \A g \in Files : Whole(g) => Whole(g)'
  BY Zenon, SMT, <1>7 DEF Whole
<1>10. \A g \in Files : key[g] => key'[g]
  BY Zenon, SMT, <1>6
<1>11. ASSUME NEW g \in Files PROVE Life(g)'
  <2>1. Life(g)
    BY Zenon, SMT DEF UploadsInv
  <2>2. listener'["created"] = listener["created"]
    BY Zenon, SMT, <1>1, <1>4
  <2>3. listener'["completed"].file # g
    BY Zenon, SMT, <1>4, NoEventFile
  <2>4. CASE g = e.file
    <3>1. Whole(g)
      BY Zenon, SMT, <2>1, <2>4 DEF Life
    <3>2. Matches(e) <=> status[g] # "absent" /\ owner[g] = e.user
      BY Zenon, SMT, <2>4 DEF Matches
    <3>3. listener'["notify"] = e /\ status'[g] \in {status[g], "completed"}
      BY Zenon, SMT, <1>4, <1>6, <2>4
    <3>4. key'[g] => key[g] \/ status'[g] = "completed"
      BY Zenon, SMT, <1>6, <2>4
    <3>5. key[g] => status'[g] \in {"completed", "processed"}
      BY Zenon, SMT, <2>1, <3>3 DEF Life
    <3>6. e.user /\ g \notin withBody => key'[g]
      <4>1. CASE e.user /\ g \notin withBody
        <5>1. owner[g] /\ status[g] # "absent"
          BY Zenon, SMT, <2>1, <3>1, <4>1 DEF Life
        <5>2. owner[g] = e.user
          <6>1. e.user \in BOOLEAN /\ owner[g] \in BOOLEAN
            BY Zenon, SMT, <1>2 DEF Event, UploadsInv, UploadsTypeOK
          <6> QED BY Zenon, SMT, <4>1, <5>1, <6>1
        <5> QED BY Zenon, SMT, <1>6, <2>4, <3>2, <5>1, <5>2
      <4> QED BY Zenon, SMT, <4>1
    <3>7. status'[g] # status[g] => status[g] # "absent"
      BY Zenon, SMT, <1>6, <2>4, <3>2
    <3>8. key'[g] => Whole(g) /\ status'[g] \in {"completed", "processed"}
      BY Zenon, SMT, <3>1, <3>4, <3>5
    <3>9. /\ status'[g] = "absent" <=> status[g] = "absent"
          /\ listener'["notify"].file = g /\ listener'["notify"].user /\ g \notin withBody
                => key'[g]
      BY Zenon, SMT, <3>3, <3>6, <3>7
    <3> HIDE DEF e
    <3> QED BY Zenon, SMT, <1>7, <2>1, <2>2, <2>3, <3>1, <3>8, <3>9 DEF Life, Whole
  <2>5. CASE g # e.file
    <3>1. status'[g] = status[g] /\ key'[g] = key[g] /\ listener'["notify"].file # g
      BY Zenon, SMT, <1>4, <1>6, <2>5
    <3> QED BY Zenon, SMT, <1>7, <2>1, <2>2, <2>3, <3>1 DEF Life, Whole
  <2> QED BY Zenon, SMT, <2>4, <2>5
<1>12. \A m \in handedOff' : Sound(m)'
  <2> SUFFICES ASSUME NEW m \in handedOff PROVE Sound(m)'
    BY Zenon, SMT, <1>7
  <2>1. m.file \in Files /\ Sound(m)
    BY Zenon, SMT DEF UploadsInv, UploadsTypeOK, Message
  <2> QED BY Zenon, SMT, <1>7, <1>9, <1>10, <2>1 DEF Sound
<1> QED BY Zenon, SMT, <1>5, <1>8, <1>11, <1>12 DEF UploadsInv

\* The update fails: the listener drops the event.
LEMMA CompletedFailsInv ==
  ASSUME UploadsInv, MarkUploadCompletedFails
  PROVE  UploadsInv'
<1> USE UploadsAssumption
<1>1. "created" \in Hooks /\ "completed" \in Hooks /\ "notify" \in Hooks
  BY Zenon, SMT DEF Hooks
<1>2. listener["completed"].file \in Files
  BY Zenon, SMT, <1>1, BusyListener DEF MarkUploadCompletedFails
<1>3. /\ listener' \in [Hooks -> Event]
      /\ listener'["completed"].file = NoFile
      /\ \A h \in Hooks : h # "completed" => listener'[h] = listener[h]
      /\ Named'
  BY Zenon, SMT, <1>1, ReleaseFacts DEF MarkUploadCompletedFails
<1>4. /\ UNCHANGED <<tus, request, withBody, owed, object, status, owner, received, key, handedOff>>
      /\ dropped' \subseteq Files
  BY Zenon, SMT, <1>2 DEF MarkUploadCompletedFails, tusVars, table, UploadsInv, UploadsTypeOK
<1>5. UploadsTypeOK'
  BY Zenon, SMT, <1>3, <1>4 DEF UploadsInv, UploadsTypeOK
<1>6. ASSUME NEW g \in Files PROVE Life(g)'
  <2>1. Life(g)
    BY Zenon, SMT DEF UploadsInv
  <2>2. /\ listener'["created"] = listener["created"]
        /\ listener'["notify"] = listener["notify"]
        /\ listener'["completed"].file # g
    BY Zenon, SMT, <1>1, <1>3
  <2> QED BY Zenon, SMT, <1>4, <2>1, <2>2 DEF Life, Whole
<1>7. \A m \in handedOff' : Sound(m)'
  <2>1. \A g \in Files : Whole(g) => Whole(g)'
    BY Zenon, SMT, <1>4 DEF Whole
  <2> QED BY Zenon, SMT, <1>4, <1>5, <2>1, SoundStays
<1> QED BY Zenon, SMT, <1>3, <1>5, <1>6, <1>7 DEF UploadsInv

\* The message of a hand-off speaks of an upload that is whole and recorded.
LEMMA ReceivedInv ==
  ASSUME UploadsInv, UploadReceived \/ UploadReceivedFails
  PROVE  UploadsInv'
<1> USE UploadsAssumption
<1> DEFINE e == listener["notify"]
<1>1. "created" \in Hooks /\ "completed" \in Hooks /\ "notify" \in Hooks
  BY Zenon, SMT DEF Hooks
<1>2. e.file \in Files /\ e \in Event
  BY Zenon, SMT, <1>1, BusyListener DEF UploadReceived, UploadReceivedFails
<1>3. /\ listener' \in [Hooks -> Event]
      /\ listener'["notify"].file = NoFile
      /\ \A h \in Hooks : h # "notify" => listener'[h] = listener[h]
      /\ Named'
  BY Zenon, SMT, <1>1, ReleaseFacts DEF UploadReceived, UploadReceivedFails
<1>4. Notice \in Message /\ Notice.file = e.file /\ Notice.user = e.user
  BY Zenon, SMT, <1>2 DEF Notice, Message, Event
<1>5. /\ UNCHANGED <<tus, request, withBody, owed, object, status, owner, received, key>>
      /\ handedOff' \subseteq handedOff \cup {Notice}
      /\ dropped' \subseteq Files
  BY ZenonT(30), SMTT(60), <1>2, <1>4 DEF UploadReceived, UploadReceivedFails, tusVars, table, UploadsInv, UploadsTypeOK
<1>6. UploadsTypeOK'
  BY Zenon, SMT, <1>3, <1>4, <1>5 DEF UploadsInv, UploadsTypeOK
<1>7. ASSUME NEW g \in Files PROVE Life(g)'
  <2>1. Life(g)
    BY Zenon, SMT DEF UploadsInv
  <2>2. /\ listener'["created"] = listener["created"]
        /\ listener'["completed"] = listener["completed"]
        /\ listener'["notify"].file # g
    BY Zenon, SMT, <1>1, <1>3
  <2> QED BY Zenon, SMT, <1>5, <2>1, <2>2 DEF Life, Whole
<1>8. ASSUME NEW m \in handedOff' PROVE Sound(m)'
  <2>1. Sound(m)
    <3>1. CASE m \in handedOff
      BY Zenon, SMT, <3>1 DEF UploadsInv
    <3>2. CASE m = Notice
      <4>1. Life(e.file)
        BY Zenon, SMT, <1>2 DEF UploadsInv
      <4> QED BY Zenon, SMT, <1>4, <3>2, <4>1 DEF Life, Sound
    <3> QED BY Zenon, SMT, <1>5, <3>1, <3>2
  <2> QED BY Zenon, SMT, <1>5, <2>1 DEF Sound, Whole
<1> QED BY Zenon, SMT, <1>3, <1>6, <1>7, <1>8 DEF UploadsInv

\* What retry-complete and forklift do on behalf of an upload, and a restart.
LEMMA RetryInv ==
  ASSUME UploadsInv, NEW f \in Files, retryComplete(f)
  PROVE  UploadsInv'
<1> USE UploadsAssumption
<1>1. RetryNotice(f) \in Message /\ RetryNotice(f).file = f /\ RetryNotice(f).key = key[f]
  BY Zenon, SMT DEF RetryNotice, Message, UploadsInv, UploadsTypeOK
<1>2. /\ UNCHANGED <<tus, request, withBody, owed, listener, object, status, owner, received,
                     key, dropped>>
      /\ handedOff' = handedOff \cup {RetryNotice(f)}
  BY Zenon, SMT DEF retryComplete, tusVars, table
<1>3. UploadsTypeOK' /\ Named'
  BY Zenon, SMT, <1>1, <1>2 DEF UploadsInv, UploadsTypeOK, Named
<1>4. ASSUME NEW g \in Files PROVE Life(g)'
  <2>1. Life(g)
    BY Zenon, SMT DEF UploadsInv
  <2> QED BY Zenon, SMT, <1>2, <2>1 DEF Life, Whole
<1>5. ASSUME NEW m \in handedOff' PROVE Sound(m)'
  <2>1. Sound(m)
    <3>1. CASE m \in handedOff
      BY Zenon, SMT, <3>1 DEF UploadsInv
    <3>2. CASE m = RetryNotice(f)
      <4>1. Life(f)
        BY Zenon, SMT DEF UploadsInv
      <4> QED BY Zenon, SMT, <1>1, <3>2, <4>1 DEF Life, Sound
    <3> QED BY Zenon, SMT, <1>2, <3>1, <3>2
  <2> QED BY Zenon, SMT, <1>2, <2>1 DEF Sound, Whole
<1> QED BY Zenon, SMT, <1>3, <1>4, <1>5 DEF UploadsInv

\* Forklift marks a row that is there, or deletes an object.
LEMMA ProcessedInv ==
  ASSUME UploadsInv, NEW f \in Files, MarkUploadProcessed(f) \/ DeleteSource(f)
  PROVE  UploadsInv'
<1> USE UploadsAssumption
<1>1. /\ UNCHANGED <<tus, request, withBody, owed, listener, owner, received, key, handedOff,
                     dropped>>
      /\ object' \in {object, [object EXCEPT ![f] = "deleted"]}
      /\ status' \in {status, [status EXCEPT ![f] = IF @ = "absent" THEN @ ELSE "processed"]}
  BY Zenon, SMT DEF MarkUploadProcessed, DeleteSource, tusVars, table
<1>2. UploadsTypeOK' /\ Named'
  BY Zenon, SMT, <1>1 DEF UploadsInv, UploadsTypeOK, Named
<1>3. \A g \in Files : \/ status'[g] = status[g]
                       \/ status[g] # "absent" /\ status'[g] = "processed"
  BY Zenon, SMT, <1>1 DEF UploadsInv, UploadsTypeOK
<1>4. ASSUME NEW g \in Files PROVE Life(g)'
  <2>1. Life(g)
    BY Zenon, SMT DEF UploadsInv
  <2>2. \/ status'[g] = status[g]
        \/ status[g] # "absent" /\ status'[g] = "processed"
    BY Zenon, SMT, <1>3
  <2> QED BY Zenon, SMT, <1>1, <2>1, <2>2 DEF Life, Whole
<1>5. \A m \in handedOff' : Sound(m)'
  BY Zenon, SMT, <1>1 DEF UploadsInv, Sound, Whole
<1> QED BY Zenon, SMT, <1>2, <1>4, <1>5 DEF UploadsInv

\* A restart takes what is in memory, and leaves the row, the object and the
\* messages.
LEMMA RestartInv ==
  ASSUME UploadsInv, Restart
  PROVE  UploadsInv'
<1> USE UploadsAssumption
<1>1. /\ UNCHANGED <<tus, withBody, object, status, owner, received, key, handedOff>>
      /\ request' = [f \in Files |-> "none"]
      /\ owed' = [f \in Files |-> {}]
      /\ listener' = [h \in Hooks |-> NoEvent]
      /\ dropped' \subseteq Files
  BY Zenon, SMT DEF Restart, table, UploadsInv, UploadsTypeOK
<1>2. UploadsTypeOK'
  BY Zenon, SMT, <1>1, NoEventFile DEF UploadsInv, UploadsTypeOK
<1>3. Named'
  BY Zenon, SMT, <1>1 DEF Named
<1>4. ASSUME NEW g \in Files PROVE Life(g)'
  <2>1. Life(g)
    BY Zenon, SMT DEF UploadsInv
  <2>2. /\ listener'["created"].file # g
        /\ listener'["completed"].file # g
        /\ listener'["notify"].file # g
    BY Zenon, SMT, <1>1, NoEventFile DEF Hooks
  <2>3. request'[g] = "none"
    BY Zenon, SMT, <1>1
  <2> QED BY Zenon, SMT, <1>1, <2>1, <2>2, <2>3 DEF Life, Whole
<1>5. \A m \in handedOff' : Sound(m)'
  BY Zenon, SMT, <1>1 DEF UploadsInv, Sound, Whole
<1> QED BY Zenon, SMT, <1>2, <1>3, <1>4, <1>5 DEF UploadsInv

-----------------------------------------------------------------------------
(* The theorems.                                                           *)

\* Every step of the service preserves the invariant.
LEMMA UploadsStep == UploadsInv /\ [UploadsNext]_uploadsVars => UploadsInv'
<1> SUFFICES ASSUME UploadsInv, [UploadsNext]_uploadsVars PROVE UploadsInv'
  OBVIOUS
<1>1. CASE Client
  BY Zenon, SMT, <1>1, PostInv, PatchInv, DelInv DEF Client
<1>2. ASSUME NEW f \in Files, Serve(f) PROVE UploadsInv'
  BY Zenon, SMT, <1>2, WriteChunkInv, WriteLastInv, TakeInv DEF Serve
<1>3. CASE Listen
  BY Zenon, SMT, <1>3, CreateInv, ProgressTerminateInv, CompletedInv, CompletedFailsInv DEF Listen
<1>4. CASE UNCHANGED uploadsVars
  <2> USE <1>4 DEF UploadsInv, uploadsVars
  <2>1. UploadsTypeOK'
    BY Zenon, SMT DEF UploadsTypeOK
  <2>2. Named'
    BY Zenon, SMT DEF Named
  <2>3. \A f \in Files : Life(f)'
    BY ZenonT(30), SMTT(60) DEF Life, Whole
  <2>4. \A m \in handedOff' : Sound(m)'
    BY Zenon, SMT DEF Sound, Whole
  <2> QED BY Zenon, SMT, <2>1, <2>2, <2>3, <2>4
<1> QED BY Zenon, SMT, <1>1, <1>2, <1>3, <1>4, RetryInv, ProcessedInv, ReceivedInv, RestartInv
        DEF UploadsNext

\* UploadsInv holds in every reachable state.
LEMMA UploadsInvariance == UploadsSpec => []UploadsInv
  BY UploadsInitInv, UploadsStep, PTL DEF UploadsSpec

\* Whatever the requests, the order in which the listeners serve their events and
\* the restarts in between: a message that names an object is about an upload that
\* is stored in full (CompleteUploads, retryComplete), and an upload created
\* without data is recorded as complete before it is handed off in the user's
\* name (verifyUploadFileAccess, listenToHooks).
THEOREM UploadsSafety == UploadsSpec => []UploadsSafe
<1>1. UploadsInv => HandedOffIsComplete
  BY Zenon, SMT DEF UploadsInv, HandedOffIsComplete, Sound, Whole
<1>2. UploadsInv => RecordedBeforeHandOff
  <2> SUFFICES ASSUME UploadsInv, NEW m \in handedOff, m.key, m.user, m.file \notin withBody
               PROVE  status[m.file] \in {"completed", "processed"} /\ key[m.file]
    BY Zenon, SMT DEF RecordedBeforeHandOff
  <2>1. m.file \in Files /\ Sound(m)
    BY Zenon, SMT DEF UploadsInv, UploadsTypeOK, Message
  <2>2. key[m.file] /\ Life(m.file)
    BY Zenon, SMT, <2>1 DEF Sound, UploadsInv
  <2> QED BY Zenon, SMT, <2>2 DEF Life
<1>3. UploadsInv => UploadsSafe
  BY Zenon, <1>1, <1>2 DEF UploadsInv, UploadsSafe
<1> QED BY <1>3, UploadsInvariance, PTL

\* Late progress, a termination or a repeated hand-off leave a completed row as
\* it is (RecordUploadProgress, MarkUploadTerminated, CreateUpload).
THEOREM UploadsCompletedStays == UploadsSpec => CompletedStays
<1>1. ASSUME UploadsInv, UploadsInv', [UploadsNext]_uploadsVars, NEW f \in Files, key[f]
      PROVE  /\ key'[f]
             /\ status'[f] \in {"completed", "processed"}
             /\ received'[f] = received[f]
  <2>1. key \in [Files -> BOOLEAN] /\ received \in [Files -> 0..Size]
    BY Zenon, SMT, <1>1 DEF UploadsInv, UploadsTypeOK
  <2>2. status[f] \in {"completed", "processed"}
    BY Zenon, SMT, <1>1 DEF UploadsInv, Life
  <2>3. key' = key \/ MarkUploadCompleted
    BY Zenon, SMT, <1>1 DEF UploadsNext, Client, PostFile, PatchFile, StartPatch, DelFile, Serve, WriteChunk,
         WriteLastChunk, CreatedUploads, UploadProgress, TerminatedUploads, CompleteUploads, Take,
         Listen, CreateUpload, RecordUploadProgress, MarkUploadTerminated,
         MarkUploadCompletedFails, UploadReceived, UploadReceivedFails, retryComplete,
         MarkUploadProcessed, DeleteSource, Restart, uploadsVars, table
  <2>4. key'[f]
    BY Zenon, SMT, <1>1, <2>1, <2>3 DEF MarkUploadCompleted
  <2>5. status'[f] \in {"completed", "processed"}
    <3>1. Life(f)'
      BY Zenon, SMT, <1>1 DEF UploadsInv
    <3> QED BY Zenon, SMT, <2>4, <3>1 DEF Life
  <2>6. received' = received \/ \E ok \in BOOLEAN : RecordUploadProgress(ok)
    BY Zenon, SMT, <1>1 DEF UploadsNext, Client, PostFile, PatchFile, StartPatch, DelFile, Serve, WriteChunk,
         WriteLastChunk, CreatedUploads, UploadProgress, TerminatedUploads, CompleteUploads, Take,
         Listen, CreateUpload, MarkUploadTerminated, MarkUploadCompleted,
         MarkUploadCompletedFails, UploadReceived, UploadReceivedFails, retryComplete,
         MarkUploadProcessed, DeleteSource, Restart, uploadsVars, table
  <2>7. received'[f] = received[f]
    BY Zenon, SMT, <2>1, <2>2, <2>6 DEF RecordUploadProgress, InProgress, Matches
  <2> QED BY Zenon, SMT, <2>4, <2>5, <2>7
<1>2. UploadsInv /\ UploadsInv' /\ [UploadsNext]_uploadsVars =>
        [\A f \in Files : key[f] => /\ key'[f]
                                    /\ status'[f] \in {"completed", "processed"}
                                    /\ received'[f] = received[f]]_uploadsVars
  BY Zenon, SMT, <1>1
<1> QED BY <1>2, UploadsInvariance, PTL DEF UploadsSpec, CompletedStays

-----------------------------------------------------------------------------
(* The service with forklift behind it.                                    *)

\* What is known of a task: the message that queued it was handed off, with
\* its key once the object is there; the stream it has made is of its upload,
\* reflected before the row is marked; the mark of a recorded upload lasts.
Tracked(t) ==
    LET x == incoming[t] IN
    /\ x.at # "none" => x.msg \in handedOff
    /\ x.at \in {"split", "upload", "mark", "send", "sent", "unsent"} => x.msg.key
    /\ x.at \in {"upload", "mark", "send", "sent", "unsent"} =>
          x.sd \in Streams /\ stream[x.sd] = x.msg.file
    /\ x.at \in {"mark", "send", "sent", "unsent"} => x.sd \in reflected
    /\ x.at \in {"send", "sent", "unsent"} /\ x.msg.file \notin withBody => Saved(x.msg.file)

MadeOfWhole == \A s \in Streams : stream[s] # NoFile => Whole(stream[s])

IngestInv ==
    /\ IngestTypeOK
    /\ UploadsInv
    /\ \A t \in TaskIds : Tracked(t)
    /\ MadeOfWhole
    /\ SourceOrResult

-----------------------------------------------------------------------------

\* Initially there are no tasks and no streams.
LEMMA IngestInitInv == IngestInit => IngestInv
<1> SUFFICES ASSUME IngestInit PROVE IngestInv
  OBVIOUS
<1> USE UploadsAssumption, IngestAssumption
<1>1. UploadsInv
  BY UploadsInitInv DEF IngestInit
<1>2. NoTask \in Incoming
  BY Zenon, SMT DEF NoTask, Incoming, IngestPlaces
<1>3. IngestTypeOK
  BY <1>1, <1>2 DEF IngestInit, IngestTypeOK, UploadsInv
<1>4. ASSUME NEW t \in TaskIds PROVE Tracked(t)
  BY Zenon, SMT DEF IngestInit, Tracked, NoTask
<1>5. MadeOfWhole /\ SourceOrResult
  BY Zenon, SMT DEF IngestInit, UploadsInit, MadeOfWhole, SourceOrResult
<1> QED BY Zenon, SMT, <1>1, <1>3, <1>4, <1>5 DEF IngestInv

\* A task at a place of its handler has a message, about some upload.
LEMMA TaskFacts ==
  ASSUME IngestInv, NEW t \in TaskIds, ~At(t, "none")
  PROVE  /\ incoming[t] \in Incoming /\ incoming[t].msg \in handedOff
         /\ FileOf(t) \in Files /\ Tracked(t)
         /\ incoming[t].msg.key => InForklift(FileOf(t)) /\ Whole(FileOf(t))
<1>1. incoming[t].msg \in handedOff /\ incoming[t] \in Incoming /\ Tracked(t)
  BY Zenon, SMT DEF IngestInv, IngestTypeOK, Tracked, At
<1>2. incoming[t].msg \in Message /\ Sound(incoming[t].msg)
  BY Zenon, SMT, <1>1 DEF IngestInv, UploadsInv, UploadsTypeOK
<1> QED BY Zenon, SMT, <1>1, <1>2 DEF Message, FileOf, InForklift, Sound

\* The update of the row is what Uploads says of it, or there is no row.
LEMMA SaveRefines ==
  ASSUME IngestInv, NEW t \in TaskIds, SaveResult(t)
  PROVE  UNCHANGED uploadsVars \/ MarkUploadProcessed(FileOf(t))
<1>1. At(t, "mark") /\ FileOf(t) \in Files /\ InForklift(FileOf(t))
  <2>1. At(t, "mark")
    BY Zenon DEF SaveResult
  <2>2. incoming[t].msg.key
    BY Zenon, SMT, <2>1 DEF IngestInv, Tracked, At
  <2> QED BY Zenon, SMT, <2>1, <2>2, TaskFacts DEF At
<1>2. CASE status[FileOf(t)] = "absent"
  BY Zenon, SMT, <1>2 DEF SaveResult, uploadsVars, tusVars
<1>3. CASE status[FileOf(t)] # "absent"
  BY Zenon, SMT, <1>1, <1>3 DEF SaveResult, MarkUploadProcessed, IngestInv, IngestTypeOK, UploadsTypeOK
<1> QED BY Zenon, SMT, <1>2, <1>3

\* So is the deletion of the object, which may fail.
LEMMA DeleteRefines ==
  ASSUME IngestInv, NEW t \in TaskIds, DeleteObject(t)
  PROVE  UNCHANGED uploadsVars \/ DeleteSource(FileOf(t))
<1>1. At(t, "sent") \/ At(t, "unsent")
  BY Zenon, SMT DEF DeleteObject, At
<1>2. FileOf(t) \in Files /\ InForklift(FileOf(t))
  <2>1. incoming[t].msg.key
    BY Zenon, SMT, <1>1 DEF IngestInv, Tracked, At
  <2> QED BY Zenon, SMT, <1>1, <2>1, TaskFacts DEF At
<1> QED BY Zenon, SMT, <1>2 DEF DeleteObject, DeleteSource, uploadsVars, tusVars, table

\* A step of the two services is a step of Uploads or leaves its state alone.
LEMMA IngestRefines ==
  ASSUME IngestInv, [IngestNext]_ingestVars
  PROVE  [UploadsNext]_uploadsVars
<1>1. CASE Ingress \/ HandOff
  BY Zenon, SMT, <1>1 DEF Ingress, HandOff, UploadsNext
<1>2. ASSUME NEW t \in TaskIds, HandleUpload(t) \/ ForkliftDies(t)
      PROVE  [UploadsNext]_uploadsVars
  <2>1. CASE SaveResult(t)
    <3>1. FileOf(t) \in Files
      BY Zenon, SMT, <2>1, TaskFacts DEF SaveResult, At
    <3> QED BY Zenon, SMT, <2>1, <3>1, SaveRefines DEF UploadsNext
  <2>2. CASE DeleteObject(t)
    <3>1. FileOf(t) \in Files
      BY Zenon, SMT, <2>2, TaskFacts DEF DeleteObject, At
    <3> QED BY Zenon, SMT, <2>2, <3>1, DeleteRefines DEF UploadsNext
  <2>3. CASE ~SaveResult(t) /\ ~DeleteObject(t)
    BY Zenon, SMT, <1>2, <2>3 DEF HandleUpload, ForkliftDies, Start, Retrieve, Split, Reflect, SendResponse, StepFails
  <2> QED BY Zenon, SMT, <2>1, <2>2, <2>3
<1>3. CASE UNCHANGED ingestVars
  BY Zenon, SMT, <1>3 DEF ingestVars
<1> QED BY Zenon, SMT, <1>1, <1>2, <1>3 DEF IngestNext

-----------------------------------------------------------------------------
(* What every step keeps.                                                  *)

\* An upload stored in full stays so, and as it was created; a deleted upload
\* stays deleted; no message is taken back.
LEMMA UploadsKeeps ==
  ASSUME UploadsInv, [UploadsNext]_uploadsVars
  PROVE  /\ handedOff \subseteq handedOff'
         /\ \A f \in Files : Whole(f) => Whole(f)' /\ (f \in withBody' <=> f \in withBody)
         /\ \A f \in Files : tus[f].state = "gone" => tus'[f].state = "gone"
<1> USE UploadsAssumption
<1>1. ASSUME NEW g \in Files, NEW body \in BOOLEAN, PostFile(g, body)
      PROVE  /\ handedOff' = handedOff /\ tus[g].state = "none"
             /\ withBody' \in {withBody, withBody \cup {g}}
             /\ \A f \in Files : f # g => tus'[f] = tus[f]
  BY Zenon, SMT, <1>1 DEF PostFile, UploadsInv, UploadsTypeOK
<1>2. ASSUME NEW g \in Files, Serve(g) \/ DelFile(g) \/ PatchFile(g)
      PROVE  /\ handedOff' = handedOff /\ withBody' = withBody
             /\ \A f \in Files : f # g => tus'[f] = tus[f]
             /\ \/ tus'[g] = tus[g]
                \/ tus[g].state = "open"
                \/ tus'[g].state = "gone" /\ tus'[g].offset = tus[g].offset
  <2>1. request[g] = "write" => tus[g].state = "open"
    BY Zenon, SMT DEF UploadsInv, Life
  <2>2. CASE DelFile(g) \/ PatchFile(g)
    BY Zenon, SMT, <2>2 DEF DelFile, PatchFile, StartPatch, UploadsInv, UploadsTypeOK
  <2>3. CASE WriteLastChunk(g) \/ \E n \in 0..Size, more \in BOOLEAN : WriteChunk(g, n, more)
    BY Zenon, SMT, <2>1, <2>3 DEF WriteLastChunk, WriteChunk, UploadsInv, UploadsTypeOK
  <2>4. CASE CreatedUploads(g) \/ UploadProgress(g) \/ TerminatedUploads(g) \/ CompleteUploads(g)
    BY Zenon, SMT, <2>4 DEF CreatedUploads, UploadProgress, TerminatedUploads, CompleteUploads, Take
  <2> QED BY Zenon, SMT, <1>2, <2>2, <2>3, <2>4 DEF Serve
<1>3. CASE \/ \E g \in Files : retryComplete(g) \/ MarkUploadProcessed(g) \/ DeleteSource(g)
           \/ Listen \/ UploadReceived \/ UploadReceivedFails \/ Restart
           \/ UNCHANGED uploadsVars
  <2>1. handedOff \subseteq handedOff' /\ tus' = tus /\ withBody' = withBody
    BY Zenon, SMT, <1>3 DEF retryComplete, MarkUploadProcessed, DeleteSource, Listen, CreateUpload,
         RecordUploadProgress, MarkUploadTerminated, MarkUploadCompleted, MarkUploadCompletedFails,
         UploadReceived, UploadReceivedFails, Restart, uploadsVars, tusVars
  <2> QED BY Zenon, SMT, <2>1 DEF Whole
<1>4. ASSUME NEW g \in Files, Serve(g) \/ DelFile(g) \/ PatchFile(g)
      PROVE  /\ handedOff \subseteq handedOff'
             /\ \A f \in Files : Whole(f) => Whole(f)' /\ (f \in withBody' <=> f \in withBody)
             /\ \A f \in Files : tus[f].state = "gone" => tus'[f].state = "gone"
  BY Zenon, SMT, <1>2, <1>4 DEF Whole
<1>5. ASSUME NEW g \in Files, NEW body \in BOOLEAN, PostFile(g, body)
      PROVE  /\ handedOff \subseteq handedOff'
             /\ \A f \in Files : Whole(f) => Whole(f)' /\ (f \in withBody' <=> f \in withBody)
             /\ \A f \in Files : tus[f].state = "gone" => tus'[f].state = "gone"
  BY Zenon, SMT, <1>1, <1>5 DEF Whole
<1> QED BY Zenon, SMT, <1>3, <1>4, <1>5 DEF UploadsNext, Client

\* Without forklift an object is deleted only with its upload.
LEMMA DeletedWithUpload ==
  ASSUME UploadsInv, Ingress \/ HandOff, NEW f \in Files, object'[f] = "deleted"
  PROVE  object[f] = "deleted" \/ tus'[f].state = "gone"
<1>1. CASE \E g \in Files : DelFile(g)
  BY Zenon, SMT, <1>1 DEF DelFile, UploadsInv, UploadsTypeOK
<1>2. CASE \E g \in Files : WriteLastChunk(g)
  BY Zenon, SMT, <1>2 DEF WriteLastChunk, UploadsInv, UploadsTypeOK
<1>3. CASE ~(\E g \in Files : DelFile(g) \/ WriteLastChunk(g))
  <2>1. object' = object
    BY Zenon, SMT, <1>3 DEF Ingress, HandOff, Client, PostFile, PatchFile, StartPatch, Serve, WriteChunk,
         CreatedUploads, UploadProgress, TerminatedUploads, CompleteUploads, Take, Listen,
         CreateUpload, RecordUploadProgress, MarkUploadTerminated, MarkUploadCompleted,
         MarkUploadCompletedFails, UploadReceived, UploadReceivedFails, retryComplete, Restart
  <2> QED BY <2>1
<1> QED BY Zenon, SMT, <1>1, <1>2, <1>3

\* A stream stays one of its upload; what is reflected stays reflected.
LEMMA StreamsKept ==
  ASSUME IngestInv, [IngestNext]_ingestVars
  PROVE  /\ reflected \subseteq reflected'
         /\ \A s \in Streams : stream[s] # NoFile => stream'[s] = stream[s]
<1>1. CASE Ingress \/ HandOff \/ UNCHANGED ingestVars
  BY Zenon, SMT, <1>1 DEF Ingress, HandOff, Enqueue, forkVars, ingestVars
<1>2. ASSUME NEW t \in TaskIds, HandleUpload(t) \/ ForkliftDies(t)
      PROVE  /\ reflected \subseteq reflected'
             /\ \A s \in Streams : stream[s] # NoFile => stream'[s] = stream[s]
  <2>1. CASE Split(t)
    BY Zenon, SMT, <2>1 DEF Split, IngestInv, IngestTypeOK
  <2>2. CASE ~Split(t)
    BY Zenon, SMT, <1>2, <2>2 DEF HandleUpload, ForkliftDies, Start, Retrieve, Reflect, SaveResult,
         SendResponse, DeleteObject, StepFails
  <2> QED BY <2>1, <2>2
<1> QED BY Zenon, SMT, <1>1, <1>2 DEF IngestNext

\* The row of a saved upload goes on naming a reflected stream of it.
LEMMA SavedKept ==
  ASSUME IngestInv, [IngestNext]_ingestVars, NEW f \in Files, Saved(f)
  PROVE  Saved(f)'
<1> USE UploadsAssumption
<1>1. sdHash[f] \in Streams /\ stream[sdHash[f]] # NoFile
  BY Zenon, SMT DEF Saved, IngestInv, IngestTypeOK
<1>2. CASE sdHash'[f] = sdHash[f]
  BY Zenon, SMT, <1>1, <1>2, StreamsKept DEF Saved
<1>3. ASSUME NEW t \in TaskIds, SaveResult(t), sdHash' # sdHash
      PROVE  Saved(f)'
  <2>1. CASE FileOf(t) = f
    <3>1. incoming[t].sd \in reflected /\ stream[incoming[t].sd] = f
      BY Zenon, SMT, <1>3, <2>1 DEF SaveResult, At, IngestInv, Tracked, FileOf
    <3>2. sdHash'[f] = incoming[t].sd /\ reflected' = reflected /\ stream' = stream
      BY Zenon, SMT, <1>3, <2>1 DEF SaveResult, IngestInv, IngestTypeOK
    <3> QED BY Zenon, SMT, <3>1, <3>2 DEF Saved
  <2>2. CASE FileOf(t) # f
    <3>1. sdHash'[f] = sdHash[f]
      BY Zenon, SMT, <1>3, <2>2 DEF SaveResult, IngestInv, IngestTypeOK
    <3> QED BY <1>2, <3>1
  <2> QED BY <2>1, <2>2
<1>4. sdHash' = sdHash \/ \E t \in TaskIds : SaveResult(t)
  BY Zenon, SMT DEF IngestNext, Ingress, HandOff, Enqueue, forkVars, ingestVars, HandleUpload,
       ForkliftDies, Start, Retrieve, Split, Reflect, SendResponse, DeleteObject, StepFails
<1> QED BY Zenon, SMT, <1>2, <1>3, <1>4

\* A task that stands still is tracked through the steps of the others.
LEMMA OthersTracked ==
  ASSUME IngestInv, [IngestNext]_ingestVars, NEW t \in TaskIds, incoming'[t] = incoming[t]
  PROVE  Tracked(t)'
<1> USE UploadsAssumption
<1>1. CASE At(t, "none")
  BY Zenon, SMT, <1>1 DEF Tracked, At
<1>2. CASE ~At(t, "none")
  <2>1. FileOf(t) \in Files /\ incoming[t].msg \in handedOff /\ Tracked(t)
        /\ (incoming[t].msg.key => Whole(FileOf(t)))
    BY Zenon, SMT, <1>2, TaskFacts
  <2>2. /\ handedOff \subseteq handedOff'
        /\ incoming[t].msg.key => (FileOf(t) \in withBody' <=> FileOf(t) \in withBody)
    BY Zenon, SMT, <2>1, IngestRefines, UploadsKeeps DEF IngestInv
  <2>3. /\ reflected \subseteq reflected'
        /\ incoming[t].sd \in Streams /\ stream[incoming[t].sd] = FileOf(t) =>
              stream'[incoming[t].sd] = stream[incoming[t].sd]
    BY Zenon, SMT, <2>1, StreamsKept
  <2>4. Saved(FileOf(t)) => Saved(FileOf(t))'
    BY Zenon, SMT, <2>1, SavedKept DEF FileOf
  <2>5. FileOf(t)' = FileOf(t)
    BY Zenon, SMT DEF FileOf
  <2> QED BY Zenon, SMT, <2>1, <2>2, <2>3, <2>4, <2>5 DEF Tracked, FileOf, Saved
<1> QED BY <1>1, <1>2

\* A new task has a message that has just been handed off.
LEMMA EnqueuedInv ==
  ASSUME IngestInv, IngestNext, NEW m \in handedOff', Enqueue(m)
  PROVE  /\ incoming' \in [TaskIds -> Incoming] /\ queued' \in 0..MaxTasks
         /\ \A t \in TaskIds : Tracked(t)'
<1> USE IngestAssumption
<1>1. m \in Message
  BY Zenon, SMT, IngestRefines, UploadsStep DEF IngestInv, UploadsInv, UploadsTypeOK
<1> DEFINE new == [NoTask EXCEPT !.msg = m, !.at = "pending"]
<1>2. new \in Incoming /\ new.at = "pending" /\ new.msg = m
  <2>1. NoTask \in Incoming
    BY Zenon, SMT DEF NoTask, Incoming, IngestPlaces
  <2> QED BY Zenon, SMT, <1>1, <2>1 DEF Incoming, IngestPlaces
<1>3. queued + 1 \in TaskIds /\ queued' \in 0..MaxTasks
  BY DEF Enqueue, IngestInv, IngestTypeOK, TaskIds
<1>4. incoming' = [incoming EXCEPT ![queued + 1] = new]
  BY Zenon, SMT DEF Enqueue
<1> HIDE DEF new
<1>5. incoming' \in [TaskIds -> Incoming]
  BY Zenon, SMT, <1>2, <1>3, <1>4 DEF IngestInv, IngestTypeOK
<1>6. ASSUME NEW t \in TaskIds PROVE Tracked(t)'
  <2>1. CASE t = queued + 1
    <3>1. incoming'[t] = new
      BY Zenon, SMT, <1>3, <1>4, <2>1 DEF IngestInv, IngestTypeOK
    <3> QED BY Zenon, SMT, <1>2, <3>1 DEF Tracked
  <2>2. CASE t # queued + 1
    <3>1. incoming'[t] = incoming[t]
      BY Zenon, SMT, <1>4, <2>2 DEF IngestInv, IngestTypeOK
    <3> QED BY Zenon, SMT, <3>1, OthersTracked
  <2> QED BY <2>1, <2>2
<1> QED BY <1>3, <1>5, <1>6

\* What a handler's return leaves of its task.
LEMMA ReturnsFacts ==
  ASSUME IngestInv, NEW t \in TaskIds, NEW ok \in BOOLEAN, Returns(t, ok), ~At(t, "none")
  PROVE  /\ incoming' \in [TaskIds -> Incoming]
         /\ incoming'[t].at \in {"done", "pending", "archived"}
         /\ incoming'[t].msg = incoming[t].msg
         /\ \A u \in TaskIds : u # t => incoming'[u] = incoming[u]
<1> USE IngestAssumption
<1> DEFINE x == incoming[t]
<1>1. x \in Incoming
  BY Zenon, SMT DEF IngestInv, IngestTypeOK
<1> DEFINE kept == [x EXCEPT !.at = IF ok THEN "done" ELSE "archived"]
           again == [x EXCEPT !.at = "pending", !.retried = @ + 1, !.sd = NoStream]
<1>2. \/ incoming' = [incoming EXCEPT ![t] = kept]
      \/ x.retried < Retries /\ incoming' = [incoming EXCEPT ![t] = again]
  <2>1. CASE ok
    BY SMT, <2>1 DEF Returns
  <2>2. CASE ~ok /\ x.retried < Retries
    BY SMT, <2>2 DEF Returns
  <2>3. CASE ~ok /\ ~(x.retried < Retries)
    BY SMT, <2>3 DEF Returns
  <2> QED BY <2>1, <2>2, <2>3
<1>3. kept \in Incoming /\ kept.at \in {"done", "archived"} /\ kept.msg = x.msg
  BY Zenon, SMT, <1>1 DEF Incoming, IngestPlaces
<1>4. x.retried < Retries => again \in Incoming /\ again.at = "pending" /\ again.msg = x.msg
  <2>1. x.retried < Retries => x.retried + 1 \in 0..Retries
    BY <1>1 DEF Incoming
  <2> QED BY Zenon, SMT, <1>1, <2>1 DEF Incoming, IngestPlaces
<1> HIDE DEF kept, again
<1> QED BY Zenon, SMT, <1>2, <1>3, <1>4 DEF IngestInv, IngestTypeOK

\* What a move to the next place leaves of it.
LEMMA MoveFacts ==
  ASSUME IngestInv, NEW t \in TaskIds, NEW place \in IngestPlaces, Move(t, place)
  PROVE  /\ incoming' \in [TaskIds -> Incoming]
         /\ incoming'[t].at = place
         /\ incoming'[t].msg = incoming[t].msg /\ incoming'[t].sd = incoming[t].sd
         /\ \A u \in TaskIds : u # t => incoming'[u] = incoming[u]
<1>1. incoming[t] \in Incoming
  BY Zenon, SMT DEF IngestInv, IngestTypeOK
<1>2. [incoming[t] EXCEPT !.at = place] \in Incoming
  BY Zenon, SMT, <1>1 DEF Incoming
<1> QED BY Zenon, SMT, <1>1, <1>2 DEF Move, IngestInv, IngestTypeOK, Incoming

\* The handler of one task keeps every task tracked.
LEMMA HandlerTracked ==
  ASSUME IngestInv, IngestNext, NEW t \in TaskIds, HandleUpload(t) \/ ForkliftDies(t)
  PROVE  incoming' \in [TaskIds -> Incoming] /\ \A u \in TaskIds : Tracked(u)'
<1> USE UploadsAssumption, IngestAssumption
<1>1. ~At(t, "none")
  BY Zenon, SMT DEF HandleUpload, ForkliftDies, Start, Retrieve, Split, Reflect, SaveResult, SendResponse,
       DeleteObject, StepFails, At
<1>2. /\ incoming[t] \in Incoming /\ incoming[t].msg \in handedOff /\ FileOf(t) \in Files /\ Tracked(t)
      /\ incoming[t].msg.key => Whole(FileOf(t))
  BY Zenon, SMT, <1>1, TaskFacts
<1>3. handedOff \subseteq handedOff'
  BY Zenon, SMT, IngestRefines, UploadsKeeps DEF IngestInv
<1>4. SUFFICES ASSUME TRUE
               PROVE  /\ incoming' \in [TaskIds -> Incoming] /\ Tracked(t)'
                      /\ \A u \in TaskIds : u # t => incoming'[u] = incoming[u]
  BY Zenon, SMT, OthersTracked
<1>5. CASE DeleteObject(t) \/ StepFails(t) \/ ForkliftDies(t)
  <2>1. PICK ok \in BOOLEAN : Returns(t, ok)
    BY Zenon, SMT, <1>5 DEF DeleteObject, StepFails, ForkliftDies, At
  <2>2. /\ incoming' \in [TaskIds -> Incoming]
        /\ incoming'[t].at \in {"done", "pending", "archived"}
        /\ incoming'[t].msg = incoming[t].msg
        /\ \A u \in TaskIds : u # t => incoming'[u] = incoming[u]
    BY <1>1, <2>1, ReturnsFacts
  <2> QED BY Zenon, SMT, <1>2, <1>3, <2>2 DEF Tracked
<1>6. CASE Split(t)
  <2>1. PICK s \in Streams : /\ stream[s] = NoFile
                             /\ stream' = [stream EXCEPT ![s] = FileOf(t)]
                             /\ incoming' = [incoming EXCEPT ![t].at = "upload", ![t].sd = s]
    BY Zenon, SMT, <1>6 DEF Split
  <2>2. /\ incoming'[t] \in Incoming /\ incoming'[t].at = "upload" /\ incoming'[t].sd = s
        /\ incoming'[t].msg = incoming[t].msg
        /\ \A u \in TaskIds : u # t => incoming'[u] = incoming[u]
        /\ incoming' \in [TaskIds -> Incoming]
    BY Zenon, SMT, <1>2, <2>1 DEF IngestInv, IngestTypeOK, Incoming, IngestPlaces
  <2>3. stream'[s] = FileOf(t)
    BY Zenon, SMT, <2>1 DEF IngestInv, IngestTypeOK
  <2>4. incoming[t].msg.key
    BY Zenon, SMT, <1>2, <1>6 DEF Split, At, Tracked
  <2> QED BY Zenon, SMT, <1>2, <1>3, <2>2, <2>3, <2>4 DEF Tracked, FileOf
<1>7. CASE Start(t) \/ Retrieve(t) \/ Reflect(t) \/ SaveResult(t) \/ SendResponse(t)
  <2>1. PICK place \in IngestPlaces :
           /\ Move(t, place)
           /\ \/ place = "retrieve"
              \/ place = "split" /\ incoming[t].msg.key
              \/ place = "mark" /\ Reflect(t)
              \/ place = "send" /\ SaveResult(t)
              \/ place \in {"sent", "unsent"} /\ SendResponse(t)
    BY Zenon, SMT, <1>7 DEF Start, Retrieve, Reflect, SaveResult, SendResponse, IngestPlaces
  <2>2. /\ incoming' \in [TaskIds -> Incoming]
        /\ incoming'[t].at = place
        /\ incoming'[t].msg = incoming[t].msg /\ incoming'[t].sd = incoming[t].sd
        /\ \A u \in TaskIds : u # t => incoming'[u] = incoming[u]
    BY Zenon, <2>1, MoveFacts
  <2>3. /\ \A s \in Streams : stream'[s] = stream[s] /\ reflected \subseteq reflected'
        /\ FileOf(t) \in Files
    BY Zenon, SMT, <1>2, <1>7 DEF Start, Retrieve, Reflect, SaveResult, SendResponse
  <2>4. CASE place \in {"retrieve", "split"}
    BY Zenon, SMT, <1>2, <1>3, <2>1, <2>2, <2>4 DEF Tracked
  <2>5. CASE place = "mark"
    <3>1. Reflect(t) /\ incoming[t].sd \in reflected'
      BY Zenon, SMT, <2>1, <2>5 DEF Reflect
    <3> QED BY Zenon, SMT, <1>2, <1>3, <2>2, <2>3, <2>5, <3>1 DEF Tracked, Reflect, At
  <2>6. CASE place = "send"
    <3>1. SaveResult(t) /\ At(t, "mark")
      BY Zenon, SMT, <2>1, <2>6 DEF SaveResult
    <3>2. /\ incoming[t].msg.key /\ incoming[t].sd \in Streams /\ incoming[t].sd \in reflected
          /\ stream[incoming[t].sd] = FileOf(t)
      BY Zenon, SMT, <1>2, <3>1 DEF Tracked, At, FileOf
    <3>3. reflected' = reflected /\ stream' = stream /\ withBody' = withBody
      BY Zenon, SMT, <3>1 DEF SaveResult, tusVars
    <3>4. FileOf(t) \notin withBody => sdHash'[FileOf(t)] = incoming[t].sd
      <4>1. FileOf(t) \notin withBody => status[FileOf(t)] # "absent"
        BY Zenon, SMT, <1>2, <3>2 DEF IngestInv, UploadsInv, Life
      <4> QED BY Zenon, SMT, <1>2, <3>1, <4>1 DEF SaveResult, IngestInv, IngestTypeOK
    <3> QED BY Zenon, SMT, <1>2, <1>3, <2>2, <2>6, <3>2, <3>3, <3>4 DEF Tracked, Saved, FileOf
  <2>7. CASE place \in {"sent", "unsent"}
    <3>1. SendResponse(t) /\ At(t, "send") /\ UNCHANGED <<sdHash, withBody, stream, reflected>>
      BY Zenon, SMT, <2>1, <2>7 DEF SendResponse, uploadsVars
    <3> QED BY Zenon, SMT, <1>2, <1>3, <2>2, <2>7, <3>1 DEF Tracked, At, Saved
  <2> QED BY Zenon, SMT, <2>1, <2>2, <2>4, <2>5, <2>6, <2>7
<1> QED BY Zenon, SMT, <1>5, <1>6, <1>7 DEF HandleUpload

\* Types of the rest of the state.
LEMMA ForkTypes ==
  ASSUME IngestInv, IngestNext
  PROVE  /\ sdHash' \in [Files -> Streams \cup {NoStream}]
         /\ stream' \in [Streams -> Files \cup {NoFile}]
         /\ reflected' \subseteq Streams /\ announced' \subseteq Done
         /\ (\E t \in TaskIds : HandleUpload(t) \/ ForkliftDies(t)) => queued' = queued
<1>1. CASE Ingress \/ HandOff
  BY Zenon, SMT, <1>1 DEF Ingress, HandOff, Enqueue, forkVars, IngestInv, IngestTypeOK, HandleUpload,
       ForkliftDies, Start, Retrieve, Split, Reflect, SaveResult, SendResponse, DeleteObject, StepFails
<1>2. ASSUME NEW t \in TaskIds, HandleUpload(t) \/ ForkliftDies(t)
      PROVE  /\ sdHash' \in [Files -> Streams \cup {NoStream}]
             /\ stream' \in [Streams -> Files \cup {NoFile}]
             /\ reflected' \subseteq Streams /\ announced' \subseteq Done
             /\ queued' = queued
  <2>1. /\ FileOf(t) \in Files /\ incoming[t] \in Incoming /\ Tracked(t)
        /\ incoming[t].msg \in Message
    BY Zenon, SMT, <1>2, TaskFacts DEF HandleUpload, ForkliftDies, Start, Retrieve, Split, Reflect,
         SaveResult, SendResponse, DeleteObject, StepFails, At, IngestInv, UploadsInv, UploadsTypeOK
  <2>2. CASE SaveResult(t)
    BY Zenon, SMT, <2>1, <2>2 DEF SaveResult, At, Tracked, IngestInv, IngestTypeOK
  <2>3. CASE Split(t)
    BY Zenon, SMT, <2>1, <2>3 DEF Split, IngestInv, IngestTypeOK
  <2>4. CASE SendResponse(t)
    <3>1. [file |-> FileOf(t), user |-> incoming[t].msg.user, sd |-> incoming[t].sd] \in Done
      BY Zenon, SMT, <2>1, <2>4 DEF SendResponse, At, Tracked, Message, Done
    <3> QED BY Zenon, SMT, <2>4, <3>1 DEF SendResponse, IngestInv, IngestTypeOK
  <2>5. CASE Reflect(t)
    BY Zenon, SMT, <2>1, <2>5 DEF Reflect, At, Tracked, IngestInv, IngestTypeOK
  <2>6. CASE Start(t) \/ Retrieve(t) \/ DeleteObject(t) \/ StepFails(t) \/ ForkliftDies(t)
    BY Zenon, SMT, <2>6 DEF Start, Retrieve, DeleteObject, StepFails, ForkliftDies, IngestInv, IngestTypeOK
  <2> QED BY Zenon, SMT, <1>2, <2>2, <2>3, <2>4, <2>5, <2>6 DEF HandleUpload
<1> QED BY Zenon, SMT, <1>1, <1>2 DEF IngestNext

\* Streams are still made of whole uploads.
LEMMA WholeKept ==
  ASSUME IngestInv, [IngestNext]_ingestVars
  PROVE  MadeOfWhole'
<1>1. SUFFICES ASSUME NEW s \in Streams, stream'[s] # NoFile PROVE Whole(stream[s])'
  BY Zenon DEF MadeOfWhole
<1>2. [UploadsNext]_uploadsVars
  BY IngestRefines
<1>3. \A f \in Files : Whole(f) => Whole(f)'
  BY Zenon, <1>2, UploadsKeeps DEF IngestInv
<1>4. CASE stream[s] # NoFile
  <2>1. stream'[s] = stream[s] /\ stream[s] \in Files /\ Whole(stream[s])
    BY Zenon, SMT, <1>4, StreamsKept DEF IngestInv, IngestTypeOK, MadeOfWhole
  <2> QED BY Zenon, SMT, <1>3, <2>1 DEF Whole
<1>5. CASE stream[s] = NoFile
  <2>1. PICK t \in TaskIds : Split(t)
    BY Zenon, SMT, <1>1, <1>5 DEF IngestNext, Ingress, HandOff, Enqueue, forkVars, ingestVars,
         HandleUpload, ForkliftDies, Start, Retrieve, Reflect, SaveResult, SendResponse, DeleteObject,
         StepFails
  <2>2. FileOf(t) \in Files /\ Whole(FileOf(t))
    BY Zenon, SMT, <2>1, TaskFacts DEF Split, At, Tracked
  <2>3. stream'[s] = FileOf(t)
    BY Zenon, SMT, <1>1, <1>5, <2>1 DEF Split, IngestInv, IngestTypeOK
  <2> QED BY Zenon, SMT, <1>3, <2>2, <2>3 DEF Whole
<1> QED BY <1>4, <1>5

\* The content of a recorded upload is still somewhere.
LEMMA SourceKept ==
  ASSUME IngestInv, [IngestNext]_ingestVars
  PROVE  SourceOrResult'
<1>1. SUFFICES ASSUME NEW f \in Files, object'[f] = "deleted", f \notin withBody'
               PROVE  Saved(f)' \/ tus'[f].state = "gone"
  BY Zenon DEF SourceOrResult
<1>2. [UploadsNext]_uploadsVars
  BY IngestRefines
<1>3. /\ Whole(f) => (f \in withBody' <=> f \in withBody)
      /\ tus[f].state = "gone" => tus'[f].state = "gone"
  BY Zenon, <1>2, UploadsKeeps DEF IngestInv
<1>4. withBody \subseteq withBody'
  BY Zenon, SMT, <1>2 DEF UploadsNext, Client, PostFile, PatchFile, StartPatch, DelFile, Serve, WriteChunk,
       WriteLastChunk, CreatedUploads, UploadProgress, TerminatedUploads, CompleteUploads, Take,
       Listen, CreateUpload, RecordUploadProgress, MarkUploadTerminated, MarkUploadCompleted,
       MarkUploadCompletedFails, UploadReceived, UploadReceivedFails, retryComplete,
       MarkUploadProcessed, DeleteSource, Restart, uploadsVars, tusVars
<1>5. CASE object[f] = "deleted"
  <2>1. Saved(f) \/ tus[f].state = "gone"
    BY Zenon, SMT, <1>1, <1>4, <1>5 DEF IngestInv, SourceOrResult
  <2> QED BY Zenon, <1>3, <2>1, SavedKept
<1>6. CASE object[f] # "deleted" /\ (Ingress \/ HandOff)
  BY Zenon, <1>1, <1>6, DeletedWithUpload DEF IngestInv
<1>7. ASSUME NEW t \in TaskIds, HandleUpload(t) \/ ForkliftDies(t), object[f] # "deleted"
      PROVE  Saved(f)'
  <2>1. DeleteObject(t) /\ FileOf(t) = f
    BY Zenon, SMT, <1>1, <1>7 DEF HandleUpload, ForkliftDies, Start, Retrieve, Split, Reflect, SaveResult,
         SendResponse, StepFails, DeleteObject, uploadsVars, IngestInv, UploadsInv, UploadsTypeOK
  <2>2. Tracked(t) /\ (At(t, "sent") \/ At(t, "unsent"))
    BY Zenon, SMT, <2>1 DEF DeleteObject, At, IngestInv
  <2>3. f \notin withBody
    BY Zenon, <1>1, <1>4
  <2>4. Saved(f)
    BY Zenon, SMT, <2>1, <2>2, <2>3 DEF Tracked, At, FileOf
  <2> QED BY Zenon, <2>4, SavedKept
<1>8. CASE UNCHANGED ingestVars
  BY Zenon, SMT, <1>1, <1>5, <1>8 DEF ingestVars, uploadsVars
<1> QED BY Zenon, SMT, <1>5, <1>6, <1>7, <1>8 DEF IngestNext

-----------------------------------------------------------------------------

\* Every step of the two services keeps the invariant.
LEMMA IngestStep == IngestInv /\ [IngestNext]_ingestVars => IngestInv'
<1> SUFFICES ASSUME IngestInv, [IngestNext]_ingestVars PROVE IngestInv'
  OBVIOUS
<1>1. UploadsInv'
  BY Zenon, IngestRefines, UploadsStep DEF IngestInv
<1>2. MadeOfWhole' /\ SourceOrResult'
  BY Zenon, WholeKept, SourceKept
<1>3. CASE UNCHANGED ingestVars
  <2>1. IngestTypeOK'
    BY Zenon, SMT, <1>1, <1>3 DEF ingestVars, forkVars, IngestInv, IngestTypeOK, UploadsInv
  <2>2. \A t \in TaskIds : Tracked(t)'
    BY Zenon, SMT, <1>3, OthersTracked DEF ingestVars, forkVars
  <2> QED BY Zenon, <1>1, <1>2, <2>1, <2>2 DEF IngestInv
<1>4. CASE IngestNext
  <2>1. /\ incoming' \in [TaskIds -> Incoming] /\ queued' \in 0..MaxTasks
        /\ \A t \in TaskIds : Tracked(t)'
    <3>1. CASE UNCHANGED forkVars
      BY Zenon, SMT, <3>1, OthersTracked DEF forkVars, IngestInv, IngestTypeOK
    <3>2. CASE \E t \in TaskIds : HandleUpload(t) \/ ForkliftDies(t)
      BY Zenon, SMT, <1>4, <3>2, HandlerTracked, ForkTypes DEF IngestInv, IngestTypeOK
    <3>3. CASE \E m \in handedOff' : Enqueue(m)
      BY Zenon, <1>4, <3>3, EnqueuedInv
    <3>4. HandOff => UNCHANGED forkVars \/ \E m \in handedOff' : Enqueue(m)
      BY Zenon, SMT DEF HandOff, UploadReceived, retryComplete
    <3> QED BY Zenon, <1>4, <3>1, <3>2, <3>3, <3>4 DEF IngestNext, Ingress
  <2>2. IngestTypeOK'
    BY Zenon, SMT, <1>1, <1>4, <2>1, ForkTypes DEF IngestTypeOK, UploadsInv
  <2> QED BY Zenon, <1>1, <1>2, <2>1, <2>2 DEF IngestInv
<1> QED BY <1>3, <1>4

\* The invariant holds in every reachable state of the two services.
LEMMA IngestInvariance == IngestSpec => []IngestInv
  BY IngestInitInv, IngestStep, PTL DEF IngestSpec

\* With any number of uploads, tasks and retries forklift makes streams of whole
\* uploads only (Retrieve, retryComplete), and the object of a recorded upload is
\* deleted only when the row names its result or its user has deleted it
\* (DeleteObject, SaveResult, DelFile).
THEOREM IngestSafety == IngestSpec => []IngestSafe
<1>1. IngestInv => StreamsAreWhole
  BY Zenon DEF IngestInv, MadeOfWhole, Whole, StreamsAreWhole
<1>2. IngestInv => IngestSafe
  BY Zenon, <1>1 DEF IngestInv, IngestSafe
<1> QED BY <1>2, IngestInvariance, PTL

\* A saved result is replaced by a saved result only (SaveResult).
THEOREM IngestSaves == IngestSpec => SavedStaysSaved
<1>1. IngestInv /\ [IngestNext]_ingestVars =>
        [\A f \in Files : Saved(f) => Saved(f)']_ingestVars
  BY Zenon, SavedKept
<1> QED BY <1>1, IngestInvariance, PTL DEF IngestSpec, SavedStaysSaved

\* The two services together implement Uploads: what forklift does to the table
\* and the bucket is no more than Uploads lets it do (SaveResult, DeleteObject).
THEOREM IngestImplementsUploads == IngestSpec => UploadsRefined
<1>1. IngestInit => UploadsInit
  BY DEF IngestInit
<1>2. IngestInv /\ [IngestNext]_ingestVars => [UploadsNext]_uploadsVars
  BY IngestRefines
<1> QED BY <1>1, <1>2, IngestInvariance, PTL DEF IngestSpec, UploadsRefined, UploadsSpec

-----------------------------------------------------------------------------
(* The locks in Redis.                                                     *)

\* Nothing but an expiry takes the key from a request that uses its upload.
Owning == \A r \in Requests : Using(r) /\ r \notin expired => redisKey[NameOf(r)] = r

LockerInv ==
    /\ LockerTypeOK
    /\ Owning
    /\ HolderIsLive
    /\ HeldCanBeAsked
    /\ AskedByAnother

-----------------------------------------------------------------------------

\* A new locker has no keys, no callbacks and no requests.
LEMMA LockerInitInv == New => LockerInv
  BY LockerAssumption DEF New, LockerInv, LockerTypeOK, Owning, Using, HolderIsLive,
     HeldCanBeAsked, AskedByAnother, Places

\* Two requests that use one upload: one of them has lost its key.
LEMMA OwningExcludes == Owning => ExclusiveUntilExpiry
  BY DEF Owning, ExclusiveUntilExpiry

\* A callback belongs to a request that holds its lock.
LEMMA HolderFacts ==
  ASSUME LockerInv, NEW r \in Requests, Holder(r) # None
  PROVE  /\ Holder(r) \in Requests
         /\ pc[Holder(r)] = "held"
         /\ ProcessOf(Holder(r)) = ProcessOf(r)
         /\ NameOf(Holder(r)) = NameOf(r)
  BY LockerAssumption DEF LockerInv, LockerTypeOK, HolderIsLive, Holder

\* A step of one request that moves on, and changes neither keys nor callbacks.
LEMMA MoveInv ==
  ASSUME LockerInv, NEW r \in Requests, StartLock(r) \/ LockFails(r) \/ UnlockFails(r)
  PROVE  LockerInv'
<1> USE LockerAssumption
<1>1. PICK to \in {"waiting", "refused", "done"} :
        /\ pc' = [pc EXCEPT ![r] = to]
        /\ \/ pc[r] = "idle" /\ to = "waiting"
           \/ pc[r] = "waiting" /\ to = "refused"
           \/ pc[r] = "unlocking" /\ to = "done"
        /\ UNCHANGED <<redisKey, holders, expired>>
        /\ asked' = asked \/ (AskHolder(r) /\ pc[r] = "idle")
  <2>1. CASE StartLock(r)
    BY <2>1 DEF StartLock
  <2>2. CASE LockFails(r)
    BY <2>2 DEF LockFails
  <2>3. CASE UnlockFails(r)
    BY <2>3 DEF UnlockFails
  <2> QED BY <2>1, <2>2, <2>3
<1>2. /\ pc' \in [Requests -> Places] /\ pc'[r] = to
      /\ \A s \in Requests \ {r} : pc'[s] = pc[s]
      /\ pc \in [Requests -> Places]
  BY <1>1 DEF LockerInv, LockerTypeOK, Places
<1>3. LockerTypeOK'
  <2>1. asked' \subseteq Requests
    BY <1>1, HolderFacts DEF LockerInv, LockerTypeOK, AskHolder
  <2> QED BY <1>1, <1>2, <2>1 DEF LockerInv, LockerTypeOK
<1>4. Owning'
  BY <1>1, <1>2 DEF LockerInv, Owning, Using
<1>5. HolderIsLive'
  BY <1>1, <1>2 DEF LockerInv, LockerTypeOK, HolderIsLive
<1>6. HeldCanBeAsked'
  BY <1>1, <1>2 DEF LockerInv, HeldCanBeAsked, Holder
<1>7. AskedByAnother'
  <2> SUFFICES ASSUME NEW a \in asked'
               PROVE  /\ pc'[a] \in {"held", "unlocking", "done"}
                      /\ \E s \in Requests \ {a} : /\ ProcessOf(s) = ProcessOf(a)
                                                   /\ NameOf(s) = NameOf(a)
                                                   /\ pc'[s] # "idle"
    BY DEF AskedByAnother
  <2>1. CASE a \in asked
    <3>1. /\ a \in Requests /\ pc[a] \in {"held", "unlocking", "done"}
          /\ \E s \in Requests \ {a} : /\ ProcessOf(s) = ProcessOf(a)
                                       /\ NameOf(s) = NameOf(a)
                                       /\ pc[s] # "idle"
      BY <2>1 DEF LockerInv, LockerTypeOK, AskedByAnother
    <3>2. \A s \in Requests : pc[s] # "idle" => pc'[s] # "idle"
      BY <1>1, <1>2
    <3> QED BY <1>1, <1>2, <3>1, <3>2
  <2>2. CASE a \notin asked
    <3>1. a = Holder(r) /\ a # None /\ pc[r] = "idle"
      BY <1>1, <2>2 DEF AskHolder
    <3>2. a \in Requests /\ pc[a] = "held" /\ ProcessOf(a) = ProcessOf(r) /\ NameOf(a) = NameOf(r)
      BY <3>1, HolderFacts
    <3>3. a # r /\ pc'[a] = "held" /\ pc'[r] # "idle"
      BY <1>1, <1>2, <3>1, <3>2
    <3> QED BY <3>2, <3>3
  <2> QED BY <2>1, <2>2
<1> QED BY <1>3, <1>4, <1>5, <1>6, <1>7 DEF LockerInv

\* The key was free: no request that still owns its upload was using it.
LEMMA LockContextInv ==
  ASSUME LockerInv, NEW r \in Requests, LockContext(r)
  PROVE  LockerInv'
<1> USE LockerAssumption
<1>1. /\ pc' \in [Requests -> Places] /\ pc'[r] = "acquired" /\ pc[r] = "waiting"
      /\ \A s \in Requests \ {r} : pc'[s] = pc[s]
      /\ redisKey[NameOf(r)] = None
      /\ redisKey' \in [Names -> Requests \cup {None}] /\ redisKey'[NameOf(r)] = r
      /\ \A n \in Names : n # NameOf(r) => redisKey'[n] = redisKey[n]
      /\ UNCHANGED <<holders, asked, expired>>
  BY DEF LockerInv, LockerTypeOK, LockContext, Places
<1>2. LockerTypeOK'
  BY <1>1 DEF LockerInv, LockerTypeOK
<1>3. Owning'
  <2> SUFFICES ASSUME NEW s \in Requests, Using(s)', s \notin expired
               PROVE  redisKey'[NameOf(s)] = s
    BY <1>1 DEF Owning
  <2>1. CASE s = r
    BY <1>1, <2>1
  <2>2. CASE s # r
    BY <1>1, <2>2 DEF LockerInv, Owning, Using
  <2> QED BY <2>1, <2>2
<1>4. HolderIsLive'
  BY <1>1 DEF LockerInv, LockerTypeOK, HolderIsLive
<1>5. HeldCanBeAsked'
  BY <1>1 DEF LockerInv, HeldCanBeAsked, Holder
<1>6. AskedByAnother'
  BY <1>1 DEF LockerInv, LockerTypeOK, AskedByAnother
<1> QED BY <1>2, <1>3, <1>4, <1>5, <1>6 DEF LockerInv

\* Putting a callback in the map or taking one out: if it was the callback of
\* another request that holds its lock, a key of the upload has expired.
LEMMA MapInv ==
  ASSUME LockerInv, NEW r \in Requests, Register(r) \/ StartUnlock(r)
  PROVE  LockerInv'
<1> USE LockerAssumption
<1>1. PICK v \in {r, None}, to \in {"held", "unlocking"} :
        /\ SetHolder(r, v)
        /\ v = r <=> to = "held"
        /\ pc[r] \in {"acquired", "held"}
        /\ pc' = [pc EXCEPT ![r] = to]
  BY DEF Register, StartUnlock
<1>2. UNCHANGED <<redisKey, asked, expired>>
  BY DEF Register, StartUnlock
<1>3. /\ pc' \in [Requests -> Places] /\ pc'[r] = to
      /\ \A s \in Requests \ {r} : pc'[s] = pc[s]
      /\ pc \in [Requests -> Places]
  BY <1>1 DEF LockerInv, LockerTypeOK, Places
<1>4. /\ holders' \in [Processes -> [Names -> Requests \cup {None}]]
      /\ \A p \in Processes, n \in Names :
            holders'[p][n] = IF p = ProcessOf(r) /\ n = NameOf(r) THEN v ELSE holders[p][n]
  BY <1>1 DEF LockerInv, LockerTypeOK, SetHolder
<1>5. LockerTypeOK'
  BY <1>2, <1>3, <1>4 DEF LockerInv, LockerTypeOK
<1>6. Owning'
  BY <1>1, <1>2, <1>3 DEF LockerInv, Owning, Using
<1>7. HolderIsLive'
  <2> SUFFICES ASSUME NEW p \in Processes, NEW n \in Names, holders'[p][n] # None
               PROVE  /\ pc'[holders'[p][n]] = "held"
                      /\ ProcessOf(holders'[p][n]) = p /\ NameOf(holders'[p][n]) = n
    BY DEF HolderIsLive
  <2>1. CASE p = ProcessOf(r) /\ n = NameOf(r)
    BY <1>1, <1>3, <1>4, <2>1
  <2>2. CASE ~(p = ProcessOf(r) /\ n = NameOf(r))
    <3>1. holders'[p][n] = holders[p][n] /\ holders[p][n] \in Requests
      BY <1>4, <2>2 DEF LockerInv, LockerTypeOK
    <3>2. pc[holders[p][n]] = "held" /\ ProcessOf(holders[p][n]) = p /\ NameOf(holders[p][n]) = n
      BY <3>1 DEF LockerInv, HolderIsLive
    <3>3. holders[p][n] # r
      BY <2>2, <3>2
    <3> QED BY <1>3, <3>1, <3>2, <3>3
  <2> QED BY <2>1, <2>2
<1>8. HeldCanBeAsked'
  <2> SUFFICES ASSUME NEW s \in Requests, pc'[s] = "held"
               PROVE  Holder(s)' = s \/ \E x \in expired : NameOf(x) = NameOf(s)
    BY <1>2 DEF HeldCanBeAsked
  <2>1. CASE s = r
    BY <1>1, <1>3, <1>4, <2>1 DEF Holder
  <2>2. CASE s # r /\ ProcessOf(s) = ProcessOf(r) /\ NameOf(s) = NameOf(r)
    <3>1. Using(s) /\ Using(r)
      BY <1>1, <1>3, <2>2 DEF Using
    <3>2. ExclusiveUntilExpiry
      BY OwningExcludes DEF LockerInv
    <3> QED BY <2>2, <3>1, <3>2 DEF ExclusiveUntilExpiry
  <2>3. CASE s # r /\ ~(ProcessOf(s) = ProcessOf(r) /\ NameOf(s) = NameOf(r))
    <3>1. Holder(s)' = Holder(s) /\ pc[s] = "held"
      BY <1>3, <1>4, <2>3 DEF Holder
    <3> QED BY <3>1 DEF LockerInv, HeldCanBeAsked
  <2> QED BY <2>1, <2>2, <2>3
<1>9. AskedByAnother'
  <2>1. \A s \in Requests : /\ pc[s] # "idle" => pc'[s] # "idle"
                            /\ pc[s] \in {"held", "unlocking", "done"} =>
                                  pc'[s] \in {"held", "unlocking", "done"}
    BY <1>1, <1>3
  <2>2. asked' = asked /\ asked \subseteq Requests
    BY <1>2 DEF LockerInv, LockerTypeOK
  <2> QED BY <2>1, <2>2 DEF LockerInv, AskedByAnother
<1> QED BY <1>5, <1>6, <1>7, <1>8, <1>9 DEF LockerInv

\* Unlock deletes the key of its own mutex only.
LEMMA FinishUnlockInv ==
  ASSUME LockerInv, NEW r \in Requests, FinishUnlock(r)
  PROVE  LockerInv'
<1> USE LockerAssumption
<1>1. /\ pc' \in [Requests -> Places] /\ pc'[r] = "done" /\ pc[r] = "unlocking"
      /\ \A s \in Requests \ {r} : pc'[s] = pc[s]
      /\ redisKey' \in [Names -> Requests \cup {None}]
      /\ \A n \in Names : redisKey[n] # r => redisKey'[n] = redisKey[n]
      /\ UNCHANGED <<holders, asked, expired>>
  BY DEF LockerInv, LockerTypeOK, FinishUnlock, ReleasedKey, Places
<1>2. LockerTypeOK'
  BY <1>1 DEF LockerInv, LockerTypeOK
<1>3. Owning'
  <2> SUFFICES ASSUME NEW s \in Requests, Using(s)', s \notin expired
               PROVE  redisKey'[NameOf(s)] = s
    BY <1>1 DEF Owning
  <2>1. s # r /\ redisKey[NameOf(s)] = s
    BY <1>1 DEF LockerInv, Owning, Using
  <2> QED BY <1>1, <2>1
<1>4. HolderIsLive'
  BY <1>1 DEF LockerInv, LockerTypeOK, HolderIsLive
<1>5. HeldCanBeAsked'
  BY <1>1 DEF LockerInv, HeldCanBeAsked, Holder
<1>6. AskedByAnother'
  BY <1>1 DEF LockerInv, LockerTypeOK, AskedByAnother
<1> QED BY <1>2, <1>3, <1>4, <1>5, <1>6 DEF LockerInv

\* The request that loses its key is remembered.
LEMMA ExpireInv ==
  ASSUME LockerInv, NEW n \in Names, Expire(n)
  PROVE  LockerInv'
<1> USE LockerAssumption
<1>1. /\ redisKey \in [Names -> Requests \cup {None}] /\ redisKey[n] \in Requests
      /\ expired' = IF Using(redisKey[n]) THEN expired \cup {redisKey[n]} ELSE expired
      /\ redisKey' = [redisKey EXCEPT ![n] = None]
      /\ UNCHANGED <<holders, pc, asked>>
  BY DEF LockerInv, LockerTypeOK, Expire
<1>2. LockerTypeOK'
  BY <1>1 DEF LockerInv, LockerTypeOK
<1>3. Owning'
  <2> SUFFICES ASSUME NEW s \in Requests, Using(s)', s \notin expired'
               PROVE  redisKey'[NameOf(s)] = s
    BY DEF Owning
  <2>1. Using(s) /\ s \notin expired
    BY <1>1 DEF Using
  <2>2. redisKey[NameOf(s)] = s
    BY <2>1 DEF LockerInv, Owning
  <2>3. NameOf(s) # n
    BY <1>1, <2>1, <2>2
  <2> QED BY <1>1, <2>2, <2>3
<1>4. HolderIsLive'
  BY <1>1 DEF LockerInv, HolderIsLive
<1>5. HeldCanBeAsked'
  BY <1>1 DEF LockerInv, HeldCanBeAsked, Holder
<1>6. AskedByAnother'
  BY <1>1 DEF LockerInv, AskedByAnother
<1> QED BY <1>2, <1>3, <1>4, <1>5, <1>6 DEF LockerInv

\* A process dies with its requests and its callbacks.
LEMMA CrashInv ==
  ASSUME LockerInv, NEW p \in Processes, Crash(p)
  PROVE  LockerInv'
<1> USE LockerAssumption
<1>1. /\ UNCHANGED <<redisKey, asked, expired>>
      /\ \A r \in Requests : \/ pc'[r] = pc[r] /\ (ProcessOf(r) # p \/ pc[r] = "idle")
                             \/ pc'[r] = "done" /\ pc[r] # "idle" /\ ProcessOf(r) = p
  BY DEF Crash
<1>2. \A q \in Processes, n \in Names : holders'[q][n] = IF q = p THEN None ELSE holders[q][n]
  BY DEF LockerInv, LockerTypeOK, Crash
<1>3. LockerTypeOK'
  BY DEF LockerInv, LockerTypeOK, Crash, Places
<1>4. Owning'
  BY <1>1 DEF LockerInv, Owning, Using
<1>5. HolderIsLive'
  <2> SUFFICES ASSUME NEW q \in Processes, NEW n \in Names, holders'[q][n] # None
               PROVE  /\ pc'[holders'[q][n]] = "held"
                      /\ ProcessOf(holders'[q][n]) = q /\ NameOf(holders'[q][n]) = n
    BY DEF HolderIsLive
  <2>1. q # p /\ holders'[q][n] = holders[q][n] /\ holders[q][n] \in Requests
    BY <1>2 DEF LockerInv, LockerTypeOK
  <2>2. pc[holders[q][n]] = "held" /\ ProcessOf(holders[q][n]) = q /\ NameOf(holders[q][n]) = n
    BY <2>1 DEF LockerInv, HolderIsLive
  <2> QED BY <1>1, <2>1, <2>2
<1>6. HeldCanBeAsked'
  <2> SUFFICES ASSUME NEW r \in Requests, pc'[r] = "held"
               PROVE  Holder(r)' = r \/ \E s \in expired : NameOf(s) = NameOf(r)
    BY <1>1 DEF HeldCanBeAsked
  <2>1. pc[r] = "held" /\ ProcessOf(r) # p
    BY <1>1
  <2>2. Holder(r)' = Holder(r)
    BY <1>2, <2>1 DEF Holder
  <2> QED BY <2>1, <2>2 DEF LockerInv, HeldCanBeAsked
<1>7. AskedByAnother'
  <2>1. \A r \in Requests : /\ pc[r] # "idle" => pc'[r] # "idle"
                            /\ pc[r] \in {"held", "unlocking", "done"} =>
                                  pc'[r] \in {"held", "unlocking", "done"}
    BY <1>1
  <2>2. asked' = asked /\ asked \subseteq Requests
    BY <1>1 DEF LockerInv, LockerTypeOK
  <2> QED BY <2>1, <2>2 DEF LockerInv, AskedByAnother
<1> QED BY <1>3, <1>4, <1>5, <1>6, <1>7 DEF LockerInv

-----------------------------------------------------------------------------

\* Every step of requests, Redis and processes preserves the invariant.
LEMMA LockerStep == LockerInv /\ [LockerNext]_lockerVars => LockerInv'
<1> SUFFICES ASSUME LockerInv, [LockerNext]_lockerVars PROVE LockerInv'
  OBVIOUS
<1>1. ASSUME NEW r \in Requests, Lock(r) PROVE LockerInv'
  BY <1>1, MoveInv, LockContextInv, MapInv DEF Lock
<1>2. ASSUME NEW r \in Requests, Unlock(r) PROVE LockerInv'
  BY <1>2, MoveInv, FinishUnlockInv, MapInv DEF Unlock
<1>3. CASE UNCHANGED lockerVars
  BY <1>3 DEF lockerVars, LockerInv, LockerTypeOK, Owning, Using, HolderIsLive,
     HeldCanBeAsked, Holder, AskedByAnother
<1> QED BY <1>1, <1>2, <1>3, ExpireInv, CrashInv DEF LockerNext

\* LockerInv holds in every reachable state.
LEMMA LockerInvariance == LockerSpec => []LockerInv
  BY LockerInitInv, LockerStep, PTL DEF LockerSpec

\* Two requests use one upload, in one process or in two, only when the key of one
\* of them has expired under it; a callback in the map belongs to a request that
\* holds its lock, which can be asked to give way unless a key of its upload has
\* expired, and is asked only by another request for the same upload (Lock,
\* Unlock, with late unlocks and crashes).
THEOREM LockerSafety == LockerSpec => []LockerSafe
<1>1. LockerInv => LockerSafe
  BY OwningExcludes DEF LockerInv, LockerSafe
<1> QED BY <1>1, LockerInvariance, PTL

-----------------------------------------------------------------------------
(* UploadsLife.                                                            *)

\* What main has built by the time it is somewhere.
Built ==
    /\ main \in {"connect", "build"} => ready = "nil"
    /\ main \in {"connect", "build", "handler"} => server = "nil"
    /\ main \in {"listen", "launch", "serve", "wait", "exited"} => server # "nil"
    /\ server = "nil" <=> stopChan = 0

\* What the goroutine of the signals has done by the time it is somewhere.
Trapped ==
    /\ trap \in {"grace", "shutdown", "close", "cancel", "done"} => ready = "cancelled"
    /\ server = "closed" <=> trap \in {"close", "cancel", "done"}
    /\ trap \in {"cancel", "done"} => \A r \in Conns : ~Active(r)
    /\ main = "exited" => trap = "done"

\* The inductive invariant.
LifeInv == LifeTypeOK /\ Built /\ Trapped

\* The invariant says all that is promised.
LEMMA LifeInvSafe == LifeInv => LifeSafe
  BY Zenon, SMT DEF LifeInv, LifeSafe, Trapped, WarnedBeforeClosed, RequestsDrained

\* A process that starts has built nothing.
LEMMA LifeInitInv == LifeInit => LifeInv
<1> SUFFICES ASSUME LifeInit PROVE LifeInv
  OBVIOUS
<1>1. LifeTypeOK
  BY DEF LifeInit, LifeTypeOK, Ended
<1>2. Built /\ Trapped
  BY Zenon, SMT DEF LifeInit, Built, Trapped
<1> QED
  BY Zenon, SMT, <1>1, <1>2 DEF LifeInv

\* The main goroutine: what it builds is new, and it never opens a server that
\* was shut down.
LEMMA MainStepInv ==
    ASSUME LifeInv, MainStep
    PROVE  LifeInv'
<1>1. CASE Connect
  <2>1. LifeTypeOK'
    BY Zenon, SMT, <1>1 DEF LifeInv, LifeTypeOK, Connect, Ended
  <2>2. Built' /\ Trapped'
    BY Zenon, SMT, <1>1 DEF LifeInv, Built, Trapped, Connect, Active
  <2> QED
    BY Zenon, SMT, <2>1, <2>2 DEF LifeInv
<1>2. CASE BuildHandler
  <2>1. LifeTypeOK'
    BY Zenon, SMT, <1>2 DEF LifeInv, LifeTypeOK, BuildHandler, Ended
  <2>2. Built' /\ Trapped'
    BY Zenon, SMT, <1>2 DEF LifeInv, Built, Trapped, BuildHandler, Active
  <2> QED
    BY Zenon, SMT, <2>1, <2>2 DEF LifeInv
<1>3. CASE BuildServer
  <2>1. LifeTypeOK'
    BY <1>3 DEF LifeInv, LifeTypeOK, Built, BuildServer, Ended
  <2>2. Built' /\ Trapped'
    BY <1>3 DEF LifeInv, Built, Trapped, BuildServer, Active
  <2> QED
    BY Zenon, SMT, <2>1, <2>2 DEF LifeInv
<1>4. ASSUME NEW l \in Listeners, StartListener(l) PROVE LifeInv'
  <2>1. LifeTypeOK'
    BY Zenon, SMT, <1>4 DEF LifeInv, LifeTypeOK, Built, StartListener, Ended
  <2>2. Built' /\ Trapped'
    BY Zenon, SMT, <1>4 DEF LifeInv, Built, Trapped, StartListener, Active
  <2> QED
    BY Zenon, SMT, <2>1, <2>2 DEF LifeInv
<1>5. CASE ReplaceStopChan
  <2>1. LifeTypeOK'
    BY <1>5 DEF LifeInv, LifeTypeOK, Built, ReplaceStopChan, Ended
  <2>2. Built' /\ Trapped'
    BY <1>5 DEF LifeInv, Built, Trapped, ReplaceStopChan, Active
  <2> QED
    BY Zenon, SMT, <2>1, <2>2 DEF LifeInv
<1>6. CASE Launch
  <2>1. LifeTypeOK'
    BY Zenon, SMT, <1>6 DEF LifeInv, LifeTypeOK, Launch, Ended
  <2>2. Built' /\ Trapped'
    BY Zenon, SMT, <1>6 DEF LifeInv, Built, Trapped, Launch, Active
  <2> QED
    BY Zenon, SMT, <2>1, <2>2 DEF LifeInv
<1>7. CASE ServerStopped
  <2>1. LifeTypeOK'
    BY Zenon, SMT, <1>7 DEF LifeInv, LifeTypeOK, ServerStopped, Ended
  <2>2. Built' /\ Trapped'
    BY Zenon, SMT, <1>7 DEF LifeInv, Built, Trapped, ServerStopped, Active
  <2> QED
    BY Zenon, SMT, <2>1, <2>2 DEF LifeInv
<1>8. CASE Return
  <2>1. LifeTypeOK'
    BY Zenon, SMT, <1>8 DEF LifeInv, LifeTypeOK, Return, Ended
  <2>2. Built' /\ Trapped'
    BY Zenon, SMT, <1>8 DEF LifeInv, Built, Trapped, Return, Active
  <2> QED
    BY Zenon, SMT, <2>1, <2>2 DEF LifeInv
<1> QED
  BY Zenon, SMT, <1>1, <1>2, <1>3, <1>4, <1>5, <1>6, <1>7, <1>8 DEF MainStep

\* The goroutine of the signals: a server is closed after the probe was told, and
\* the channel of the listeners when no request is left.
LEMMA TrapStepInv ==
    ASSUME LifeInv, TrapStep \/ Signal
    PROVE  LifeInv'
<1>1. CASE Notify
  <2>1. LifeTypeOK'
    BY Zenon, SMT, <1>1 DEF LifeInv, LifeTypeOK, Notify
  <2>2. Built' /\ Trapped'
    BY Zenon, SMT, <1>1 DEF LifeInv, Built, Trapped, Notify, Active
  <2> QED
    BY Zenon, SMT, <2>1, <2>2 DEF LifeInv
<1>2. CASE Signal
  <2>1. LifeTypeOK'
    BY Zenon, SMT, <1>2 DEF LifeInv, LifeTypeOK, Signal, Ended
  <2>2. Built' /\ Trapped'
    BY Zenon, SMT, <1>2 DEF LifeInv, Built, Trapped, Signal, Active
  <2> QED
    BY Zenon, SMT, <2>1, <2>2 DEF LifeInv
<1>3. CASE StartShutdown
  <2>1. LifeTypeOK'
    BY Zenon, SMT, <1>3 DEF LifeInv, LifeTypeOK, StartShutdown, Ended
  <2>2. Built' /\ Trapped'
    BY Zenon, SMT, <1>3 DEF LifeInv, Built, Trapped, StartShutdown, Active, Alive, Ended
  <2> QED
    BY Zenon, SMT, <2>1, <2>2 DEF LifeInv
<1>4. CASE GracePeriod
  <2>1. LifeTypeOK'
    BY Zenon, SMT, <1>4 DEF LifeInv, LifeTypeOK, GracePeriod
  <2>2. Built' /\ Trapped'
    BY Zenon, SMT, <1>4 DEF LifeInv, Built, Trapped, GracePeriod, Active
  <2> QED
    BY Zenon, SMT, <2>1, <2>2 DEF LifeInv
<1>5. CASE CompleteShutdown
  <2>1. LifeTypeOK'
    BY Zenon, SMT, <1>5 DEF LifeInv, LifeTypeOK, CompleteShutdown, Ended
  <2>2. Built' /\ Trapped'
    BY Zenon, SMT, <1>5 DEF LifeInv, Built, Trapped, CompleteShutdown, Active, Alive, Ended
  <2> QED
    BY Zenon, SMT, <2>1, <2>2 DEF LifeInv
<1>6. CASE CloseStopChan
  <2>1. stopChan \in 1..stopChan
    BY <1>6 DEF LifeInv, LifeTypeOK, Built, Trapped, CloseStopChan
  <2>2. LifeTypeOK'
    BY Zenon, SMT, <1>6, <2>1 DEF LifeInv, LifeTypeOK, CloseStopChan
  <2>3. Built' /\ Trapped'
    BY Zenon, SMT, <1>6 DEF LifeInv, Built, Trapped, CloseStopChan, Active
  <2> QED
    BY Zenon, SMT, <2>2, <2>3 DEF LifeInv
<1>7. CASE RunCancel
  <2>1. LifeTypeOK'
    BY Zenon, SMT, <1>7 DEF LifeInv, LifeTypeOK, RunCancel
  <2>2. Built' /\ Trapped'
    BY Zenon, SMT, <1>7 DEF LifeInv, Built, Trapped, RunCancel, Active
  <2> QED
    BY Zenon, SMT, <2>1, <2>2 DEF LifeInv
<1> QED
  BY Zenon, SMT, <1>1, <1>2, <1>3, <1>4, <1>5, <1>6, <1>7 DEF TrapStep

\* Listeners and requests: no request begins at a server that is shut down.
LEMMA TrafficInv ==
    ASSUME LifeInv,
           \/ \E l \in Listeners : ListenerStep(l)
           \/ \E r \in Conns : Arrive(r) \/ Emit(r)
    PROVE  LifeInv'
<1>1. ASSUME NEW l \in Listeners, Select(l) \/ StopListener(l) \/ EventHandled(l)
      PROVE  LifeInv'
  <2>1. LifeTypeOK'
    BY ZenonT(30), SMTT(60), <1>1 DEF LifeInv, LifeTypeOK, Select, StopListener, EventHandled
  <2>2. Built' /\ Trapped'
    BY Zenon, SMT, <1>1 DEF LifeInv, Built, Trapped, Select, StopListener, EventHandled, Active
  <2> QED
    BY Zenon, SMT, <2>1, <2>2 DEF LifeInv
<1>2. ASSUME NEW l \in Listeners, NEW r \in Conns, TakeEvent(l, r)
      PROVE  LifeInv'
  <2>1. LifeTypeOK'
    BY ZenonT(30), SMTT(60), <1>2 DEF LifeInv, LifeTypeOK, TakeEvent
  <2>2. Built' /\ Trapped'
    BY Zenon, SMT, <1>2 DEF LifeInv, LifeTypeOK, Built, Trapped, TakeEvent, Active
  <2> QED
    BY Zenon, SMT, <2>1, <2>2 DEF LifeInv
<1>3. ASSUME NEW r \in Conns, Arrive(r)
      PROVE  LifeInv'
  <2>1. LifeTypeOK'
    BY ZenonT(30), SMTT(60), <1>3 DEF LifeInv, LifeTypeOK, Arrive
  <2>2. Built' /\ Trapped'
    BY Zenon, SMT, <1>3 DEF LifeInv, LifeTypeOK, Built, Trapped, Arrive, Active
  <2> QED
    BY Zenon, SMT, <2>1, <2>2 DEF LifeInv
<1>4. ASSUME NEW r \in Conns, Emit(r)
      PROVE  LifeInv'
  <2>1. LifeTypeOK'
    BY <1>4 DEF LifeInv, LifeTypeOK, Emit
  <2>2. Built' /\ Trapped'
    BY Zenon, SMT, <1>4 DEF LifeInv, LifeTypeOK, Built, Trapped, Emit, Active
  <2> QED
    BY Zenon, SMT, <2>1, <2>2 DEF LifeInv
<1> QED
  BY Zenon, SMT, <1>1, <1>2, <1>3, <1>4 DEF ListenerStep

\* Every step keeps the invariant.
LEMMA LifeStepInv == LifeInv /\ [LifeNext]_lifeVars => LifeInv'
<1> SUFFICES ASSUME LifeInv, [LifeNext]_lifeVars PROVE LifeInv'
  OBVIOUS
<1>1. CASE UNCHANGED lifeVars
  BY <1>1 DEF lifeVars, LifeInv, LifeTypeOK, Built, Trapped, Active
<1> QED
  BY Zenon, SMT, <1>1, MainStepInv, TrapStepInv, TrafficInv DEF LifeNext

\* The shutdown of the uploads service: readiness is withdrawn before the server
\* stops, and main returns when every request is answered (StartShutdown and
\* CompleteShutdown of apps/uploads/uploads.go).
THEOREM LifeSafety == LifeSpec => []LifeSafe
  BY LifeInitInv, LifeStepInv, LifeInvSafe, PTL DEF LifeSpec

-----------------------------------------------------------------------------
(* Upload tokens.                                                          *)

\* Types of what TokensTypeOK leaves open.
TokenUploads ==
    [state : {"none", "admitted", "row"}, by : Token \cup {NoToken},
     owner : TokenUsers \cup {Nobody}, writers : SUBSET TokenUsers]

\* What the tokens, the times and the uploads may be.
TokensTypes ==
    /\ token \in [TokenUsers -> Token \cup {NoToken}]
    /\ authedAt \in [TokenUsers -> Int]
    /\ upload \in [TokenUsers -> TokenUploads]

\* A token with an expiry is its client's, and runs out a lifetime after the API has
\* authenticated that client, or earlier.
IssuedTo(t, u) == t \in Token /\ t.user = u /\ authedAt[u] >= 0 /\ t.exp <= authedAt[u] + Lifetime

\* An upload of client u as it may be.
Fits(u, up) ==
    /\ up.owner \in {u, Nobody} /\ up.writers \subseteq {up.owner}
    /\ up.state # "row" => up.owner = Nobody /\ up.writers = {}
    /\ up.state = "admitted" => IssuedTo(up.by, u)

\* The inductive invariant: the token a client holds and the one its upload came with
\* were issued to it.
TokensInv ==
    /\ TokensTypes /\ TokensTypeOK /\ WrittenByOwner /\ AnswerFitsCredentials
    /\ \A u \in TokenUsers : /\ authedAt[u] <= tokenNow
                             /\ token[u] # NoToken => IssuedTo(token[u], u)
                             /\ upload[u].state = "admitted" => IssuedTo(upload[u].by, u)

\* What a step may do to the tokens and the uploads.
TokensKept ==
    /\ TokensTypes' /\ TokensTypeOK' /\ WrittenByOwner'
    /\ UsedWhileAuthenticated
    /\ \A u \in TokenUsers : /\ authedAt'[u] <= tokenNow'
                             /\ token'[u] # NoToken => IssuedTo(token[u], u)'
                             /\ upload'[u].state = "admitted" => IssuedTo(upload[u].by, u)'

\* No token is nobody's.
LEMMA NoTokenIsNone ==
    /\ NoToken \notin Token
    /\ NoTokenUpload \in TokenUploads
BY TokensAssumption DEF NoToken, Token, NoTokenUpload, TokenUploads

\* A service that starts has the invariant.
LEMMA TokensInitInv == TokensInit => TokensInv
<1> SUFFICES ASSUME TokensInit PROVE TokensInv
  OBVIOUS
<1>1. TokensTypes
  <2>1. -1 \in Int
    OBVIOUS
  <2> QED
    BY <2>1, NoTokenIsNone DEF TokensInit, TokensTypes
<1>2. TokensTypeOK
  <2>1. 0 \in 0..TokenTime
    BY TokensAssumption
  <2> QED
    BY Zenon, <2>1 DEF TokensInit, TokensTypeOK, NoTokenUpload
<1>3. WrittenByOwner
  BY Zenon DEF TokensInit, WrittenByOwner, NoTokenUpload
<1>4. AnswerFitsCredentials
  BY DEF TokensInit, AnswerFitsCredentials
<1>5. \A u \in TokenUsers : /\ authedAt[u] <= tokenNow
                            /\ token[u] = NoToken /\ upload[u].state # "admitted"
  <2>1. -1 <= 0
    OBVIOUS
  <2> QED
    BY Zenon, <2>1 DEF TokensInit, NoTokenUpload
<1> QED
  BY Zenon, <1>1, <1>2, <1>3, <1>4, <1>5 DEF TokensInv

\* Every answer of the API fits the credentials it is for.
LEMMA AnswerStep ==
    ASSUME TokensInv, TokensNext
    PROVE  AnswerFitsCredentials'
<1> DEFINE Suits(c, k) == \/ k = "rpc_error"
                          \/ k \in {"upload_token_created", "query_created"} /\ LegacyMiddleware(c).user
                          \/ k = "auth_error" /\ LegacyMiddleware(c).err
                          \/ k = "panic" /\ ~LegacyMiddleware(c).err /\ ~LegacyMiddleware(c).user
                          \/ k = "notified" /\ FromRequest(c).user
                          \/ k = "unauthorized" /\ FromRequest(c).err
<1>1. ASSUME NEW c \in Credentials, NEW k, NEW given, TokenAnswer(c, k, given), Suits(c, k)
      PROVE  AnswerFitsCredentials'
  <2>1. c \in [oauth : {"none", "good", "bad"}, legacy : {"none", "good", "unverified", "bad"}]
    BY TokensAssumption
  <2>2. tokenAnswer'.kind = k /\ tokenAnswer'.cred = c
    BY <1>1 DEF TokenAnswer
  <2> QED
    BY Zenon, <1>1, <2>1, <2>2 DEF AnswerFitsCredentials, LegacyMiddleware, Middleware, FromRequest
<1>2. ASSUME UNCHANGED tokenAnswer PROVE AnswerFitsCredentials'
  BY <1>2 DEF TokensInv, AnswerFitsCredentials
<1>3. ASSUME NEW u \in TokenUsers, NEW c \in Credentials, TokenCreate(u, c) PROVE AnswerFitsCredentials'
  <2>1. \E k, given : TokenAnswer(c, k, given) /\ Suits(c, k)
    BY <1>3 DEF TokenCreate
  <2> QED
    BY Zenon, <1>1, <2>1
<1>4. ASSUME NEW c \in Credentials, CreateQuery(c) \/ TokenNotify(c) PROVE AnswerFitsCredentials'
  <2>1. \E k, given : TokenAnswer(c, k, given) /\ Suits(c, k)
    <3>1. CASE CreateQuery(c)
      BY <3>1 DEF CreateQuery
    <3>2. CASE TokenNotify(c)
      BY <3>2 DEF TokenNotify
    <3> QED
      BY Zenon, <1>4, <3>1, <3>2
  <2> QED
    BY Zenon, <1>1, <2>1
<1>5. CASE UNCHANGED tokenAnswer
  BY Zenon, <1>2, <1>5
<1> QED
  BY Zenon, <1>3, <1>4, <1>5 DEF TokensNext, KeyfobFromString, PublicKeyFromURL, Stop, TokenTick, TokenPost, listenCreated, TokenPatch

\* The steps that touch neither tokens nor uploads; the clock does not go back.
LEMMA IdleKeeps ==
    ASSUME TokensInv, UNCHANGED <<token, authedAt, upload>>, tokenNow' \in 0..TokenTime, tokenNow' >= tokenNow,
           apiKey' \in SignKeys, svcKey' \in SignKeys \cup {NoKey}
    PROVE  TokensKept
<1>1. TokensTypes' /\ TokensTypeOK' /\ WrittenByOwner' /\ UsedWhileAuthenticated
  BY Zenon DEF TokensInv, TokensTypes, TokensTypeOK, WrittenByOwner, UsedWhileAuthenticated
<1>2. \A u \in TokenUsers : authedAt[u] \in Int /\ authedAt[u] <= tokenNow
  BY Zenon DEF TokensInv, TokensTypes
<1>3. tokenNow \in Int /\ tokenNow' \in Int
  BY DEF TokensInv, TokensTypeOK
<1>4. \A u \in TokenUsers : authedAt'[u] <= tokenNow'
  BY <1>2, <1>3
<1> QED
  BY Zenon, <1>1, <1>4 DEF TokensInv, TokensKept, IssuedTo

\* A client that the API has authenticated holds a token that lasts a lifetime.
LEMMA CreateKeeps ==
    ASSUME TokensInv, NEW u \in TokenUsers, NEW c \in Credentials, TokenCreate(u, c)
    PROVE  TokensKept
<1>0. UNCHANGED <<tokenNow, apiKey, svcKey, upload>>
  BY Zenon DEF TokenCreate
<1>1. CASE UNCHANGED <<token, authedAt>>
  <2>1. tokenNow \in 0..TokenTime /\ apiKey \in SignKeys /\ svcKey \in SignKeys \cup {NoKey}
    BY Zenon DEF TokensInv, TokensTypeOK
  <2>2. tokenNow >= tokenNow
    BY <2>1
  <2>3. tokenNow' >= tokenNow
    BY Zenon, <1>0, <2>2
  <2> QED
    BY Zenon, <1>0, <1>1, <2>1, <2>3, IdleKeeps
<1>2. CASE /\ token' = [token EXCEPT ![u] = GenerateToken(u)]
           /\ authedAt' = [authedAt EXCEPT ![u] = tokenNow]
  <2>0. tokenNow \in 0..TokenTime /\ apiKey \in SignKeys /\ TokenTime \in Nat /\ Lifetime \in Nat
    BY Zenon, TokensAssumption DEF TokensInv, TokensTypeOK
  <2>1. tokenNow \in Nat /\ tokenNow <= TokenTime
    BY <2>0
  <2>2. tokenNow + Lifetime \in Lifetime..(TokenTime + Lifetime)
    BY <2>0, <2>1
  <2>3. GenerateToken(u) \in Token /\ GenerateToken(u).user = u /\ GenerateToken(u).exp = tokenNow + Lifetime
    BY <2>0, <2>2 DEF GenerateToken, Token
  <2>4. /\ token'[u] = GenerateToken(u) /\ authedAt'[u] = tokenNow
        /\ \A v \in TokenUsers : v # u => token'[v] = token[v] /\ authedAt'[v] = authedAt[v]
    BY <1>2 DEF TokensInv, TokensTypes
  <2>5. TokensTypes'
    BY <1>0, <1>2, <2>1, <2>3 DEF TokensInv, TokensTypes
  <2>6. TokensTypeOK'
    BY Zenon, <1>0, <2>3, <2>4 DEF TokensInv, TokensTypeOK
  <2>7. WrittenByOwner' /\ UsedWhileAuthenticated
    BY Zenon, <1>0 DEF TokensInv, WrittenByOwner, UsedWhileAuthenticated
  <2>8. \A v \in TokenUsers : authedAt[v] \in Int /\ authedAt[v] <= authedAt'[v] /\ authedAt'[v] <= tokenNow' /\ authedAt'[v] \in Int
    BY <1>0, <2>1, <2>4 DEF TokensInv, TokensTypes
  <2>9. ASSUME NEW v \in TokenUsers, NEW t, IssuedTo(t, v) PROVE IssuedTo(t, v)'
    BY <2>0, <2>8, <2>9 DEF IssuedTo, Token
  <2>10. IssuedTo(token[u], u)'
    BY <2>0, <2>1, <2>3, <2>4 DEF IssuedTo
  <2> QED
    BY Zenon, <1>0, <2>4, <2>5, <2>6, <2>7, <2>8, <2>9, <2>10 DEF TokensInv, TokensKept, IssuedTo
<1> QED
  BY Zenon, <1>1, <1>2 DEF TokenCreate

\* The uploads of a state with the invariant are as they may be.
LEMMA UploadsFit ==
    ASSUME TokensInv, NEW u \in TokenUsers
    PROVE  upload[u] \in TokenUploads /\ Fits(u, upload[u])
BY Zenon DEF TokensInv, TokensTypes, TokensTypeOK, WrittenByOwner, Fits

\* The steps of the uploads service: only upload changes, client by client.
LEMMA UploadKeeps ==
    ASSUME TokensInv, UNCHANGED <<tokenNow, apiKey, token, authedAt>>, svcKey' \in SignKeys \cup {NoKey},
           upload' \in [TokenUsers -> TokenUploads],
           \A u \in TokenUsers :
              /\ Fits(u, upload'[u])
              /\ upload'[u].owner # Nobody /\ upload'[u].owner # upload[u].owner => FreshToken(u)
              /\ upload'[u].writers \ upload[u].writers # {} => FreshToken(u)
    PROVE  TokensKept
<1>1. TokensTypes'
  BY Zenon DEF TokensInv, TokensTypes
<1>2. TokensTypeOK'
  <2>1. \A u \in TokenUsers : upload'[u].state \in {"none", "admitted", "row"}
    BY DEF TokenUploads
  <2> QED
    BY Zenon, <2>1 DEF TokensInv, TokensTypeOK, Fits
<1>3. WrittenByOwner'
  BY Zenon DEF WrittenByOwner, Fits
<1>4. UsedWhileAuthenticated
  <2> SUFFICES ASSUME NEW u \in TokenUsers, NEW w \in TokenUsers
               PROVE  /\ upload'[u].owner = w /\ upload[u].owner # w => FreshToken(w)
                      /\ w \in upload'[u].writers \ upload[u].writers => FreshToken(w)
    BY Zenon DEF UsedWhileAuthenticated
  <2>1. w # Nobody
    BY Zenon, TokensAssumption
  <2>2. upload'[u].owner = w => w = u
    BY Zenon, <2>1 DEF Fits
  <2>3. w \in upload'[u].writers => w = u
    <3>1. upload'[u].writers \subseteq {upload'[u].owner}
      BY Zenon DEF Fits
    <3> QED
      BY Zenon, <2>2, <3>1
  <2>4. upload'[u].owner = w /\ upload[u].owner # w => FreshToken(w)
    BY Zenon, <2>1, <2>2
  <2>5. w \in upload'[u].writers \ upload[u].writers => FreshToken(w)
    BY Zenon, <2>3
  <2> QED
    BY <2>4, <2>5
<1>5. \A u \in TokenUsers : /\ authedAt'[u] <= tokenNow'
                            /\ token'[u] # NoToken => IssuedTo(token[u], u)'
                            /\ upload'[u].state = "admitted" => IssuedTo(upload[u].by, u)'
  BY Zenon DEF TokensInv, IssuedTo, Fits
<1> QED
  BY Zenon, <1>1, <1>2, <1>3, <1>4, <1>5 DEF TokensKept

\* A token that is accepted was issued within its lifetime.
LEMMA AcceptedIsFresh ==
    ASSUME TokensInv, NEW u \in TokenUsers, NEW t, IssuedTo(t, u), ParseToken(t)
    PROVE  FreshToken(u)
<1>1. authedAt[u] \in Int /\ tokenNow \in Int /\ t.exp \in Int /\ Lifetime \in Int
  BY TokensAssumption DEF TokensInv, TokensTypes, TokensTypeOK, IssuedTo, Token
<1> QED
  BY <1>1 DEF IssuedTo, ParseToken, FreshToken

\* The uploads that a restart, a POST, an event and a PATCH leave.
LEMMA StopKeeps == ASSUME TokensInv, Stop PROVE TokensKept
<1>1. upload' = [u \in TokenUsers |-> IF upload[u].state = "admitted" THEN NoTokenUpload ELSE upload[u]]
  BY Zenon DEF Stop
<1>2. \A u \in TokenUsers : upload'[u] = NoTokenUpload \/ upload'[u] = upload[u]
  BY Zenon, <1>1
<1>3. NoTokenUpload.owner = Nobody /\ NoTokenUpload.writers = {} /\ NoTokenUpload.state = "none"
  BY DEF NoTokenUpload
<1>4. upload' \in [TokenUsers -> TokenUploads]
  BY Zenon, <1>1, NoTokenIsNone DEF TokensInv, TokensTypes
<1>5. ASSUME NEW u \in TokenUsers
      PROVE  /\ Fits(u, upload'[u])
             /\ upload'[u].owner = Nobody \/ upload'[u].owner = upload[u].owner
             /\ upload'[u].writers \ upload[u].writers = {}
  <2>1. CASE upload'[u] = NoTokenUpload
    BY Zenon, <1>3, <2>1 DEF Fits
  <2>2. CASE upload'[u] = upload[u]
    BY Zenon, <2>2, UploadsFit
  <2> QED
    BY Zenon, <1>2, <2>1, <2>2
<1> QED
  BY Zenon, <1>4, <1>5, UploadKeeps DEF Stop

\* One upload changes.
LEMMA OneKeeps ==
    ASSUME TokensInv, UNCHANGED <<tokenNow, apiKey, svcKey, token, authedAt>>, NEW u \in TokenUsers,
           NEW up \in TokenUploads, Fits(u, up), upload' = [upload EXCEPT ![u] = up],
           up.owner # Nobody /\ up.owner # upload[u].owner => FreshToken(u),
           up.writers \ upload[u].writers # {} => FreshToken(u)
    PROVE  TokensKept
<1>1. upload'[u] = up /\ \A v \in TokenUsers : v # u => upload'[v] = upload[v]
  BY Zenon DEF TokensInv, TokensTypes
<1>2. upload' \in [TokenUsers -> TokenUploads]
  BY Zenon DEF TokensInv, TokensTypes
<1>3. ASSUME NEW v \in TokenUsers
      PROVE  /\ Fits(v, upload'[v])
             /\ upload'[v].owner # Nobody /\ upload'[v].owner # upload[v].owner => FreshToken(v)
             /\ upload'[v].writers \ upload[v].writers # {} => FreshToken(v)
  <2>1. CASE v = u
    BY Zenon, <1>1, <2>1
  <2>2. CASE v # u
    BY Zenon, <1>1, <2>2, UploadsFit
  <2> QED
    BY Zenon, <2>1, <2>2
<1>4. svcKey' \in SignKeys \cup {NoKey}
  BY Zenon DEF TokensInv, TokensTypeOK
<1> QED
  BY Zenon, <1>2, <1>3, <1>4, UploadKeeps

\* A POST is admitted with the token its client holds.
LEMMA PostKeeps == ASSUME TokensInv, NEW u \in TokenUsers, TokenPost(u) PROVE TokensKept
<1> DEFINE up == [NoTokenUpload EXCEPT !.state = "admitted", !.by = token[u]]
<1>1. /\ up.state = "admitted" /\ up.by = token[u] /\ up.owner = Nobody /\ up.writers = {}
      /\ up \in TokenUploads
  <2>1. token[u] \in Token \cup {NoToken}
    BY Zenon DEF TokensInv, TokensTypes
  <2> QED
    BY Zenon, <2>1 DEF NoTokenUpload, TokenUploads
<1>2. IssuedTo(token[u], u)
  BY Zenon DEF TokensInv, TokenPost, authByToken
<1>3. upload' = [upload EXCEPT ![u] = up]
  BY Zenon DEF TokenPost
<1> HIDE DEF up
<1>4. Fits(u, up)
  BY Zenon, <1>1, <1>2 DEF Fits
<1>5. up.owner = Nobody /\ up.writers \ upload[u].writers = {}
  BY Zenon, <1>1
<1> QED
  BY Zenon, <1>1, <1>3, <1>4, <1>5, OneKeeps DEF TokenPost

\* The row of an upload is its client's, or there is none.
LEMMA ListenKeeps == ASSUME TokensInv, NEW u \in TokenUsers, listenCreated(u) PROVE TokensKept
<1> DEFINE holder == extractUserID(upload[u].by)
           up == [upload[u] EXCEPT !.state = "row", !.owner = holder]
<1>0. upload[u] \in TokenUploads /\ upload[u].state = "admitted" /\ Fits(u, upload[u])
  BY Zenon, UploadsFit DEF listenCreated
<1>1. IssuedTo(upload[u].by, u) /\ upload[u].writers = {}
  BY Zenon, <1>0 DEF Fits
<1>2. holder \in {u, Nobody} /\ (holder # Nobody => FreshToken(u))
  BY Zenon, <1>1, AcceptedIsFresh DEF extractUserID, IssuedTo
<1>3. upload' = [upload EXCEPT ![u] = up]
  BY Zenon DEF listenCreated, TokensInv, TokensTypes
<1> HIDE DEF holder
<1>4. /\ up.state = "row" /\ up.owner = holder /\ up.writers = {}
      /\ up \in TokenUploads
  BY Zenon, <1>0, <1>1, <1>2 DEF TokenUploads
<1> HIDE DEF up
<1>5. Fits(u, up)
  BY Zenon, <1>2, <1>4 DEF Fits
<1>6. (up.owner # Nobody => FreshToken(u)) /\ up.writers \ upload[u].writers = {}
  BY Zenon, <1>2, <1>4
<1> QED
  BY Zenon, <1>3, <1>4, <1>5, <1>6, OneKeeps DEF listenCreated

\* Only the owner of the row gets to write.
LEMMA PatchKeeps ==
    ASSUME TokensInv, NEW w \in TokenUsers, NEW u \in TokenUsers, TokenPatch(w, u)
    PROVE  TokensKept
<1> DEFINE up == [upload[u] EXCEPT !.writers = @ \cup {w}]
<1>0. upload[u] \in TokenUploads /\ upload[u].state = "row" /\ upload[u].owner = w /\ Fits(u, upload[u])
  BY Zenon, UploadsFit DEF TokenPatch, TokenAccess
<1>1. w = u
  BY Zenon, <1>0, TokensAssumption DEF Fits
<1>2. FreshToken(u)
  BY Zenon, <1>1, AcceptedIsFresh DEF TokenPatch, authByToken, TokensInv
<1>3. upload' = [upload EXCEPT ![u] = up]
  BY DEF TokenPatch, TokensInv, TokensTypes
<1>4. /\ up.state = "row" /\ up.owner = u /\ up.writers = upload[u].writers \cup {u}
      /\ up \in TokenUploads
  BY <1>0, <1>1 DEF TokenUploads
<1> HIDE DEF up
<1>5. Fits(u, up)
  BY Zenon, <1>0, <1>1, <1>4 DEF Fits
<1> QED
  BY Zenon, <1>2, <1>3, <1>4, <1>5, OneKeeps DEF TokenPatch

\* Every step keeps the invariant, and uses tokens only while they last.
LEMMA TokensStep ==
    ASSUME TokensInv, [TokensNext]_tokensVars
    PROVE  TokensInv' /\ UsedWhileAuthenticated
<1>1. tokenNow \in 0..TokenTime /\ tokenNow >= tokenNow /\ tokenNow \in Int
  BY DEF TokensInv, TokensTypeOK
<1>2. apiKey \in SignKeys /\ svcKey \in SignKeys \cup {NoKey}
  BY Zenon DEF TokensInv, TokensTypeOK
<1>3. CASE TokensNext
  <2>1. AnswerFitsCredentials'
    BY Zenon, <1>3, AnswerStep
  <2>2. ASSUME NEW c \in Credentials, CreateQuery(c) \/ TokenNotify(c) PROVE TokensKept
    BY Zenon, <1>1, <1>2, <2>2, IdleKeeps DEF CreateQuery, TokenNotify
  <2>3. ASSUME NEW k \in SignKeys, KeyfobFromString(k) PROVE TokensKept
    BY Zenon, <1>1, <1>2, <2>3, IdleKeeps DEF KeyfobFromString
  <2>4. ASSUME PublicKeyFromURL PROVE TokensKept
    BY Zenon, <1>1, <1>2, <2>4, IdleKeeps DEF PublicKeyFromURL
  <2>5. ASSUME TokenTick PROVE TokensKept
    <3>1. tokenNow' \in 0..TokenTime /\ tokenNow' >= tokenNow
      BY <1>1, <2>5, TokensAssumption DEF TokenTick
    <3> QED
      BY Zenon, <1>2, <2>5, <3>1, IdleKeeps DEF TokenTick
  <2> QED
    BY Zenon, <1>3, <2>1, <2>2, <2>3, <2>4, <2>5, CreateKeeps, StopKeeps, PostKeeps, ListenKeeps, PatchKeeps
       DEF TokensNext, TokensKept, TokensInv
<1>4. CASE UNCHANGED tokensVars
  <2>1. TokensKept
    BY Zenon, <1>1, <1>2, <1>4, IdleKeeps DEF tokensVars
  <2>2. AnswerFitsCredentials'
    BY Zenon, <1>4 DEF TokensInv, AnswerFitsCredentials, tokensVars
  <2> QED
    BY Zenon, <2>1, <2>2 DEF TokensKept, TokensInv
<1> QED
  BY <1>3, <1>4

\* An upload is recorded and written to only in the name of a client that the API
\* authenticated within the lifetime of a token, and answers fit the credentials
\* (CreateUpload, authByToken, extractUserID, verifyUploadFileAccess).
THEOREM TokensSafety == TokensSpec => TokensSafe
<1>1. TokensInit => TokensInv
  BY TokensInitInv
<1>2. TokensInv /\ [TokensNext]_tokensVars => TokensInv' /\ UsedWhileAuthenticated
  BY TokensStep
<1>3. TokensInv => TokensTypeOK /\ WrittenByOwner /\ AnswerFitsCredentials
  BY Zenon DEF TokensInv
<1> QED
  BY <1>1, <1>2, <1>3, PTL DEF TokensSpec, TokensSafe
=============================================================================
