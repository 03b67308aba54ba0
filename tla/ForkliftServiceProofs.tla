------------------------ MODULE ForkliftServiceProofs ------------------------
(***************************************************************************)
(* Proofs about the forklift service around its handlers: the files of an  *)
(* upload (ForkFiles), uploads by URL (UrlUploads) and the analyzer        *)
(* (FileAnalyzer); and about watchman (Watchman), a service of the same    *)
(* make, with a channel and one writer in the place of a queue and its     *)
(* workers.  Each section has the inductive invariant of one module, a     *)
(* lemma for each group of its steps, and the theorem that the module's    *)
(* safety invariant holds in every reachable state, whatever the constants *)
(* are.                                                                    *)
(***************************************************************************)
EXTENDS ForkFiles, UrlUploads, FileAnalyzer, Watchman, TLAPS

-----------------------------------------------------------------------------
\* ForkFiles: the files of an upload on their way to the storage.

\* The download and blob directories are empty, and no handler has crashed.
Neat == download = NoDownload /\ dir = {}
NoCrash == \A b \in Attempts : stage[b] # "crashed"

\* Attempts begin in their order, and one that runs is the last that has begun.
Turn ==
    \A a, b \in Attempts :
        a < b /\ (stage[a] = "idle" \/ stage[a] \notin Ended) => stage[b] = "idle"

\* What is where when an attempt has got somewhere.
At(a) ==
    /\ stage[a] \in {"idle", "create"} =>
          /\ got[a] = {} /\ content[a] = {} /\ download # a
          /\ \A b \in Attempts : open[b] # a
    /\ stage[a] \in {"idle", "create", "retrieve", "analyze", "split"} => encoded[a] = {}
    /\ stage[a] = "retrieve" => /\ download \in Attempts /\ open[a] = download
                                /\ content[download] = got[a]
    /\ stage[a] \in {"analyze", "split"} => download \in Attempts /\ content[download] = Chunks
    /\ stage[a] = "encode" => /\ open[a] \in Attempts /\ content[open[a]] = Chunks
                              /\ {a} \X encoded[a] \subseteq dir
    /\ stage[a] = "stat" => encoded[a] = Chunks /\ BlobsOf(a) \subseteq dir
    /\ stage[a] = "upload" => encoded[a] = Chunks /\ BlobsOf(a) \subseteq list[a] \cup stored
    /\ stage[a] \in {"send", "delete"} => encoded[a] = Chunks /\ BlobsOf(a) \subseteq stored
    /\ stage[a] \in {"send", "delete"} => list[a] = {}
    /\ stage[a] = "remove" => dir = {}

\* An announcement is made by a handler that has stored its whole stream.
Sent(a) ==
    a \in sentBy =>
        /\ encoded[a] = Chunks /\ BlobsOf(a) \subseteq stored
        /\ stage[a] \in {"delete", "clean", "remove", "returned", "crashed"}

\* Without a crash every attempt finds the directories empty, and leaves them so.
Found(a) ==
    NoCrash =>
        /\ stage[a] = "create" => Neat
        /\ stage[a] \in {"retrieve", "analyze", "split"} => dir = {}
\* When no handler runs, and none has crashed, nothing is left behind.
Rest == NoCrash /\ (\A b \in Attempts : stage[b] \in Ended) => Neat

\* The inductive invariant: NothingLeft and DeletedIsStored follow from where the
\* attempts are.
FilesInv ==
    /\ FilesTypeOK /\ Turn
    /\ \A a \in Attempts : At(a) /\ Sent(a) /\ Found(a)
    /\ Rest /\ NothingLeft /\ DeletedIsStored

\* The invariant says all that is promised.
LEMMA FilesInvSafe == FilesInv => FilesSafe
<1> SUFFICES ASSUME FilesInv PROVE FilesSafe
  OBVIOUS
<1>1. AnnouncedIsWhole
  BY Zenon, SMT DEF FilesInv, FilesTypeOK, Sent, AnnouncedIsWhole
<1> QED
  BY Zenon, SMT, <1>1 DEF FilesInv, FilesSafe

\* At first there is nothing.
LEMMA FilesInitInv == FilesInit => FilesInv
<1> SUFFICES ASSUME FilesInit PROVE FilesInv
  OBVIOUS
<1>1. FilesTypeOK
  BY Zenon, SMT DEF FilesInit, FilesTypeOK
<1>2. Turn /\ Rest /\ NothingLeft /\ DeletedIsStored
  BY Zenon, SMT DEF FilesInit, Turn, Rest, Neat, NothingLeft, DeletedIsStored
<1>3. \A a \in Attempts : At(a) /\ Sent(a) /\ Found(a)
  BY Zenon, SMT, ForkFilesAssumption DEF FilesInit, At, Sent, Found
<1> QED
  BY Zenon, SMT, <1>1, <1>2, <1>3 DEF FilesInv

\* While an attempt runs, the others have ended or not begun.
LEMMA OthersStand ==
    ASSUME FilesInv, NEW a \in Attempts, stage[a] \notin Ended, NEW b \in Attempts, b # a
    PROVE  /\ stage[b] \in Ended
           /\ b < a => stage[b] # "idle"
           /\ a < b => stage[b] = "idle"
           /\ a < b \/ b < a
<1>1. a \in Nat /\ b \in Nat
  BY Zenon, SMT, ForkFilesAssumption
<1>2. a < b \/ b < a
  BY <1>1
<1>3. a < b => stage[b] = "idle"
  BY Zenon, SMT DEF FilesInv, Turn
<1>4. b < a => stage[b] \in Ended /\ stage[b] # "idle"
  BY Zenon, SMT DEF FilesInv, Turn, Ended
<1> QED
  BY Zenon, SMT, <1>2, <1>3, <1>4 DEF Ended

\* What a step of a handler does to the state of the others.
Beside(a, b) ==
    /\ encoded'[b] = encoded[b] /\ got'[b] = got[b] /\ open'[b] = open[b]
    /\ stage[b] = "idle" => content'[b] = content[b] /\ download' # b /\ open'[a] # b

\* A step of a running handler that goes on to l.
Step(a, l) ==
    /\ stage[a] \notin Ended /\ l # "idle" /\ l # "crashed" /\ Proceed(a, l)
    /\ FilesTypeOK'
    /\ \A b \in Attempts \ {a} : Beside(a, b)
    /\ encoded[a] = Chunks => encoded'[a] = Chunks
    /\ stored \subseteq stored' /\ sentBy' \subseteq sentBy \cup {a}
    /\ ~source' => ~source \/ (encoded'[a] = Chunks /\ BlobsOf(a)' \subseteq stored')
    /\ At(a)' /\ Sent(a)'
    /\ NoCrash => /\ l \in {"create", "returned"} => Neat'
                  /\ l \in {"retrieve", "analyze", "split"} => dir' = {}
    /\ l = "returned" /\ a \in sentBy' => Neat'

\* A step of one attempt keeps the invariant for all of them.
LEMMA StepInv ==
    ASSUME FilesInv, NEW a \in Attempts, NEW l, Step(a, l)
    PROVE  FilesInv'
<1>0. /\ stage[a] \notin Ended /\ l # "idle" /\ l # "crashed"
      /\ stage' = [stage EXCEPT ![a] = l]
  BY Zenon, SMT DEF Step, Proceed
<1>1. stage'[a] = l /\ \A b \in Attempts : b # a => stage'[b] = stage[b]
  BY Zenon, SMT, <1>0 DEF FilesInv, FilesTypeOK
<1>2. \A b \in Attempts : b # a => /\ stage[b] \in Ended
                                   /\ b < a => stage[b] # "idle"
                                   /\ a < b => stage[b] = "idle"
                                   /\ a < b \/ b < a
  BY Zenon, SMT, <1>0, OthersStand
<1>3. NoCrash' <=> NoCrash
  BY Zenon, SMT, <1>0, <1>1 DEF NoCrash, Ended
<1>4. Turn'
  <2> SUFFICES ASSUME NEW c \in Attempts, NEW d \in Attempts,
                      c < d, stage'[c] = "idle" \/ stage'[c] \notin Ended
               PROVE  stage'[d] = "idle"
    BY Zenon, SMT DEF Turn, Ended
  <2>1. CASE c = a
    <3>1. d # a
      BY <2>1, ForkFilesAssumption
    <3> QED
      BY Zenon, SMT, <1>1, <1>2, <2>1, <3>1
  <2>2. CASE c # a
    <3>1. stage[c] = "idle" /\ a < c
      BY Zenon, SMT, <1>1, <1>2, <2>2
    <3>2. a < d /\ d # a
      BY <3>1, ForkFilesAssumption
    <3> QED
      BY Zenon, SMT, <1>1, <1>2, <3>2
  <2> QED
    BY Zenon, SMT, <2>1, <2>2
<1>5. ASSUME NEW b \in Attempts PROVE At(b)' /\ Sent(b)' /\ Found(b)'
  <2>1. CASE b = a
    BY Zenon, SMT, <1>1, <1>3, <2>1 DEF Step, Found
  <2>2. CASE b # a
    <3>1. stage'[b] = stage[b] /\ stage[b] \in Ended /\ Beside(a, b) /\ At(b) /\ Sent(b)
      BY Zenon, SMT, <1>1, <1>2, <2>2 DEF Step, FilesInv
    <3>2. stage[b] = "idle" => \A c \in Attempts : open'[c] # b
      <4> SUFFICES ASSUME NEW c \in Attempts, stage[b] = "idle" PROVE open'[c] # b
        OBVIOUS
      <4>1. CASE c = a
        BY Zenon, SMT, <3>1, <4>1 DEF Beside
      <4>2. CASE c # a
        BY Zenon, SMT, <3>1, <4>2 DEF Step, Beside, At
      <4> QED
        BY Zenon, SMT, <4>1, <4>2
    <3>3. At(b)'
      BY Zenon, SMT, <3>1, <3>2 DEF At, Beside, Ended
    <3>4. Sent(b)'
      <4>1. b \in sentBy' => b \in sentBy
        BY Zenon, SMT, <2>2 DEF Step
      <4>2. BlobsOf(b)' = BlobsOf(b) /\ stored \subseteq stored'
        BY Zenon, SMT, <3>1 DEF Step, Beside, BlobsOf
      <4> QED
        BY Zenon, SMT, <3>1, <4>1, <4>2 DEF Sent, Beside
    <3>5. Found(b)'
      BY Zenon, SMT, <3>1 DEF Found, Ended
    <3> QED
      BY Zenon, SMT, <3>3, <3>4, <3>5
  <2> QED
    BY Zenon, SMT, <2>1, <2>2
<1>6. Rest'
  <2> SUFFICES ASSUME NoCrash', \A b \in Attempts : stage'[b] \in Ended
               PROVE  Neat'
    BY Zenon, SMT DEF Rest, Ended
  <2>1. l = "returned"
    BY Zenon, SMT, <1>0, <1>1 DEF Ended
  <2> QED
    BY Zenon, SMT, <1>3, <2>1 DEF Step
<1>7. NothingLeft'
  <2> SUFFICES ASSUME NEW b \in Attempts, stage'[b] = "returned",
                      \A c \in Attempts : c > b => stage'[c] = "idle",
                      b \in sentBy' \/ NoCrash'
               PROVE  Neat'
    BY Zenon, SMT DEF NothingLeft, Neat, NoCrash
  <2>1. b = a
    <3> SUFFICES ASSUME b # a PROVE FALSE
      OBVIOUS
    <3>1. b < a
      BY Zenon, SMT, <1>1, <1>2
    <3>2. a > b
      BY Zenon, SMT, <3>1, ForkFilesAssumption
    <3> QED
      BY Zenon, SMT, <1>0, <1>1, <3>2
  <2> QED
    BY Zenon, SMT, <1>1, <1>3, <2>1 DEF Step
<1>8. DeletedIsStored'
  <2> SUFFICES ASSUME ~source'
               PROVE  \E b \in Attempts : encoded'[b] = Chunks /\ BlobsOf(b)' \subseteq stored'
    BY Zenon, SMT DEF DeletedIsStored, BlobsOf
  <2>1. CASE ~source
    <3>1. PICK b \in Attempts : encoded[b] = Chunks /\ BlobsOf(b) \subseteq stored
      BY Zenon, SMT, <2>1 DEF FilesInv, DeletedIsStored
    <3>2. encoded'[b] = Chunks
      <4>1. CASE b = a
        BY Zenon, SMT, <3>1, <4>1 DEF Step
      <4>2. CASE b # a
        BY Zenon, SMT, <3>1, <4>2 DEF Step, Beside
      <4> QED
        BY Zenon, SMT, <4>1, <4>2
    <3>3. BlobsOf(b)' = BlobsOf(b) /\ stored \subseteq stored'
      BY Zenon, SMT, <3>1, <3>2 DEF BlobsOf, Step
    <3> QED
      BY Zenon, SMT, <3>1, <3>2, <3>3
  <2>2. CASE source
    BY Zenon, SMT, <2>2 DEF Step
  <2> QED
    BY Zenon, SMT, <2>1, <2>2
<1>9. FilesTypeOK'
  BY Zenon, SMT DEF Step
<1> QED
  BY Zenon, SMT, <1>4, <1>5, <1>6, <1>7, <1>8, <1>9 DEF FilesInv

-----------------------------------------------------------------------------

\* A handler begins when no other runs (asynq gives a task to one at a time).
LEMMA BeginInv ==
    ASSUME FilesInv, ~Overlap, NEW a \in Attempts, Begin(a)
    PROVE  FilesInv'
<1>0. /\ stage[a] = "idle" /\ stage' = [stage EXCEPT ![a] = "create"]
      /\ \A b \in Attempts : stage[b] \in Ended
      /\ \A b \in Attempts : b < a => stage[b] # "idle"
      /\ UNCHANGED <<kind, source, download, open, got, content, encoded, dir, list, stored, sentBy>>
  BY Zenon, SMT DEF Begin, Proceed
<1>1. stage'[a] = "create" /\ \A b \in Attempts : b # a => stage'[b] = stage[b]
  BY Zenon, SMT, <1>0 DEF FilesInv, FilesTypeOK
<1>2. FilesTypeOK'
  BY Zenon, SMT, <1>0 DEF FilesInv, FilesTypeOK
<1>3. Turn'
  <2> SUFFICES ASSUME NEW c \in Attempts, NEW d \in Attempts,
                      c < d, stage'[c] = "idle" \/ stage'[c] \notin Ended
               PROVE  stage'[d] = "idle"
    BY Zenon, SMT DEF Turn, Ended
  <2>1. stage[c] = "idle"
    BY Zenon, SMT, <1>0, <1>1
  <2>2. stage[d] = "idle"
    BY Zenon, SMT, <2>1 DEF FilesInv, Turn
  <2>3. d # a
    BY Zenon, SMT, <1>0, <1>1, <2>1, ForkFilesAssumption DEF Ended
  <2> QED
    BY Zenon, SMT, <1>1, <2>2, <2>3
<1>4. NoCrash' => NoCrash
  BY Zenon, SMT, <1>0, <1>1 DEF NoCrash
<1>5. NoCrash => Neat
  BY Zenon, SMT, <1>0 DEF FilesInv, Rest
<1>6. Neat' <=> Neat
  BY Zenon, SMT, <1>0 DEF Neat
<1>7. ASSUME NEW b \in Attempts PROVE At(b)' /\ Sent(b)' /\ Found(b)'
  <2>1. At(b) /\ Sent(b) /\ (b # a => stage'[b] \in Ended)
    BY Zenon, SMT, <1>0, <1>1 DEF FilesInv
  <2>2. CASE b = a
    <3>1. At(a)'
      BY Zenon, SMT, <1>0, <1>1, <2>1, <2>2 DEF At
    <3>2. Sent(a)'
      BY Zenon, SMT, <1>0, <2>1, <2>2 DEF Sent
    <3>3. Found(a)'
      BY Zenon, SMT, <1>1, <1>4, <1>5, <1>6 DEF Found
    <3> QED
      BY Zenon, SMT, <2>2, <3>1, <3>2, <3>3
  <2>3. CASE b # a
    <3>1. At(b)'
      BY Zenon, SMT, <1>0, <1>1, <2>1, <2>3 DEF At, Ended
    <3>2. Sent(b)'
      BY Zenon, SMT, <1>0, <1>1, <2>1, <2>3 DEF Sent, BlobsOf
    <3>3. Found(b)'
      BY Zenon, SMT, <2>1, <2>3 DEF Found, Ended
    <3> QED
      BY Zenon, SMT, <3>1, <3>2, <3>3
  <2> QED
    BY Zenon, SMT, <2>2, <2>3
<1>8. Rest'
  BY Zenon, SMT, <1>1 DEF Rest, Ended
<1>9. NothingLeft'
  <2> SUFFICES ASSUME NEW b \in Attempts, stage'[b] = "returned",
                      \A c \in Attempts : c > b => stage'[c] = "idle"
               PROVE  FALSE
    BY Zenon, SMT DEF NothingLeft
  <2>1. b # a /\ ~(a > b)
    BY Zenon, SMT, <1>1
  <2>2. a < b
    BY <2>1, ForkFilesAssumption
  <2> QED
    BY Zenon, SMT, <1>0, <1>1, <2>1, <2>2 DEF FilesInv, Turn
<1>10. DeletedIsStored'
  BY Zenon, SMT, <1>0 DEF FilesInv, DeletedIsStored, BlobsOf
<1> QED
  BY Zenon, SMT, <1>2, <1>3, <1>7, <1>8, <1>9, <1>10 DEF FilesInv

\* A crash ends whoever runs, and excuses what is left behind.
LEMMA FilesCrashInv ==
    ASSUME FilesInv, FilesCrash
    PROVE  FilesInv'
<1>1. /\ UNCHANGED <<kind, source, download, open, got, content, encoded, dir, list, stored, sentBy>>
      /\ \A a \in Attempts : stage'[a] = IF stage[a] \in Ended THEN stage[a] ELSE "crashed"
  BY Zenon, SMT DEF FilesCrash
<1>2. PICK a \in Attempts : stage[a] \notin Ended
  BY Zenon, SMT DEF FilesCrash
<1>3. ~NoCrash'
  BY Zenon, SMT, <1>1, <1>2 DEF NoCrash
<1>4. FilesTypeOK'
  BY Zenon, SMT, <1>1 DEF FilesCrash, FilesInv, FilesTypeOK, Ended
<1>5. Turn'
  BY Zenon, SMT, <1>1 DEF FilesInv, Turn, Ended
<1>6. ASSUME NEW b \in Attempts PROVE At(b)' /\ Sent(b)' /\ Found(b)'
  <2>1. At(b) /\ Sent(b)
    BY Zenon, SMT DEF FilesInv
  <2>2. At(b)'
    BY Zenon, SMT, <1>1, <2>1 DEF At, Ended
  <2>3. Sent(b)'
    BY Zenon, SMT, <1>1, <2>1 DEF Sent, BlobsOf, Ended
  <2> QED
    BY Zenon, SMT, <1>3, <2>2, <2>3 DEF Found
<1>7. Rest'
  BY Zenon, SMT, <1>3 DEF Rest
<1>8. NothingLeft'
  <2> SUFFICES ASSUME NEW b \in Attempts, stage'[b] = "returned",
                      \A c \in Attempts : c > b => stage'[c] = "idle"
               PROVE  FALSE
    BY Zenon, SMT DEF NothingLeft
  <2>1. b # a /\ stage[b] = "returned"
    BY Zenon, SMT, <1>1, <1>2 DEF Ended
  <2>2. b < a
    BY Zenon, SMT, <1>2, <2>1, OthersStand DEF Ended
  <2>3. a > b
    BY Zenon, SMT, <2>2, ForkFilesAssumption
  <2> QED
    BY Zenon, SMT, <1>1, <1>2, <2>3 DEF Ended
<1>9. DeletedIsStored'
  BY Zenon, SMT, <1>1 DEF FilesInv, DeletedIsStored, BlobsOf
<1> QED
  BY Zenon, SMT, <1>4, <1>5, <1>6, <1>7, <1>8, <1>9 DEF FilesInv

\* What holds where a handler runs.
LEMMA Here ==
    ASSUME FilesInv, NEW a \in Attempts
    PROVE  /\ FilesTypeOK /\ At(a) /\ Sent(a) /\ Found(a)
           /\ \A b \in Attempts : stage[b] = "idle" => download # b /\ open[a] # b
           /\ NoDownload \notin Attempts
  BY Zenon, SMT, ForkFilesAssumption DEF FilesInv, At

\* The steps that change nothing but where the handler is.
LEMMA OnlyMoves ==
    ASSUME FilesInv, NEW a \in Attempts,
           RequestFails(a) \/ Retrieved(a) \/ AnalyzeFile(a) \/ Uploaded(a) \/ StepFails(a)
    PROVE  FilesInv'
<1>0. UNCHANGED <<kind, source, download, open, got, content, encoded, dir, list, stored, sentBy>>
  BY Zenon, SMT DEF RequestFails, Retrieved, AnalyzeFile, Uploaded, StepFails
<1>1. /\ FilesTypeOK /\ At(a) /\ Sent(a) /\ Found(a) /\ NoDownload \notin Attempts
      /\ \A b \in Attempts : stage[b] = "idle" => download # b /\ open[a] # b
  BY Zenon, SMT, Here
<1>2. ASSUME NEW k \in {"analyze", "split", "send", "clean", "returned"}, Proceed(a, k),
             stage[a] \notin Ended, At(a)', Sent(a)',
             k = "returned" => stage[a] = "create",
             k \in {"analyze", "split"} => stage[a] \in {"retrieve", "analyze"}
      PROVE  FilesInv'
  <2>1. FilesTypeOK'
    <3>1. stage'[a] = k /\ \A b \in Attempts : b # a => stage'[b] = stage[b]
      BY Zenon, SMT, <1>1, <1>2 DEF Proceed, FilesTypeOK
    <3>2. \A b \in Attempts : stage'[b] \in {"send", "delete"} => list'[b] = {}
      BY Zenon, SMT, <1>0, <1>1, <1>2, <3>1 DEF FilesTypeOK, At
    <3> QED
      BY Zenon, SMT, <1>0, <1>1, <1>2, <3>2 DEF FilesTypeOK, Proceed
  <2>2. Step(a, k)
    BY Zenon, SMT, <1>0, <1>1, <1>2, <2>1 DEF Step, Beside, Found, Neat, Sent
  <2> QED
    BY Zenon, SMT, <2>2, StepInv
<1>3. ASSUME NEW k \in {"analyze", "split", "send", "clean", "returned"}, Proceed(a, k)
      PROVE  stage'[a] = k
  BY Zenon, SMT, <1>1, <1>3 DEF Proceed, FilesTypeOK
<1>4. CASE RequestFails(a)
  <2>1. stage[a] = "create" /\ Proceed(a, "returned")
    BY Zenon, SMT, <1>4 DEF RequestFails
  <2>2. At(a)' /\ Sent(a)'
    BY Zenon, SMT, <1>0, <1>1, <1>3, <2>1 DEF At, Sent
  <2> QED
    BY Zenon, SMT, <1>2, <2>1, <2>2 DEF Ended
<1>5. CASE Retrieved(a)
  <2>1. stage[a] = "retrieve" /\ Proceed(a, "analyze") /\ got[a] = Chunks
    BY Zenon, SMT, <1>5 DEF Retrieved
  <2>2. At(a)' /\ Sent(a)'
    BY Zenon, SMT, <1>0, <1>1, <1>3, <2>1 DEF At, Sent
  <2> QED
    BY Zenon, SMT, <1>2, <2>1, <2>2 DEF Ended
<1>6. CASE AnalyzeFile(a)
  <2>1. PICK k \in {"split", "clean"} : stage[a] = "analyze" /\ Proceed(a, k)
    BY Zenon, SMT, <1>6 DEF AnalyzeFile
  <2>2. At(a)' /\ Sent(a)'
    BY Zenon, SMT, <1>0, <1>1, <1>3, <2>1 DEF At, Sent
  <2> QED
    BY Zenon, SMT, <1>2, <2>1, <2>2 DEF Ended
<1>7. CASE Uploaded(a)
  <2>1. stage[a] = "upload" /\ Proceed(a, "send") /\ list[a] = {}
    BY Zenon, SMT, <1>7 DEF Uploaded
  <2>2. At(a)' /\ Sent(a)'
    BY Zenon, SMT, <1>0, <1>1, <1>3, <2>1 DEF At, Sent, BlobsOf
  <2> QED
    BY Zenon, SMT, <1>2, <2>1, <2>2 DEF Ended
<1>8. CASE StepFails(a)
  <2>1. stage[a] \in {"analyze", "split", "encode", "upload", "send"} /\ Proceed(a, "clean")
    BY Zenon, SMT, <1>8 DEF StepFails
  <2>2. At(a)' /\ Sent(a)'
    BY Zenon, SMT, <1>0, <1>1, <1>3, <2>1 DEF At, Sent
  <2> QED
    BY Zenon, SMT, <1>2, <2>1, <2>2 DEF Ended
<1> QED
  BY Zenon, SMT, <1>4, <1>5, <1>6, <1>7, <1>8

\* os.Create: the download of the attempt is empty, whoever made it.
LEMMA CreateFileInv ==
    ASSUME FilesInv, NEW a \in Attempts, CreateFile(a)
    PROVE  FilesInv'
<1>1. /\ FilesTypeOK /\ At(a) /\ Sent(a) /\ Found(a) /\ NoDownload \notin Attempts
      /\ \A b \in Attempts : stage[b] = "idle" => download # b /\ open[a] # b
  BY Zenon, SMT, Here
<1>2. /\ stage[a] = "create" /\ Proceed(a, "retrieve")
      /\ UNCHANGED <<kind, source, got, encoded, dir, list, stored, sentBy>>
  BY Zenon, SMT DEF CreateFile
<1>3. stage'[a] = "retrieve" /\ \A b \in Attempts : b # a => stage'[b] = stage[b]
  BY Zenon, SMT, <1>1, <1>2 DEF Proceed, FilesTypeOK
<1>4. PICK d \in Attempts :
         /\ download' = d /\ open' = [open EXCEPT ![a] = d] /\ content'[d] = {}
         /\ d = a \/ d = download
         /\ \A b \in Attempts : b # d => content'[b] = content[b]
         /\ content' \in [Attempts -> SUBSET Chunks]
  <2>1. CASE download = NoDownload
    <3>1. download' = a /\ open' = [open EXCEPT ![a] = a] /\ content' = content /\ content[a] = {}
      BY Zenon, SMT, <1>1, <1>2, <2>1 DEF CreateFile, At
    <3> QED
      BY Zenon, SMT, <1>1, <3>1 DEF FilesTypeOK
  <2>2. CASE download # NoDownload
    <3>1. /\ download' = download /\ download \in Attempts /\ open' = [open EXCEPT ![a] = download]
          /\ content' = [content EXCEPT ![download] = {}]
      BY Zenon, SMT, <1>1, <2>2 DEF CreateFile, FilesTypeOK
    <3> QED
      BY Zenon, SMT, <1>1, <3>1 DEF FilesTypeOK
  <2> QED
    BY Zenon, SMT, <2>1, <2>2
<1>5. open'[a] = d /\ \A b \in Attempts : b # a => open'[b] = open[b]
  BY Zenon, SMT, <1>1, <1>4 DEF FilesTypeOK
<1>6. FilesTypeOK'
  BY Zenon, SMT, <1>1, <1>2, <1>3, <1>4 DEF FilesTypeOK, Proceed
<1>7. At(a)'
  BY Zenon, SMT, <1>1, <1>2, <1>3, <1>4, <1>5 DEF At
<1>8. Sent(a)'
  BY Zenon, SMT, <1>1, <1>2 DEF Sent
<1>9. \A b \in Attempts \ {a} : Beside(a, b)
  BY <1>1, <1>2, <1>4, <1>5 DEF Beside
<1>10. Step(a, "retrieve")
  BY Zenon, SMT, <1>1, <1>2, <1>6, <1>7, <1>8, <1>9 DEF Step, Found, Neat, Ended
<1> QED
  BY Zenon, SMT, <1>10, StepInv

\* A part arrives in the file that the attempt has open.
LEMMA WriteChunkInv ==
    ASSUME FilesInv, NEW a \in Attempts, NEW c \in Chunks, WriteChunk(a, c)
    PROVE  FilesInv'
<1>1. /\ FilesTypeOK /\ At(a) /\ Sent(a) /\ Found(a) /\ NoDownload \notin Attempts
      /\ \A b \in Attempts : stage[b] = "idle" => download # b /\ open[a] # b
  BY Zenon, SMT, Here
<1>2. /\ stage[a] = "retrieve" /\ open[a] \in Attempts /\ open[a] = download
      /\ got' = [got EXCEPT ![a] = @ \cup {c}]
      /\ content' = [content EXCEPT ![open[a]] = @ \cup {c}]
      /\ UNCHANGED <<kind, source, stage, download, open, encoded, dir, list, stored, sentBy>>
  BY Zenon, SMT, <1>1 DEF WriteChunk, At
<1>3. Proceed(a, "retrieve")
  BY Zenon, SMT, <1>1, <1>2 DEF Proceed, FilesTypeOK
<1>4. FilesTypeOK'
  BY Zenon, SMT, <1>1, <1>2 DEF FilesTypeOK
<1>5. At(a)'
  BY Zenon, SMT, <1>1, <1>2 DEF At, FilesTypeOK
<1>6. \A b \in Attempts \ {a} : Beside(a, b)
  BY Zenon, SMT, <1>1, <1>2 DEF Beside, FilesTypeOK
<1>7. Sent(a)'
  BY Zenon, SMT, <1>1, <1>2 DEF Sent
<1>8. Step(a, "retrieve")
  BY Zenon, SMT, <1>1, <1>2, <1>3, <1>4, <1>5, <1>6, <1>7 DEF Step, Found, Neat, Ended
<1> QED
  BY Zenon, SMT, <1>8, StepInv

\* A download that failed is removed.
LEMMA RetrieveFailsInv ==
    ASSUME FilesInv, NEW a \in Attempts, RetrieveFails(a)
    PROVE  FilesInv'
<1>1. /\ FilesTypeOK /\ At(a) /\ Sent(a) /\ Found(a) /\ NoDownload \notin Attempts
      /\ \A b \in Attempts : stage[b] = "idle" => download # b /\ open[a] # b
  BY Zenon, SMT, Here
<1>2. /\ stage[a] = "retrieve" /\ Proceed(a, "returned") /\ download' = NoDownload
      /\ UNCHANGED <<kind, source, open, got, content, encoded, dir, list, stored, sentBy>>
  BY Zenon, SMT DEF RetrieveFails
<1>3. stage'[a] = "returned"
  BY Zenon, SMT, <1>1, <1>2 DEF Proceed, FilesTypeOK
<1>4. FilesTypeOK'
  BY Zenon, SMT, <1>1, <1>2 DEF FilesTypeOK, Proceed
<1>5. At(a)' /\ Sent(a)'
  BY Zenon, SMT, <1>1, <1>2, <1>3 DEF At, Sent
<1>6. a \notin sentBy'
  BY Zenon, SMT, <1>1, <1>2 DEF Sent
<1>7. Step(a, "returned")
  BY Zenon, SMT, <1>1, <1>2, <1>4, <1>5, <1>6 DEF Step, Beside, Found, Neat, Ended
<1> QED
  BY Zenon, SMT, <1>7, StepInv

\* Split opens the whole file.
LEMMA OpenSourceInv ==
    ASSUME FilesInv, NEW a \in Attempts, OpenSource(a)
    PROVE  FilesInv'
<1>1. /\ FilesTypeOK /\ At(a) /\ Sent(a) /\ Found(a) /\ NoDownload \notin Attempts
      /\ \A b \in Attempts : stage[b] = "idle" => download # b /\ open[a] # b
  BY Zenon, SMT, Here
<1>2. /\ stage[a] = "split" /\ download \in Attempts /\ Proceed(a, "encode")
      /\ open' = [open EXCEPT ![a] = download]
      /\ UNCHANGED <<kind, source, download, got, content, encoded, dir, list, stored, sentBy>>
  BY Zenon, SMT, <1>1 DEF OpenSource, At
<1>3. stage'[a] = "encode" /\ open'[a] = download /\ \A b \in Attempts : b # a => open'[b] = open[b]
  BY Zenon, SMT, <1>1, <1>2 DEF Proceed, FilesTypeOK
<1>4. FilesTypeOK'
  BY Zenon, SMT, <1>1, <1>2 DEF FilesTypeOK, Proceed
<1>5. At(a)' /\ Sent(a)'
  BY Zenon, SMT, <1>1, <1>2, <1>3 DEF At, Sent
<1>6. Step(a, "encode")
  BY Zenon, SMT, <1>1, <1>2, <1>3, <1>4, <1>5 DEF Step, Beside, Ended
<1> QED
  BY Zenon, SMT, <1>6, StepInv

\* A blob is written for a part that was read.
LEMMA WriteBlobInv ==
    ASSUME FilesInv, NEW a \in Attempts, WriteBlob(a)
    PROVE  FilesInv'
<1>1. /\ FilesTypeOK /\ At(a) /\ Sent(a) /\ Found(a) /\ NoDownload \notin Attempts
      /\ \A b \in Attempts : stage[b] = "idle" => download # b /\ open[a] # b
  BY Zenon, SMT, Here
<1>2. PICK c \in content[open[a]] \ encoded[a] :
         /\ encoded' = [encoded EXCEPT ![a] = @ \cup {c}]
         /\ dir' = dir \cup {<<a, c>>}
  BY Zenon, SMT DEF WriteBlob
<1>3. /\ stage[a] = "encode" /\ open[a] \in Attempts /\ content[open[a]] = Chunks /\ c \in Chunks
      /\ UNCHANGED <<kind, source, stage, download, open, got, content, list, stored, sentBy>>
  BY Zenon, SMT, <1>1, <1>2 DEF WriteBlob, At
<1>4. Proceed(a, "encode")
  BY Zenon, SMT, <1>1, <1>3 DEF Proceed, FilesTypeOK
<1>5. encoded'[a] = encoded[a] \cup {c} /\ \A b \in Attempts : b # a => encoded'[b] = encoded[b]
  BY Zenon, SMT, <1>1, <1>2 DEF FilesTypeOK
<1>6. FilesTypeOK'
  <2>1. <<a, c>> \in Blobs
    BY Zenon, SMT, <1>3 DEF Blobs
  <2>2. encoded' \in [Attempts -> SUBSET Chunks]
    BY Zenon, SMT, <1>1, <1>2, <1>3 DEF FilesTypeOK
  <2> QED
    BY Zenon, SMT, <1>1, <1>2, <1>3, <2>1, <2>2 DEF FilesTypeOK
<1>7. At(a)'
  <2>1. {a} \X encoded'[a] \subseteq dir'
    BY <1>1, <1>2, <1>3, <1>5 DEF At
  <2> QED
    BY Zenon, SMT, <1>3, <2>1 DEF At
<1>8. Sent(a)'
  BY Zenon, SMT, <1>1, <1>3 DEF Sent
<1>9. encoded[a] = Chunks => encoded'[a] = Chunks
  BY Zenon, SMT, <1>3, <1>5
<1>10. Step(a, "encode")
  BY Zenon, SMT, <1>1, <1>3, <1>4, <1>5, <1>6, <1>7, <1>8, <1>9 DEF Step, Beside, Ended
<1> QED
  BY Zenon, SMT, <1>10, StepInv

\* The end of the file: the stream is the whole of it.
LEMMA SplitFileInv ==
    ASSUME FilesInv, NEW a \in Attempts, SplitFile(a)
    PROVE  FilesInv'
<1>1. /\ FilesTypeOK /\ At(a) /\ Sent(a) /\ Found(a) /\ NoDownload \notin Attempts
      /\ \A b \in Attempts : stage[b] = "idle" => download # b /\ open[a] # b
  BY Zenon, SMT, Here
<1>2. /\ stage[a] = "encode" /\ Proceed(a, "stat") /\ content[open[a]] = Chunks
      /\ content[open[a]] \subseteq encoded[a] /\ dir' = dir \cup {<<a, 0>>}
      /\ UNCHANGED <<kind, source, download, open, got, content, encoded, list, stored, sentBy>>
  BY Zenon, SMT, <1>1 DEF SplitFile, At
<1>3. stage'[a] = "stat"
  BY Zenon, SMT, <1>1, <1>2 DEF Proceed, FilesTypeOK
<1>4. FilesTypeOK'
  <2>1. <<a, 0>> \in Blobs
    BY Zenon, SMT DEF Blobs
  <2> QED
    BY Zenon, SMT, <1>1, <1>2, <2>1 DEF FilesTypeOK, Proceed
<1>5. encoded[a] = Chunks
  BY Zenon, SMT, <1>1, <1>2 DEF FilesTypeOK
<1>6. BlobsOf(a)' \subseteq dir'
  BY <1>1, <1>2 DEF At, BlobsOf
<1>7. At(a)' /\ Sent(a)'
  BY Zenon, SMT, <1>1, <1>2, <1>3, <1>5, <1>6 DEF At, Sent
<1>8. Step(a, "stat")
  BY Zenon, SMT, <1>1, <1>2, <1>4, <1>7 DEF Step, Beside, Ended
<1> QED
  BY Zenon, SMT, <1>8, StepInv

\* The uploader finds all blobs of the stream.
LEMMA ListBlobsInv ==
    ASSUME FilesInv, NEW a \in Attempts, ListBlobs(a)
    PROVE  FilesInv'
<1>1. /\ FilesTypeOK /\ At(a) /\ Sent(a) /\ Found(a) /\ NoDownload \notin Attempts
      /\ \A b \in Attempts : stage[b] = "idle" => download # b /\ open[a] # b
  BY Zenon, SMT, Here
<1>2. /\ stage[a] = "stat" /\ list' = [list EXCEPT ![a] = dir]
      /\ UNCHANGED <<kind, source, download, open, got, content, encoded, dir, stored, sentBy>>
  BY Zenon, SMT DEF ListBlobs
<1>3. PICK l \in {"clean", "upload"} : Proceed(a, l)
  BY Zenon, SMT DEF ListBlobs
<1>4. stage'[a] = l /\ list'[a] = dir /\ \A b \in Attempts : b # a => list'[b] = list[b]
  BY Zenon, SMT, <1>1, <1>2, <1>3 DEF Proceed, FilesTypeOK
<1>5. FilesTypeOK'
  BY Zenon, SMT, <1>1, <1>2, <1>3, <1>4 DEF FilesTypeOK, Proceed
<1>6. At(a)' /\ Sent(a)'
  BY Zenon, SMT, <1>1, <1>2, <1>3, <1>4 DEF At, Sent, BlobsOf
<1>7. Step(a, l)
  BY Zenon, SMT, <1>1, <1>2, <1>3, <1>5, <1>6 DEF Step, Beside, Ended
<1> QED
  BY Zenon, SMT, <1>7, StepInv

\* A blob leaves the list when it is stored.
LEMMA StoreBlobInv ==
    ASSUME FilesInv, NEW a \in Attempts, StoreBlob(a)
    PROVE  FilesInv'
<1>1. /\ FilesTypeOK /\ At(a) /\ Sent(a) /\ Found(a) /\ NoDownload \notin Attempts
      /\ \A b \in Attempts : stage[b] = "idle" => download # b /\ open[a] # b
  BY Zenon, SMT, Here
<1>2. PICK x \in list[a] \cap dir :
         stored' = stored \cup {x} /\ list' = [list EXCEPT ![a] = @ \ {x}]
  BY Zenon, SMT DEF StoreBlob
<1>3. /\ stage[a] = "upload"
      /\ UNCHANGED <<kind, source, stage, download, open, got, content, encoded, dir, sentBy>>
  BY Zenon, SMT DEF StoreBlob
<1>4. Proceed(a, "upload")
  BY Zenon, SMT, <1>1, <1>3 DEF Proceed, FilesTypeOK
<1>5. list'[a] = list[a] \ {x} /\ \A b \in Attempts : b # a => list'[b] = list[b]
  BY Zenon, SMT, <1>1, <1>2 DEF FilesTypeOK
<1>6. FilesTypeOK'
  BY Zenon, SMT, <1>1, <1>2, <1>3, <1>5 DEF FilesTypeOK
<1>7. At(a)'
  <2>1. BlobsOf(a)' \subseteq list'[a] \cup stored'
    BY Zenon, SMT, <1>1, <1>2, <1>3, <1>5 DEF At, BlobsOf
  <2> QED
    BY Zenon, SMT, <1>1, <1>3, <2>1 DEF At
<1>8. Sent(a)'
  BY Zenon, SMT, <1>1, <1>3 DEF Sent
<1>9. Step(a, "upload")
  BY Zenon, SMT, <1>1, <1>2, <1>3, <1>4, <1>6, <1>7, <1>8 DEF Step, Beside, Ended
<1> QED
  BY Zenon, SMT, <1>9, StepInv

\* The announcement and the deletion of the source come after all blobs are stored.
LEMMA AnnounceFileInv ==
    ASSUME FilesInv, NEW a \in Attempts, NEW ok \in BOOLEAN, AnnounceFile(a, ok) \/ DeleteSource(a)
    PROVE  FilesInv'
<1>1. /\ FilesTypeOK /\ At(a) /\ Sent(a) /\ Found(a) /\ NoDownload \notin Attempts
      /\ \A b \in Attempts : stage[b] = "idle" => download # b /\ open[a] # b
  BY Zenon, SMT, Here
<1>2. /\ stage[a] \in {"send", "delete"} /\ sentBy' \subseteq sentBy \cup {a} /\ sentBy \subseteq sentBy'
      /\ UNCHANGED <<kind, download, open, got, content, encoded, dir, list, stored>>
  BY Zenon, SMT DEF AnnounceFile, DeleteSource
<1>3. encoded[a] = Chunks /\ BlobsOf(a) \subseteq stored /\ list[a] = {} /\ BlobsOf(a)' = BlobsOf(a)
  BY Zenon, SMT, <1>1, <1>2 DEF At, BlobsOf
<1>4. source' \in BOOLEAN
  BY Zenon, SMT, <1>1 DEF AnnounceFile, DeleteSource, FilesTypeOK
<1>5. PICK l \in {"delete", "clean"} : Proceed(a, l)
  BY Zenon, SMT DEF AnnounceFile, DeleteSource
<1>6. stage'[a] = l /\ \A b \in Attempts : b # a => stage'[b] = stage[b]
  BY Zenon, SMT, <1>1, <1>5 DEF Proceed, FilesTypeOK
<1>7. FilesTypeOK'
  <2>1. sentBy' \subseteq Attempts
    BY Zenon, SMT, <1>1, <1>2 DEF FilesTypeOK
  <2>2. stage' \in [Attempts -> {"idle", "create", "retrieve", "analyze", "split", "encode", "stat",
                            "upload", "send", "delete", "clean", "remove", "returned", "crashed"}]
    BY Zenon, SMT, <1>1, <1>5 DEF FilesTypeOK, Proceed
  <2>3. \A b \in Attempts : stage'[b] \in {"send", "delete"} => list'[b] = {}
    BY Zenon, SMT, <1>1, <1>2, <1>3, <1>6 DEF FilesTypeOK
  <2> QED
    BY Zenon, SMT, <1>1, <1>2, <1>4, <2>1, <2>2, <2>3 DEF FilesTypeOK
<1>8. At(a)'
  BY Zenon, SMT, <1>2, <1>3, <1>6 DEF At
<1>9. Sent(a)'
  BY Zenon, SMT, <1>2, <1>3, <1>6 DEF Sent
<1>10. Step(a, l)
  BY Zenon, SMT, <1>1, <1>2, <1>3, <1>5, <1>7, <1>8, <1>9 DEF Step, Beside, Ended
<1> QED
  BY Zenon, SMT, <1>10, StepInv

\* The deferred calls: the blobs, then the download.
LEMMA CleanupInv ==
    ASSUME FilesInv, NEW a \in Attempts, RemoveBlobs(a) \/ Cleanup(a)
    PROVE  FilesInv'
<1>1. /\ FilesTypeOK /\ At(a) /\ Sent(a) /\ Found(a) /\ NoDownload \notin Attempts
      /\ \A b \in Attempts : stage[b] = "idle" => download # b /\ open[a] # b
  BY Zenon, SMT, Here
<1>2. PICK l \in {"remove", "returned"} :
         /\ Proceed(a, l) /\ stage[a] \in {"clean", "remove"} /\ dir' = {}
         /\ l = "remove" => stage[a] = "clean" /\ download' = download
         /\ l = "returned" => download' = NoDownload
  BY Zenon, SMT, <1>1 DEF RemoveBlobs, Cleanup, At
<1>3. UNCHANGED <<kind, source, open, got, content, encoded, list, stored, sentBy>>
  BY Zenon, SMT DEF RemoveBlobs, Cleanup
<1>4. stage'[a] = l
  BY Zenon, SMT, <1>1, <1>2 DEF Proceed, FilesTypeOK
<1>5. FilesTypeOK'
  BY Zenon, SMT, <1>1, <1>2, <1>3 DEF FilesTypeOK, Proceed
<1>6. At(a)' /\ Sent(a)'
  BY Zenon, SMT, <1>1, <1>2, <1>3, <1>4 DEF At, Sent, BlobsOf
<1>7. Step(a, l)
  BY Zenon, SMT, <1>1, <1>2, <1>3, <1>5, <1>6 DEF Step, Beside, Neat, Ended
<1> QED
  BY Zenon, SMT, <1>7, StepInv

\* Every step keeps the invariant while attempts do not overlap.
LEMMA FilesStepInv ==
    ASSUME ~Overlap
    PROVE  FilesInv /\ [FilesNext]_filesVars => FilesInv'
<1> SUFFICES ASSUME FilesInv, [FilesNext]_filesVars PROVE FilesInv'
  OBVIOUS
<1>1. CASE UNCHANGED filesVars
  <2>1. FilesTypeOK' /\ Turn' /\ Rest' /\ NothingLeft' /\ DeletedIsStored'
    BY Zenon, SMT, <1>1 DEF filesVars, FilesInv, FilesTypeOK, Turn, Rest, NoCrash, Neat, NothingLeft,
       DeletedIsStored, BlobsOf
  <2>2. \A a \in Attempts : At(a)' /\ Sent(a)' /\ Found(a)'
    BY <1>1 DEF filesVars, FilesInv, At, Sent, Found, NoCrash, Neat, BlobsOf
  <2> QED
    BY Zenon, SMT, <2>1, <2>2 DEF FilesInv
<1>2. ASSUME NEW a \in Attempts, Begin(a) PROVE FilesInv'
  BY Zenon, SMT, <1>2, BeginInv
<1>3. ASSUME NEW a \in Attempts, Handle(a) PROVE FilesInv'
  BY Zenon, SMT, <1>3, OnlyMoves, CreateFileInv, WriteChunkInv, RetrieveFailsInv, OpenSourceInv, WriteBlobInv,
     SplitFileInv, ListBlobsInv, StoreBlobInv, AnnounceFileInv, CleanupInv DEF Handle
<1>4. CASE FilesCrash
  BY Zenon, SMT, <1>4, FilesCrashInv
<1> QED
  BY Zenon, SMT, <1>1, <1>2, <1>3, <1>4 DEF FilesNext

\* The files of an upload: what is announced is whole and stored, a source is
\* deleted only after that, and handlers that return leave nothing behind, if asynq
\* gives the task to one handler at a time (HandleUpload, HandleURL and their
\* deferred calls).
THEOREM FilesSafety ==
    ASSUME ~Overlap
    PROVE  FilesSpec => []FilesSafe
<1>1. FilesInv /\ [FilesNext]_filesVars => FilesInv'
  BY Zenon, SMT, FilesStepInv
<1> QED
  BY <1>1, FilesInitInv, FilesInvSafe, PTL DEF FilesSpec

-----------------------------------------------------------------------------
\* UrlUploads: an upload by URL, from the request to the answer.

\* A row is what its request asked for, and a request gets to its row with the URL
\* of a file.
RowInv(r) ==
    /\ req[r].at = "bound" => req[r].user \in Users /\ req[r].url \in PostedUrls /\ Bind(req[r].url)
    /\ urls[r] # NoRow => urls[r] = Row(r) /\ req[r].at \notin {"idle", "bound"} /\ Bind(req[r].url)
    /\ req[r].at \in {"recorded", "aborted", "created"} => urls[r] # NoRow

\* What travels under an identifier belongs to its row.
Carries(id, user) == urls[id] # NoRow /\ urls[id].user = user
\* A message is about its row.
MessageInv(m) == Carries(m.id, m.user) /\ urls[m.id].url = m.url

\* A created row is in the queue, or has been answered for.
Handed(r) == Under(r) # {} \/ \E u \in Users : <<r, u>> \in urlsDone

\* UrlTypeOK and the domain of handling.
UrlTypes ==
    /\ req \in [Posts -> [at : {"idle", "bound", "recorded"} \cup Answers,
                             user : Users \cup {0}, url : PostedUrls \cup {0}]]
    /\ urls \in [Posts -> UrlRows \cup {NoRow}]
    /\ queue \subseteq Messages /\ archived \subseteq Messages
    /\ handling \in [queue -> {"waiting", "retrieve", "split", "mark", "send"}]
    /\ urlsDone \subseteq Posts \X Users /\ notifier \in BOOLEAN

\* The inductive invariant.
UrlInv ==
    /\ UrlTypes
    /\ \A r \in Posts : RowInv(r)
    /\ \A m \in queue \cup archived : MessageInv(m)
    /\ \A d \in urlsDone : Carries(d[1], d[2])
    /\ \A r \in Posts : req[r].at = "created" => Handed(r)

\* A step of the queue with a message.
Passed(m) ==
    /\ UNCHANGED <<notifier, req, urls>>
    /\ handling' \in [queue' -> {"waiting", "retrieve", "split", "mark", "send"}]
    /\ \A n \in queue' \cup archived' :
          /\ n \in Messages
          /\ n \in queue \cup archived \/ (n.id = m.id /\ n.user = m.user /\ n.url = m.url)
    /\ \A n \in queue \cup archived :
          \/ \E k \in queue' \cup archived' : k.id = n.id
          \/ n.id = m.id /\ <<m.id, m.user>> \in urlsDone'
    /\ urlsDone \subseteq urlsDone' /\ urlsDone' \subseteq urlsDone \cup {<<m.id, m.user>>}

\* The invariant says all that is promised.
LEMMA UrlInvSafe == UrlInv => UrlsSafe
<1> SUFFICES ASSUME UrlInv PROVE UrlsSafe
  OBVIOUS
<1>1. UrlTypeOK
  BY Zenon, SMT DEF UrlInv, UrlTypes, RowInv, UrlTypeOK
<1>2. UrlIsHandedOff
  BY Zenon, SMT DEF UrlInv, Handed, UrlIsHandedOff
<1>3. AnnouncedToOwner
  <2>1. \A m \in queue \cup archived : urls[m.id].user = m.user /\ urls[m.id].url = m.url
    BY Zenon, SMT DEF UrlInv, MessageInv, Carries
  <2>2. ASSUME NEW d \in urlsDone
        PROVE  urls[d[1]].user = d[2] /\ Form(urls[d[1]].url) = "file"
    <3>1. d[1] \in Posts /\ Carries(d[1], d[2])
      BY Zenon, SMT DEF UrlInv, UrlTypes
    <3>2. urls[d[1]] = Row(d[1]) /\ Bind(req[d[1]].url)
      BY Zenon, SMT, <3>1 DEF UrlInv, RowInv, Carries
    <3> QED
      BY <3>1, <3>2 DEF Carries, Row, Bind
  <2> QED
    BY Zenon, SMT, <2>1, <2>2 DEF AnnouncedToOwner
<1> QED
  BY Zenon, SMT, <1>1, <1>2, <1>3 DEF UrlsSafe

\* Before the first request there is nothing.
LEMMA UrlInitInv == UrlInit => UrlInv
<1> SUFFICES ASSUME UrlInit PROVE UrlInv
  OBVIOUS
<1>1. UrlTypes
  BY Zenon, SMT DEF UrlInit, UrlTypes, Answers
<1>2. \A r \in Posts : RowInv(r) /\ req[r].at # "created"
  BY Zenon, SMT DEF UrlInit, RowInv
<1> QED
  BY Zenon, SMT, <1>1, <1>2 DEF UrlInv, UrlInit

\* A request that is not answered yet is read and refused, or read.
LEMMA PostInv ==
    ASSUME UrlInv, NEW r \in Posts, NEW user \in Users, NEW u \in PostedUrls,
           Post(r, user, u) \/ NoUID(r, user, u)
    PROVE  UrlInv'
<1>1. /\ UNCHANGED <<notifier, urls, queue, handling, archived, urlsDone>>
      /\ req[r].at = "idle"
  BY Zenon, SMT DEF Post, NoUID
<1>2. PICK a \in {"bound", "bad"} :
         /\ req' = [req EXCEPT ![r] = [at |-> a, user |-> user, url |-> u]]
         /\ a = "bound" => Bind(u)
  BY Zenon, SMT DEF Post, NoUID
<1>3. UrlTypes'
  BY Zenon, SMT, <1>1, <1>2 DEF UrlInv, UrlTypes, Answers
<1>4. ASSUME NEW q \in Posts PROVE RowInv(q)' /\ (req'[q].at = "created" => Handed(q)')
  <2>1. Handed(q)' <=> Handed(q)
    BY Zenon, SMT, <1>1 DEF Handed, Under
  <2>2. CASE q = r
    BY Zenon, SMT, <1>1, <1>2, <2>2 DEF UrlInv, UrlTypes, RowInv
  <2>3. CASE q # r
    <3>1. req'[q] = req[q]
      BY Zenon, SMT, <1>2, <2>3 DEF UrlInv, UrlTypes
    <3> QED
      BY Zenon, SMT, <1>1, <2>1, <3>1 DEF UrlInv, RowInv, Row
  <2> QED
    BY Zenon, SMT, <2>2, <2>3
<1>5. /\ \A m \in (queue \cup archived)' : MessageInv(m)'
      /\ \A d \in urlsDone' : Carries(d[1], d[2])'
  BY Zenon, SMT, <1>1 DEF UrlInv, MessageInv, Carries
<1> QED
  BY Zenon, SMT, <1>3, <1>4, <1>5 DEF UrlInv

\* The row is made, or not, or made without an answer.
LEMMA CreateURLInv ==
    ASSUME UrlInv, NEW r \in Posts, CreateURL(r)
    PROVE  UrlInv'
<1>1. /\ UNCHANGED <<notifier, queue, handling, archived, urlsDone>>
      /\ req[r].at = "bound" /\ urls[r] = NoRow /\ Bind(req[r].url)
      /\ req[r].user \in Users /\ req[r].url \in PostedUrls
  BY Zenon, SMT DEF CreateURL, UrlInv, RowInv
<1>2. PICK a \in {"recorded", "internal"} :
         /\ req' = [req EXCEPT ![r].at = a]
         /\ \/ urls' = [urls EXCEPT ![r] = Row(r)]
            \/ urls' = urls /\ a = "internal"
  BY Zenon, SMT DEF CreateURL
<1>3. Row(r) \in UrlRows /\ Row(r) # NoRow
  BY Zenon, SMT, <1>1 DEF Row, UrlRows, NoRow
<1>4. UrlTypes'
  BY ZenonT(30), SMTT(60), <1>1, <1>2, <1>3 DEF UrlInv, UrlTypes, Answers
<1>5. \A q \in Posts : q # r => urls'[q] = urls[q] /\ req'[q] = req[q]
  BY Zenon, SMT, <1>2 DEF UrlInv, UrlTypes
<1>6. req'[r].at = a /\ req'[r].user = req[r].user /\ req'[r].url = req[r].url
  BY Zenon, SMT, <1>2 DEF UrlInv, UrlTypes
<1>7. urls'[r] = Row(r) \/ (urls'[r] = NoRow /\ a = "internal")
  BY Zenon, SMT, <1>1, <1>2 DEF UrlInv, UrlTypes
<1>8. ASSUME NEW q \in Posts PROVE RowInv(q)' /\ (req'[q].at = "created" => Handed(q)')
  <2>1. Handed(q)' <=> Handed(q)
    BY Zenon, SMT, <1>1 DEF Handed, Under
  <2>2. CASE q = r
    BY Zenon, SMT, <1>1, <1>3, <1>6, <1>7, <2>2 DEF RowInv, Row
  <2>3. CASE q # r
    BY Zenon, SMT, <1>5, <2>1, <2>3 DEF UrlInv, RowInv, Row
  <2> QED
    BY Zenon, SMT, <2>2, <2>3
<1>9. ASSUME NEW id \in Posts, NEW user, Carries(id, user) PROVE urls'[id] = urls[id]
  BY Zenon, SMT, <1>1, <1>5, <1>9 DEF Carries
<1>10. ASSUME NEW m \in (queue \cup archived)' PROVE MessageInv(m)'
  <2>1. m.id \in Posts /\ MessageInv(m)
    BY Zenon, SMT, <1>1 DEF UrlInv, UrlTypes, Messages
  <2> QED
    BY Zenon, SMT, <1>9, <2>1 DEF MessageInv, Carries
<1>11. ASSUME NEW d \in urlsDone' PROVE Carries(d[1], d[2])'
  <2>1. d[1] \in Posts /\ Carries(d[1], d[2])
    BY Zenon, SMT, <1>1 DEF UrlInv, UrlTypes
  <2> QED
    BY Zenon, SMT, <1>9, <2>1 DEF Carries
<1> QED
  BY Zenon, SMT, <1>4, <1>8, <1>10, <1>11 DEF UrlInv

\* PostURL ends: it answers 201 after the message is in the queue.
LEMMA PostEndsInv ==
    ASSUME UrlInv, NEW r \in Posts, URLReceived(r) \/ NilNotifier(r)
    PROVE  UrlInv'
<1>1. /\ UNCHANGED <<notifier, urls, archived, urlsDone>>
      /\ req[r].at = "recorded" /\ urls[r] = Row(r) /\ urls[r] # NoRow /\ Bind(req[r].url)
  BY Zenon, SMT DEF URLReceived, NilNotifier, UrlInv, RowInv
<1>2. PICK a \in {"created", "bad", "aborted"} :
         /\ req' = [req EXCEPT ![r].at = a]
         /\ \/ Enqueue(UrlMessage(r))
            \/ UNCHANGED <<queue, handling>> /\ a # "created"
  BY Zenon, SMT DEF URLReceived, NilNotifier
<1>3. UrlMessage(r) \in Messages /\ MessageInv(UrlMessage(r))
  <2>1. urls[r] \in UrlRows
    BY Zenon, SMT, <1>1 DEF UrlInv, UrlTypes
  <2>2. req[r].user \in Users /\ req[r].url \in PostedUrls
    BY <1>1, <2>1 DEF UrlRows, Row
  <2>3. 0 \in 0..UrlRetry
    BY UrlUploadsAssumption
  <2> QED
    BY <1>1, <2>2, <2>3 DEF UrlMessage, Messages, MessageInv, Carries, Row
<1>4. /\ queue' \subseteq queue \cup {UrlMessage(r)} /\ queue \subseteq queue'
      /\ a = "created" => UrlMessage(r) \in queue'
      /\ handling' \in [queue' -> {"waiting", "retrieve", "split", "mark", "send"}]
  BY Zenon, SMT, <1>2 DEF Enqueue, UrlInv, UrlTypes
<1>5. UrlTypes'
  BY ZenonT(30), SMTT(60), <1>1, <1>2, <1>3, <1>4 DEF UrlInv, UrlTypes, Answers
<1>6. ASSUME NEW q \in Posts PROVE RowInv(q)' /\ (req'[q].at = "created" => Handed(q)')
  <2>1. Handed(q) => Handed(q)'
    BY Zenon, SMT, <1>1, <1>4 DEF Handed, Under
  <2>2. CASE q = r
    <3>1. req'[r].at = a /\ req'[r].user = req[r].user /\ req'[r].url = req[r].url
      BY Zenon, SMT, <1>2 DEF UrlInv, UrlTypes
    <3>2. RowInv(r)'
      BY Zenon, SMT, <1>1, <3>1 DEF RowInv, Row
    <3>3. a = "created" => Handed(r)'
      BY <1>4 DEF Handed, Under, UrlMessage
    <3> QED
      BY Zenon, SMT, <2>2, <3>1, <3>2, <3>3
  <2>3. CASE q # r
    <3>1. req'[q] = req[q]
      BY Zenon, SMT, <1>2, <2>3 DEF UrlInv, UrlTypes
    <3> QED
      BY Zenon, SMT, <1>1, <2>1, <3>1 DEF UrlInv, RowInv, Row
  <2> QED
    BY Zenon, SMT, <2>2, <2>3
<1>7. \A m \in (queue \cup archived)' : MessageInv(m)'
  BY Zenon, SMT, <1>1, <1>3, <1>4 DEF UrlInv, MessageInv, Carries
<1>8. \A d \in urlsDone' : Carries(d[1], d[2])'
  BY Zenon, SMT, <1>1 DEF UrlInv, Carries
<1> QED
  BY Zenon, SMT, <1>5, <1>6, <1>7, <1>8 DEF UrlInv

\* The queue's side: whatever becomes of a message, its identifier stays in the
\* queue, in the archive or among the announcements, with its user and its URL.
LEMMA QueueSideInv ==
    ASSUME UrlInv, NEW m \in queue, Passed(m)
    PROVE  UrlInv'
<1>1. m.id \in Posts /\ m.user \in Users /\ MessageInv(m)
  BY Zenon, SMT DEF UrlInv, UrlTypes, Messages
<1>2. UrlTypes'
  BY <1>1 DEF Passed, UrlInv, UrlTypes
<1>3. \A r \in Posts : RowInv(r)'
  BY Zenon, SMT DEF Passed, UrlInv, RowInv, Row
<1>4. ASSUME NEW n \in (queue \cup archived)' PROVE MessageInv(n)'
  <2>1. CASE n \in queue \cup archived
    BY Zenon, SMT, <2>1 DEF Passed, UrlInv, MessageInv, Carries
  <2>2. CASE n.id = m.id /\ n.user = m.user /\ n.url = m.url
    BY Zenon, SMT, <1>1, <2>2 DEF Passed, MessageInv, Carries
  <2> QED
    BY Zenon, SMT, <2>1, <2>2 DEF Passed
<1>5. ASSUME NEW d \in urlsDone' PROVE Carries(d[1], d[2])'
  <2>1. CASE d \in urlsDone
    BY Zenon, SMT, <2>1 DEF Passed, UrlInv, Carries
  <2>2. CASE d = <<m.id, m.user>>
    BY Zenon, SMT, <1>1, <2>2 DEF Passed, MessageInv, Carries
  <2> QED
    BY Zenon, SMT, <2>1, <2>2 DEF Passed
<1>6. ASSUME NEW r \in Posts, req'[r].at = "created" PROVE Handed(r)'
  <2>1. Handed(r)
    BY Zenon, SMT, <1>6 DEF Passed, UrlInv
  <2>2. CASE \E u \in Users : <<r, u>> \in urlsDone
    BY Zenon, SMT, <2>2 DEF Passed, Handed
  <2>3. CASE Under(r) # {}
    <3>1. PICK n \in queue \cup archived : n.id = r
      BY Zenon, SMT, <2>3 DEF Under
    <3>2. CASE \E k \in queue' \cup archived' : k.id = n.id
      BY Zenon, SMT, <3>1, <3>2 DEF Handed, Under
    <3>3. CASE n.id = m.id /\ <<m.id, m.user>> \in urlsDone'
      BY Zenon, SMT, <1>1, <3>1, <3>3 DEF Handed
    <3> QED
      BY Zenon, SMT, <3>2, <3>3 DEF Passed
  <2> QED
    BY Zenon, SMT, <2>1, <2>2, <2>3 DEF Handed
<1> QED
  BY Zenon, SMT, <1>2, <1>3, <1>4, <1>5, <1>6 DEF UrlInv

\* The handler works on a message.
LEMMA WorkOnInv ==
    ASSUME UrlInv, NEW m \in queue, Deliver(m) \/ HandleURL(m) \/ MarkUrlProcessed(m)
    PROVE  UrlInv'
<1>1. UNCHANGED <<notifier, req, urls, queue, archived, urlsDone>>
  BY Zenon, SMT DEF Deliver, HandleURL, MarkUrlProcessed
<1>2. handling' \in [queue' -> {"waiting", "retrieve", "split", "mark", "send"}]
  BY Zenon, SMT, <1>1 DEF Deliver, HandleURL, MarkUrlProcessed, UrlInv, UrlTypes
<1>3. \A n \in queue \cup archived : n \in Messages
  BY Zenon, SMT DEF UrlInv, UrlTypes
<1> QED
  <2>1. Passed(m)
    BY Zenon, SMT, <1>1, <1>2, <1>3 DEF Passed
  <2> QED
    BY Zenon, SMT, <2>1, QueueSideInv

\* The task is done, and the announcement made.
LEMMA SendUrlResponseInv ==
    ASSUME UrlInv, NEW m \in queue, SendUrlResponse(m)
    PROVE  UrlInv'
<1>1. /\ UNCHANGED <<notifier, req, urls, archived>> /\ queue' = queue \ {m}
      /\ urlsDone' = urlsDone \cup {<<m.id, m.user>>}
  BY Zenon, SMT DEF SendUrlResponse, Drop
<1>2. handling' \in [queue' -> {"waiting", "retrieve", "split", "mark", "send"}]
  BY Zenon, SMT DEF SendUrlResponse, Drop, UrlInv, UrlTypes
<1>3. \A n \in queue \cup archived : n \in Messages
  BY Zenon, SMT DEF UrlInv, UrlTypes
<1> QED
  <2>1. Passed(m)
    BY Zenon, SMT, <1>1, <1>2, <1>3 DEF Passed
  <2> QED
    BY Zenon, SMT, <2>1, QueueSideInv

\* The task comes again or is archived, whether it was announced or not.
LEMMA AgainInv ==
    ASSUME UrlInv, NEW m \in queue, Retry(m) \/ SentAndRetried(m)
    PROVE  UrlInv'
<1> DEFINE again == [m EXCEPT !.retried = @ + 1]
<1>1. /\ UNCHANGED <<notifier, req, urls>> /\ Again(m)
      /\ urlsDone \subseteq urlsDone' /\ urlsDone' \subseteq urlsDone \cup {<<m.id, m.user>>}
  BY Zenon, SMT DEF Retry, SentAndRetried
<1>2. m \in Messages /\ \A n \in queue \cup archived : n \in Messages
  BY Zenon, SMT DEF UrlInv, UrlTypes
<1>3. again.id = m.id /\ again.user = m.user /\ again.url = m.url
  BY Zenon, SMT, <1>2 DEF Messages
<1>4. m.retried < UrlRetry => again \in Messages
  <2>1. m.retried \in 0..UrlRetry
    BY Zenon, SMT, <1>2 DEF Messages
  <2>2. m.retried < UrlRetry => m.retried + 1 \in 0..UrlRetry
    BY <2>1, UrlUploadsAssumption
  <2> QED
    BY Zenon, SMT, <1>2, <2>2 DEF Messages
<1>5. CASE m.retried < UrlRetry
  <2>1. /\ queue' = (queue \ {m}) \cup {again} /\ archived' = archived
        /\ handling' = [n \in queue' |-> IF n = again THEN "waiting" ELSE handling[n]]
    BY Zenon, SMT, <1>1, <1>5 DEF Again
  <2>2. handling' \in [queue' -> {"waiting", "retrieve", "split", "mark", "send"}]
    BY Zenon, SMT, <2>1 DEF UrlInv, UrlTypes
  <2>3. again \in queue' \cup archived'
    BY Zenon, SMT, <2>1
  <2> HIDE DEF again
  <2>4. \A n \in queue' \cup archived' :
           /\ n \in Messages
           /\ n \in queue \cup archived \/ (n.id = m.id /\ n.user = m.user /\ n.url = m.url)
    BY Zenon, SMT, <1>2, <1>3, <1>4, <1>5, <2>1
  <2>5. \A n \in queue \cup archived : \E k \in queue' \cup archived' : k.id = n.id
    BY Zenon, SMT, <1>3, <2>1, <2>3
  <2> QED
    <3>1. Passed(m)
      BY Zenon, SMT, <1>1, <2>2, <2>4, <2>5 DEF Passed
    <3> QED
      BY Zenon, SMT, <3>1, QueueSideInv
<1>6. CASE ~(m.retried < UrlRetry)
  <2>1. archived' = archived \cup {m} /\ Drop(m)
    BY Zenon, SMT, <1>1, <1>6 DEF Again
  <2>2. handling' \in [queue' -> {"waiting", "retrieve", "split", "mark", "send"}]
    BY Zenon, SMT, <2>1 DEF Drop, UrlInv, UrlTypes
  <2>3. queue' \cup archived' = queue \cup archived
    BY Zenon, SMT, <2>1 DEF Drop
  <2> QED
    <3>1. Passed(m)
      BY Zenon, SMT, <1>1, <1>2, <2>2, <2>3 DEF Passed
    <3> QED
      BY Zenon, SMT, <3>1, QueueSideInv
<1> QED
  BY Zenon, SMT, <1>5, <1>6

\* Every step keeps the invariant.
LEMMA UrlStepInv == UrlInv /\ [UrlNext]_urlVars => UrlInv'
<1> SUFFICES ASSUME UrlInv, [UrlNext]_urlVars PROVE UrlInv'
  OBVIOUS
<1>1. CASE UNCHANGED urlVars
  BY Zenon, SMT, <1>1 DEF urlVars, UrlInv, UrlTypes, RowInv, Row, MessageInv, Carries, Handed, Under
<1>2. ASSUME NEW r \in Posts, Request(r) PROVE UrlInv'
  BY Zenon, SMT, <1>2, PostInv, CreateURLInv, PostEndsInv DEF Request
<1>3. ASSUME NEW m \in queue, UrlWork(m) PROVE UrlInv'
  BY Zenon, SMT, <1>3, WorkOnInv, SendUrlResponseInv, AgainInv DEF UrlWork
<1> QED
  BY Zenon, SMT, <1>1, <1>2, <1>3 DEF UrlNext

\* An upload by URL that was answered 201 has its row and is in the queue, given up
\* or announced, to the user who sent it (PostURL, HandleURL).
THEOREM UrlsSafety == UrlSpec => []UrlsSafe
  BY UrlInitInv, UrlStepInv, UrlInvSafe, PTL DEF UrlSpec

-----------------------------------------------------------------------------
\* FileAnalyzer: the kind and the extension of a file.

\* A table entry carries the extension it was looked up with, dot and all.
LEMMA ExtensionsFacts ==
    ASSUME NEW n, NEW ext, ext = <<1, n>>, Kind(n) # "none"
    PROVE  /\ extensions(ext) # {}
           /\ (CHOOSE t \in extensions(ext) : TRUE) = [kind |-> Kind(n), of |-> <<1, n>>]
<1>1. extensions(ext) = {[kind |-> Kind(n), of |-> <<1, n>>]}
  BY Zenon, SMT DEF extensions
<1> QED
  BY Zenon, SMT, <1>1

\* Kind is one of six where it is any.
LEMMA KindFacts ==
    ASSUME NEW n, Kind(n) # "none"
    PROVE  Kind(n) \in {"video", "audio", "image", "document", "binary", "model"}
BY Zenon, SMT DEF Kind

\* TypeOf looks one extension up with a dot in front: the detector's, or that of the
\* name when there is none.
LEMMA LookedUp ==
    ASSUME NEW h, NEW e \in Nat \X STRING,
           NEW c \in Nat \X STRING,
           c = IF h = Unknown THEN e ELSE <<0, h>>
    PROVE  TypeOf(h, e) = IF c[1] = 0 /\ Kind(c[2]) # "none"
                          THEN [kind |-> Kind(c[2]), of |-> <<1, c[2]>>] ELSE defaultType
<1>1. h # Unknown => synonyms(<<0, h>>) = {}
  BY DEF synonyms
<1>2. Chosen(h, e) = c
  BY Zenon, SMT, <1>1 DEF Chosen
<1>3. TypeOf(h, e) = IF extensions(Dot(c)) = {} THEN defaultType
                     ELSE CHOOSE t \in extensions(Dot(c)) : TRUE
  BY <1>2 DEF TypeOf
<1>4. CASE c[1] = 0 /\ Kind(c[2]) # "none"
  <2>1. Dot(c) = <<1, c[2]>>
    BY <1>4 DEF Dot
  <2>2. extensions(Dot(c)) # {}
    BY Zenon, SMT, <1>4, <2>1, ExtensionsFacts
  <2>3. TypeOf(h, e) = [kind |-> Kind(c[2]), of |-> <<1, c[2]>>]
    BY Zenon, SMT, <1>3, <1>4, <2>1, <2>2, ExtensionsFacts
  <2> QED
    BY Zenon, SMT, <1>4, <2>3
<1>5. CASE ~(c[1] = 0 /\ Kind(c[2]) # "none")
  <2>1. Dot(c)[1] = 1 => c[1] = 0
    BY DEF Dot
  <2>2. Dot(c)[2] = c[2]
    BY Zenon, SMT DEF Dot
  <2>3. extensions(Dot(c)) = {}
    BY Zenon, SMT, <1>5, <2>1, <2>2 DEF extensions
  <2> QED
    BY Zenon, SMT, <1>3, <1>5, <2>3
<1> QED
  BY Zenon, SMT, <1>4, <1>5

\* The inductive invariant: what the analyzer knows at each stage.
AnalyzerInv ==
    /\ AnalyzerTypeOK
    /\ HeaderDecides
    /\ at \in {"read", "type", "info"} => mediaInfo = "nil"
    /\ at = "failed" => file # "ok"
    /\ at \in {"type", "info", "meta", "done"} => file = "ok"
    /\ at \in {"meta", "done"} =>
          (mediaInfo # "nil" <=> /\ mediaType.kind \in {"video", "image", "audio"}
                                 /\ Needed(mediaType.kind) \in probe)
    /\ at = "done" => /\ meta.sized = (mediaInfo # "nil")
                      /\ meta.nameExt = IF name.ext = NoExt THEN mediaType.of ELSE name.ext

\* The invariant says all that is promised.
LEMMA AnalyzerInvSafe == AnalyzerInv => AnalyzerSafe
<1> SUFFICES ASSUME AnalyzerInv PROVE AnalyzerSafe
  OBVIOUS
<1>1. RefusedIsEmpty
  BY Zenon, SMT DEF AnalyzerInv, RefusedIsEmpty
<1>2. SizedIsMedia
  BY Zenon, SMT DEF AnalyzerInv, SizedIsMedia
<1>3. NameHasExtension
  BY Zenon, SMT DEF AnalyzerInv, NameHasExtension
<1> QED
  BY Zenon, SMT, <1>1, <1>2, <1>3 DEF AnalyzerInv, AnalyzerSafe

\* A file that comes in has the invariant.
LEMMA AnalyzerInitInv == AnalyzerInit => AnalyzerInv
  BY Zenon, SMT DEF AnalyzerInit, AnalyzerInv, AnalyzerTypeOK, HeaderDecides

\* Every step keeps the invariant.
LEMMA AnalyzerStepInv == AnalyzerInv /\ [AnalyzerNext]_analyzerVars => AnalyzerInv'
<1> SUFFICES ASSUME AnalyzerInv, [AnalyzerNext]_analyzerVars PROVE AnalyzerInv'
  OBVIOUS
<1>1. CASE UNCHANGED analyzerVars
  BY <1>1 DEF analyzerVars, AnalyzerInv, AnalyzerTypeOK, HeaderDecides
<1>2. CASE ReadHeader
  BY Zenon, SMT, <1>2 DEF ReadHeader, AnalyzerInv, AnalyzerTypeOK, HeaderDecides
<1>3. CASE DetectMediaType
  <2> DEFINE c == IF header = Unknown THEN name.ext ELSE <<0, header>>
  <2>1. /\ name.ext \in FileExts /\ name.ext \in Nat \X STRING
        /\ header \in Headers \cup {Unknown}
    BY Zenon, SMT, FileAnalyzerAssumption DEF AnalyzerInv, AnalyzerTypeOK
  <2>2. c \in Nat \X STRING /\ c[2] \in Headers \cup {e[2] : e \in FileExts}
    BY Zenon, SMT, <2>1, FileAnalyzerAssumption
  <2>3. mediaType' = IF c[1] = 0 /\ Kind(c[2]) # "none"
                     THEN [kind |-> Kind(c[2]), of |-> <<1, c[2]>>] ELSE defaultType
    <3>1. mediaType' = TypeOf(header, name.ext)
      BY Zenon, SMT, <1>3 DEF DetectMediaType
    <3> QED
      BY ZenonT(30), SMTT(60), <2>1, <2>2, <3>1, LookedUp
  <2>4. mediaType' \in Types
    <3>1. defaultType \in Types
      BY Zenon, SMT DEF defaultType, Types
    <3>2. <<1, c[2]>> \in {1} \X (Headers \cup {e[2] : e \in FileExts})
      BY Zenon, SMT, <2>2
    <3>3. Kind(c[2]) # "none" => [kind |-> Kind(c[2]), of |-> <<1, c[2]>>] \in Types
      <4> HIDE DEF c
      <4> QED
        BY Zenon, SMT, <3>2, KindFacts DEF Types
    <3> HIDE DEF c
    <3> QED
      BY Zenon, SMT, <2>3, <3>1, <3>3
  <2>5. AnalyzerTypeOK'
    BY Zenon, SMT, <1>3, <2>4 DEF DetectMediaType, AnalyzerInv, AnalyzerTypeOK
  <2>6. HeaderDecides'
    <3>1. header # Unknown => c[1] = 0 /\ c[2] = header
      BY Zenon, SMT, FileAnalyzerAssumption
    <3>2. header # Unknown => mediaType' = IF Kind(header) = "none" THEN defaultType
                                           ELSE [kind |-> Kind(header), of |-> <<1, header>>]
      <4> HIDE DEF c
      <4> QED
        BY Zenon, SMT, <2>3, <3>1
    <3> QED
      BY Zenon, SMT, <1>3, <3>2 DEF DetectMediaType, HeaderDecides
  <2> QED
    BY Zenon, SMT, <1>3, <2>5, <2>6 DEF DetectMediaType, AnalyzerInv
<1>4. CASE DetectMediaInfo
  <2>1. mediaType.kind \in {"video", "image", "audio"} => Needed(mediaType.kind) \in {"video", "audio"}
    BY Zenon, SMT DEF Needed
  <2>2. /\ mediaInfo' \in {"nil", "video", "audio"}
        /\ mediaInfo' # "nil" <=> /\ mediaType.kind \in {"video", "image", "audio"}
                                  /\ Needed(mediaType.kind) \in probe
    BY Zenon, SMT, <1>4, <2>1 DEF DetectMediaInfo
  <2> QED
    BY Zenon, SMT, <1>4, <2>2 DEF DetectMediaInfo, AnalyzerInv, AnalyzerTypeOK, HeaderDecides
<1>5. CASE Describe
  BY Zenon, SMT, <1>5 DEF Describe, AnalyzerInv, AnalyzerTypeOK, HeaderDecides
<1> QED
  BY Zenon, SMT, <1>1, <1>2, <1>3, <1>4, <1>5 DEF AnalyzerNext

\* The header of a file decides its type before its name does, only media that was
\* probed has a size, only an empty or unreadable file is refused, and a name without
\* an extension gets that of the type (Analyze, DetectMediaType).
THEOREM AnalyzerSafety == AnalyzerSpec => []AnalyzerSafe
  BY AnalyzerInitInv, AnalyzerStepInv, AnalyzerInvSafe, PTL DEF AnalyzerSpec

-----------------------------------------------------------------------------
\* Watchman: a report from the request to the table.

\* No entry of a sequence comes twice.
Once(s) == \A i, j \in DOMAIN s : s[i] = s[j] => i = j

\* Appending an entry that is not there yet.
LEMMA AppendOnce ==
    ASSUME NEW s \in Seq(Reports), NEW r \in Reports, Once(s), r \notin ReportRows(s)
    PROVE  /\ Append(s, r) \in Seq(Reports) /\ Once(Append(s, r))
           /\ ReportRows(Append(s, r)) = ReportRows(s) \cup {r}
           /\ Len(Append(s, r)) = Len(s) + 1
<1> DEFINE t == Append(s, r)
<1>1. /\ t \in Seq(Reports) /\ Len(t) = Len(s) + 1 /\ Len(s) \in Nat
      /\ DOMAIN s = 1..Len(s) /\ DOMAIN t = 1..(Len(s) + 1)
      /\ \A i \in 1..Len(s) : t[i] = s[i]
      /\ t[Len(s) + 1] = r
  <2>1. /\ t \in Seq(Reports) /\ Len(t) = Len(s) + 1 /\ Len(s) \in Nat
        /\ DOMAIN s = 1..Len(s)
    OBVIOUS
  <2>2. DOMAIN t = 1..(Len(s) + 1)
    BY <2>1
  <2>3. \A i \in 1..Len(s) : t[i] = s[i]
    OBVIOUS
  <2>4. t[Len(s) + 1] = r
    OBVIOUS
  <2> QED
    BY Zenon, SMT, <2>1, <2>2, <2>3, <2>4
<1> HIDE DEF t
<1>2. \A i \in DOMAIN t : (i \in DOMAIN s /\ t[i] = s[i]) \/ (i = Len(s) + 1 /\ t[i] = r)
  BY <1>1
<1>3. \A i \in DOMAIN s : s[i] # r
  BY Zenon, SMT DEF ReportRows
<1>4. Once(t)
  BY Zenon, SMT, <1>1, <1>2, <1>3 DEF Once
<1>5. ReportRows(t) = ReportRows(s) \cup {r}
  BY <1>1, <1>2 DEF ReportRows
<1> QED
  BY Zenon, SMT, <1>1, <1>4, <1>5 DEF t

\* Taking the head of such a sequence takes that entry out.
LEMMA TailOnce ==
    ASSUME NEW s \in Seq(Reports), s # <<>>, Once(s)
    PROVE  /\ Tail(s) \in Seq(Reports) /\ Once(Tail(s))
           /\ Head(s) \in Reports /\ Head(s) \in ReportRows(s)
           /\ ReportRows(Tail(s)) = ReportRows(s) \ {Head(s)}
           /\ Len(Tail(s)) = Len(s) - 1
<1> DEFINE t == Tail(s)
<1>1. /\ t \in Seq(Reports) /\ Len(t) = Len(s) - 1 /\ Len(s) \in Nat \ {0}
      /\ DOMAIN s = 1..Len(s) /\ DOMAIN t = 1..(Len(s) - 1)
      /\ \A i \in 1..(Len(s) - 1) : t[i] = s[i + 1]
      /\ Head(s) = s[1] /\ s[1] \in Reports
  OBVIOUS
<1> HIDE DEF t
<1>2. Once(t)
  <2> SUFFICES ASSUME NEW i \in DOMAIN t, NEW j \in DOMAIN t, t[i] = t[j] PROVE i = j
    BY Zenon, SMT DEF Once
  <2>1. i + 1 \in DOMAIN s /\ j + 1 \in DOMAIN s /\ s[i + 1] = s[j + 1]
    BY <1>1
  <2> QED
    BY <1>1, <2>1 DEF Once
<1>3. \A i \in DOMAIN t : i + 1 \in DOMAIN s /\ t[i] = s[i + 1] /\ s[i + 1] # s[1]
  BY <1>1 DEF Once
<1>4. \A i \in DOMAIN s : i = 1 \/ (i - 1 \in DOMAIN t /\ t[i - 1] = s[i])
  BY <1>1
<1>5. ReportRows(t) = ReportRows(s) \ {s[1]}
  BY <1>3, <1>4 DEF ReportRows
<1> QED
  BY <1>1, <1>2, <1>5 DEF t, ReportRows

\* An entry of such a sequence is at one position, and nothing else at none.
LEMMA PositionsOnce ==
    ASSUME NEW s \in Seq(Reports), Once(s), NEW r
    PROVE  /\ r \in ReportRows(s) => \E k : {i \in DOMAIN s : s[i] = r} = {k}
           /\ r \notin ReportRows(s) => {i \in DOMAIN s : s[i] = r} = {}
<1>1. ASSUME r \in ReportRows(s) PROVE \E k : {i \in DOMAIN s : s[i] = r} = {k}
  <2>1. PICK k \in DOMAIN s : s[k] = r
    BY Zenon, SMT, <1>1 DEF ReportRows
  <2>2. {i \in DOMAIN s : s[i] = r} = {k}
    BY Zenon, SMT, <2>1 DEF Once
  <2> QED
    BY Zenon, SMT, <2>2
<1>2. ASSUME r \notin ReportRows(s) PROVE {i \in DOMAIN s : s[i] = r} = {}
  BY Zenon, SMT, <1>2 DEF ReportRows
<1> QED
  BY Zenon, SMT, <1>1, <1>2

-----------------------------------------------------------------------------

\* Where an accepted report is: in one place, and there once.
Chan(r) == r \in ReportRows(rcvChan)
Held(r) == r \in ReportRows(batch)
Stored(r) == r \in DOMAIN playback
Lost(r) == r \in dropped
OnePlace(r) ==
    /\ code[r] = 201 => Chan(r) \/ Held(r) \/ Stored(r) \/ Lost(r)
    /\ Chan(r) => code[r] = 201 /\ ~Held(r) /\ ~Stored(r) /\ ~Lost(r)
    /\ Held(r) => code[r] = 201 /\ ~Stored(r) /\ ~Lost(r)
    /\ Stored(r) => code[r] = 201 /\ ~Lost(r)
    /\ Lost(r) => code[r] = 201

\* A report that is not answered yet, or was accepted, is one that passed.
PassedChecks(r) ==
    /\ reportAt[r] \in {"idle", "send"} => code[r] = 0
    /\ reportAt[r] = "send" \/ code[r] = 201 => Validate(body[r]) /\ Plausible(body[r])
    /\ Stored(r) => playback[r] = prepareArgs(body[r])

\* The inductive invariant.
WatchInv ==
    /\ WatchmanTypeOK
    /\ Once(rcvChan) /\ Once(batch)
    /\ \A r \in Reports : OnePlace(r) /\ PassedChecks(r)

\* What passed the checks goes through prepareArgs unharmed.
LEMMA Unharmed ==
    ASSUME NEW b \in Bodies, Validate(b), NEW f \in {"duration", "rel_position", "rebuf_duration"}
    PROVE  prepareArgs(b)[f] = b[f]
<1>1. b.rel_position \in Int /\ 0 <= b.rel_position /\ b.rel_position <= 100
  <2>1. b.rel_position \in Int
    BY Zenon, SMT, WatchmanAssumption
  <2> QED
    BY <2>1 DEF Validate
<1>2. b.rel_position % 256 = b.rel_position
  BY <1>1
<1> QED
  BY <1>2 DEF prepareArgs

\* Products with a tag.
LEMMA Pairs ==
    ASSUME NEW t
    PROVE  /\ {t} \X {} = {}
           /\ \A k : {t} \X {k} = {<<t, k>>}
<1>1. {t} \X {} = {}
  OBVIOUS
<1>2. ASSUME NEW k PROVE {t} \X {k} = {<<t, k>>}
  <2>1. \A x \in {t} \X {k} : x = <<x[1], x[2]>> /\ x[1] = t /\ x[2] = k
    OBVIOUS
  <2>2. <<t, k>> \in {t} \X {k}
    OBVIOUS
  <2> QED
    BY Zenon, SMT, <2>1, <2>2
<1> QED
  BY Zenon, SMT, <1>1, <1>2

\* The invariant says all that is promised.
LEMMA WatchInvSafe == WatchInv => WatchmanSafe
<1> SUFFICES ASSUME WatchInv PROVE WatchmanSafe
  OBVIOUS
<1>0. /\ WatchmanTypeOK /\ DOMAIN playback \subseteq Reports /\ body \in [Reports -> Bodies]
      /\ \A r \in DOMAIN playback : code[r] = 201 /\ Validate(body[r]) /\ Plausible(body[r])
                                 /\ playback[r] = prepareArgs(body[r])
  BY DEF WatchInv, WatchmanTypeOK, OnePlace, PassedChecks, Stored
<1>1. TableIsValid
  BY <1>0 DEF TableIsValid, Plausible
<1>2. StoredAsReported
  BY <1>0, Unharmed DEF StoredAsReported
<1>3. AcceptedIsSomewhere
  <2> SUFFICES ASSUME NEW r \in Reports, code[r] = 201 PROVE \E p \in ReportPlaces(r) : ReportPlaces(r) = {p}
    BY Zenon, SMT DEF AcceptedIsSomewhere
  <2> DEFINE C == {k \in DOMAIN rcvChan : rcvChan[k] = r}
             B == {k \in DOMAIN batch : batch[k] = r}
             T == DOMAIN playback \cap {r}
             D == dropped \cap {r}
  <2>1. /\ Chan(r) => \E k : C = {k}
        /\ ~Chan(r) => C = {}
        /\ Held(r) => \E k : B = {k}
        /\ ~Held(r) => B = {}
    <3>1. rcvChan \in Seq(Reports) /\ batch \in Seq(Reports) /\ Once(rcvChan) /\ Once(batch)
      BY Zenon, SMT DEF WatchInv, WatchmanTypeOK
    <3>2. /\ r \in ReportRows(rcvChan) => \E k : C = {k}
          /\ r \notin ReportRows(rcvChan) => C = {}
      BY Zenon, SMT, <3>1, PositionsOnce
    <3>3. /\ r \in ReportRows(batch) => \E k : B = {k}
          /\ r \notin ReportRows(batch) => B = {}
      BY Zenon, SMT, <3>1, PositionsOnce
    <3> HIDE DEF C, B
    <3> QED
      BY Zenon, SMT, <3>2, <3>3 DEF Chan, Held
  <2>2. /\ Stored(r) => T = {r}
        /\ ~Stored(r) => T = {}
        /\ Lost(r) => D = {r}
        /\ ~Lost(r) => D = {}
    BY Zenon, SMT DEF Stored, Lost
  <2>3. ReportPlaces(r) = ({"channel"} \X C) \cup ({"batch"} \X B) \cup ({"table"} \X T) \cup ({"dropped"} \X D)
    BY Zenon, SMT DEF ReportPlaces
  <2> HIDE DEF C, B, T, D
  <2>4. OnePlace(r)
    BY Zenon, SMT DEF WatchInv
  <2>5. CASE Chan(r)
    <3>1. B = {} /\ T = {} /\ D = {}
      BY Zenon, SMT, <2>1, <2>2, <2>4, <2>5 DEF OnePlace
    <3>2. PICK k : C = {k}
      BY Zenon, SMT, <2>1, <2>5
    <3>3. /\ {"channel"} \X C = {<<"channel", k>>}
          /\ {"batch"} \X B = {}
          /\ {"table"} \X T = {}
          /\ {"dropped"} \X D = {}
      BY Zenon, SMT, <3>1, <3>2, Pairs
    <3>4. ReportPlaces(r) = {<<"channel", k>>}
      BY Zenon, SMT, <2>3, <3>3
    <3> QED
      BY Zenon, SMT, <3>4
  <2>6. CASE Held(r)
    <3>1. C = {} /\ T = {} /\ D = {}
      BY Zenon, SMT, <2>1, <2>2, <2>4, <2>6 DEF OnePlace
    <3>2. PICK k : B = {k}
      BY Zenon, SMT, <2>1, <2>6
    <3>3. /\ {"batch"} \X B = {<<"batch", k>>}
          /\ {"channel"} \X C = {}
          /\ {"table"} \X T = {}
          /\ {"dropped"} \X D = {}
      BY Zenon, SMT, <3>1, <3>2, Pairs
    <3>4. ReportPlaces(r) = {<<"batch", k>>}
      BY Zenon, SMT, <2>3, <3>3
    <3> QED
      BY Zenon, SMT, <3>4
  <2>7. CASE Stored(r)
    <3>1. C = {} /\ B = {} /\ D = {}
      BY Zenon, SMT, <2>1, <2>2, <2>4, <2>7 DEF OnePlace
    <3>2. T = {r}
      BY Zenon, SMT, <2>2, <2>7
    <3>3. /\ {"table"} \X T = {<<"table", r>>}
          /\ {"channel"} \X C = {}
          /\ {"batch"} \X B = {}
          /\ {"dropped"} \X D = {}
      BY Zenon, SMT, <3>1, <3>2, Pairs
    <3>4. ReportPlaces(r) = {<<"table", r>>}
      BY Zenon, SMT, <2>3, <3>3
    <3> QED
      BY Zenon, SMT, <3>4
  <2>8. CASE Lost(r)
    <3>1. C = {} /\ B = {} /\ T = {}
      BY Zenon, SMT, <2>1, <2>2, <2>4, <2>8 DEF OnePlace
    <3>2. D = {r}
      BY Zenon, SMT, <2>2, <2>8
    <3>3. /\ {"dropped"} \X D = {<<"dropped", r>>}
          /\ {"channel"} \X C = {}
          /\ {"batch"} \X B = {}
          /\ {"table"} \X T = {}
      BY Zenon, SMT, <3>1, <3>2, Pairs
    <3>4. ReportPlaces(r) = {<<"dropped", r>>}
      BY Zenon, SMT, <2>3, <3>3
    <3> QED
      BY Zenon, SMT, <3>4
  <2> QED
    BY Zenon, SMT, <2>4, <2>5, <2>6, <2>7, <2>8 DEF OnePlace
<1> QED
  BY Zenon, SMT, <1>0, <1>1, <1>2, <1>3 DEF WatchmanSafe

\* A watchman that starts has the invariant.
LEMMA WatchInitInv == WatchmanInit => WatchInv
<1> SUFFICES ASSUME WatchmanInit PROVE WatchInv
  OBVIOUS
<1>1. WatchmanTypeOK
  <2>1. 0 \in 0..MaxFailures /\ Len(<<>>) <= Capacity /\ <<>> \in Seq(Reports)
    BY WatchmanAssumption
  <2>2. DOMAIN playback = {}
    BY DEF WatchmanInit
  <2>3. code \in [Reports -> {0, 201, 400, 500}]
    BY Zenon, SMT DEF WatchmanInit
  <2> QED
    BY ZenonT(30), SMTT(60), <2>1, <2>2, <2>3 DEF WatchmanInit, WatchmanTypeOK
<1>2. Once(rcvChan) /\ Once(batch) /\ ReportRows(rcvChan) = {} /\ ReportRows(batch) = {} /\ DOMAIN playback = {}
  BY DEF WatchmanInit, Once, ReportRows
<1>3. \A r \in Reports : OnePlace(r) /\ PassedChecks(r)
  <2> SUFFICES ASSUME NEW r \in Reports PROVE OnePlace(r) /\ PassedChecks(r)
    OBVIOUS
  <2>1. code[r] = 0 /\ code[r] # 201 /\ reportAt[r] = "idle" /\ reportAt[r] # "send"
    BY DEF WatchmanInit
  <2>2. ~Chan(r) /\ ~Held(r) /\ ~Stored(r) /\ ~Lost(r)
    BY <1>2 DEF WatchmanInit, Chan, Held, Stored, Lost
  <2> QED
    BY Zenon, SMT, <2>1, <2>2 DEF OnePlace, PassedChecks
<1> QED
  BY Zenon, SMT, <1>1, <1>2, <1>3 DEF WatchInv

\* The steps that leave the places of reports as they are, and accept none.
Elsewhere ==
    /\ UNCHANGED <<body, rcvChan, batch, playback, dropped>>
    /\ \A r \in Reports :
          \/ reportAt'[r] = reportAt[r] /\ code'[r] = code[r]
          \/ reportAt[r] = "idle" /\ reportAt'[r] = "send" /\ code'[r] = code[r] /\ Validate(body[r]) /\ Plausible(body[r])
          \/ reportAt[r] \in {"idle", "send"} /\ reportAt'[r] \notin {"idle", "send"} /\ code'[r] \in {400, 500}

\* Such a step keeps the invariant.
LEMMA ElsewhereInv ==
    ASSUME WatchInv, Elsewhere, WatchmanTypeOK'
    PROVE  WatchInv'
<1>1. Once(rcvChan)' /\ Once(batch)'
  BY DEF WatchInv, Elsewhere, Once
<1>2. ASSUME NEW r \in Reports PROVE OnePlace(r)' /\ PassedChecks(r)'
  <2>1. /\ Chan(r)' <=> Chan(r)
        /\ Held(r)' <=> Held(r)
        /\ Stored(r)' <=> Stored(r)
        /\ Lost(r)' <=> Lost(r)
    BY Zenon, SMT DEF Elsewhere, Chan, Held, Stored, Lost
  <2>2. OnePlace(r) /\ PassedChecks(r) /\ body'[r] = body[r] /\ playback' = playback
    BY DEF WatchInv, Elsewhere
  <2>3. code'[r] = 201 <=> code[r] = 201
    BY <2>2 DEF Elsewhere, PassedChecks
  <2>4. OnePlace(r)'
    BY ZenonT(30), SMTT(60), <2>1, <2>2, <2>3 DEF OnePlace
  <2>5. PassedChecks(r)'
    <3>1. reportAt'[r] \in {"idle", "send"} => code'[r] = 0
      BY <2>2 DEF Elsewhere, PassedChecks
    <3>2. reportAt'[r] = "send" \/ code'[r] = 201 => Validate(body[r]) /\ Plausible(body[r])
      BY <2>2, <2>3 DEF Elsewhere, PassedChecks
    <3> QED
      BY Zenon, SMT, <2>1, <2>2, <3>1, <3>2 DEF PassedChecks
  <2> QED
    BY Zenon, SMT, <2>4, <2>5
<1> QED
  BY Zenon, SMT, <1>1, <1>2 DEF WatchInv

\* Requests up to their answer, the ticker, Stop and the end of the process.
LEMMA OtherStepInv ==
    ASSUME WatchInv,
           \/ \E r \in Reports : RefuseReport(r) \/ Add(r) \/ SendPanics(r)
           \/ ReceiveNil \/ Tick \/ Stop \/ WatchmanSignal \/ WatchmanExit
    PROVE  WatchInv'
<1>0. WatchmanTypeOK
  BY Zenon, SMT DEF WatchInv
<1>1. ASSUME NEW r \in Reports, RefuseReport(r) \/ Add(r) \/ SendPanics(r) PROVE WatchInv'
  <2>1. /\ UNCHANGED <<body, rcvChan, closed, batch, writer, playback, dropped, failures, serving>>
        /\ reportAt[r] \in {"idle", "send"}
    BY Zenon, SMT, <1>1 DEF RefuseReport, Add, SendPanics
  <2>2. PICK p \in {"send", "done", "panicked"}, c \in {0, 400, 500} :
           /\ reportAt' = [reportAt EXCEPT ![r] = p] /\ code' = [code EXCEPT ![r] = c]
           /\ p = "send" => c = 0 /\ reportAt[r] = "idle" /\ Validate(body[r]) /\ Plausible(body[r])
           /\ p # "send" => c # 0
    <3>1. CASE RefuseReport(r)
      BY <3>1 DEF RefuseReport, AnswerReport
    <3>2. CASE Add(r)
      <4>1. code[r] = 0 /\ code' = code /\ reportAt[r] = "idle" /\ reportAt' = [reportAt EXCEPT ![r] = "send"]
            /\ Validate(body[r]) /\ Plausible(body[r])
        BY Zenon, SMT, <3>2 DEF Add, WatchInv, PassedChecks
      <4>2. code' = [code EXCEPT ![r] = 0]
        BY ZenonT(30), SMTT(60), <1>0, <4>1 DEF WatchmanTypeOK
      <4> WITNESS "send" \in {"send", "done", "panicked"}, 0 \in {0, 400, 500}
      <4> QED
        BY Zenon, SMT, <4>1, <4>2
    <3>3. CASE SendPanics(r)
      BY <3>3 DEF SendPanics
    <3> QED
      BY Zenon, SMT, <1>1, <3>1, <3>2, <3>3
  <2>3. reportAt' \in [Reports -> {"idle", "send", "done", "panicked"}] /\ code' \in [Reports -> {0, 201, 400, 500}]
    BY <1>0, <2>2 DEF WatchmanTypeOK
  <2>4. WatchmanTypeOK'
    <3>1. UNCHANGED <<body, rcvChan, closed, batch, writer, playback, dropped, failures, serving>>
      BY Zenon, SMT, <2>1
    <3>2. (rcvChan \in Seq(Reports) /\ Len(rcvChan) <= Capacity /\ batch \in Seq(Reports))'
      BY Zenon, SMT, <1>0, <3>1 DEF WatchmanTypeOK
    <3>3. (DOMAIN playback \subseteq Reports /\ dropped \subseteq Reports /\ failures \in 0..MaxFailures)'
      BY Zenon, SMT, <1>0, <3>1 DEF WatchmanTypeOK
    <3>4. serving' \in {"up", "stopping", "down"} /\ writer' \in {"select", "writing", "ended"}
      BY <1>0, <3>1 DEF WatchmanTypeOK
    <3>5. body' \in [Reports -> Bodies] /\ closed' \in BOOLEAN
      <4>1. body \in [Reports -> Bodies] /\ closed \in BOOLEAN
        BY ZenonT(30), SMTT(60), <1>0 DEF WatchmanTypeOK
      <4> QED
        BY Zenon, SMT, <3>1, <4>1
    <3> QED
      BY ZenonT(30), SMTT(60), <2>3, <3>2, <3>3, <3>4, <3>5 DEF WatchmanTypeOK
  <2>5. ASSUME NEW q \in Reports
        PROVE  \/ reportAt'[q] = reportAt[q] /\ code'[q] = code[q]
               \/ reportAt[q] = "idle" /\ reportAt'[q] = "send" /\ code'[q] = code[q] /\ Validate(body[q]) /\ Plausible(body[q])
               \/ reportAt[q] \in {"idle", "send"} /\ reportAt'[q] \notin {"idle", "send"} /\ code'[q] \in {400, 500}
    <3>1. CASE q = r
      <4>1. reportAt'[r] = p /\ code'[r] = c /\ code[r] = 0
        BY ZenonT(30), SMTT(60), <1>0, <2>1, <2>2 DEF WatchmanTypeOK, WatchInv, PassedChecks
      <4> QED
        BY <2>1, <2>2, <3>1, <4>1
    <3>2. CASE q # r
      BY <1>0, <2>2, <3>2 DEF WatchmanTypeOK
    <3> QED
      BY ZenonT(30), SMTT(60), <3>1, <3>2
  <2>6. Elsewhere
    BY Zenon, SMT, <2>1, <2>5 DEF Elsewhere
  <2> QED
    BY Zenon, SMT, <2>4, <2>6, ElsewhereInv
<1>2. CASE ReceiveNil \/ Tick \/ Stop \/ WatchmanSignal \/ WatchmanExit
  <2>1. /\ UNCHANGED <<body, reportAt, code, rcvChan, batch, playback, dropped, failures>>
        /\ closed' \in BOOLEAN /\ serving' \in {"up", "stopping", "down"}
        /\ writer' \in {"select", "writing", "ended"}
    BY ZenonT(30), SMTT(60), <1>0, <1>2 DEF ReceiveNil, Tick, Stop, WatchmanSignal, WatchmanExit, watchmanVars, WatchmanTypeOK
  <2>2. WatchmanTypeOK'
    BY Zenon, SMT, <1>0, <2>1 DEF WatchmanTypeOK
  <2>3. Elsewhere
    BY ZenonT(30), SMTT(60), <2>1 DEF Elsewhere
  <2> QED
    BY Zenon, SMT, <2>2, <2>3, ElsewhereInv
<1> QED
  BY Zenon, SMT, <1>1, <1>2

\* A report that is sent is accepted, and in no place before.
LEMMA SendReportInv ==
    ASSUME WatchInv, NEW r \in Reports, Send(r)
    PROVE  WatchInv'
<1>0. /\ WatchmanTypeOK /\ OnePlace(r) /\ PassedChecks(r) /\ Once(rcvChan) /\ rcvChan \in Seq(Reports)
  BY Zenon, SMT DEF WatchInv, WatchmanTypeOK
<1>1. /\ reportAt[r] = "send" /\ Len(rcvChan) < Capacity /\ rcvChan' = Append(rcvChan, r)
      /\ code' = [code EXCEPT ![r] = 201] /\ reportAt' = [reportAt EXCEPT ![r] = "done"]
      /\ UNCHANGED <<body, closed, batch, writer, playback, dropped, failures, serving>>
  BY Zenon, SMT DEF Send, AnswerReport
<1>2. code[r] = 0 /\ ~Chan(r) /\ ~Held(r) /\ ~Stored(r) /\ ~Lost(r)
  BY <1>0, <1>1 DEF OnePlace, PassedChecks
<1>3. /\ rcvChan' \in Seq(Reports) /\ Once(rcvChan)' /\ ReportRows(rcvChan)' = ReportRows(rcvChan) \cup {r}
      /\ Len(rcvChan') = Len(rcvChan) + 1
  <2>1. r \notin ReportRows(rcvChan)
    BY Zenon, SMT, <1>2 DEF Chan
  <2>2. /\ Append(rcvChan, r) \in Seq(Reports) /\ Once(Append(rcvChan, r))
        /\ ReportRows(Append(rcvChan, r)) = ReportRows(rcvChan) \cup {r}
        /\ Len(Append(rcvChan, r)) = Len(rcvChan) + 1
    BY Zenon, SMT, <1>0, <2>1, AppendOnce
  <2> QED
    BY Zenon, SMT, <1>1, <2>2 DEF Once, ReportRows
<1>4. Len(rcvChan') <= Capacity
  BY <1>0, <1>1, <1>3, WatchmanAssumption
<1>5. reportAt' \in [Reports -> {"idle", "send", "done", "panicked"}] /\ code' \in [Reports -> {0, 201, 400, 500}]
  BY ZenonT(30), SMTT(60), <1>0, <1>1 DEF WatchmanTypeOK
<1>6. WatchmanTypeOK'
  BY Zenon, SMT, <1>0, <1>1, <1>3, <1>4, <1>5 DEF WatchmanTypeOK
<1>7. ASSUME NEW q \in Reports PROVE OnePlace(q)' /\ PassedChecks(q)'
  <2>1. /\ Held(q)' <=> Held(q)
        /\ Stored(q)' <=> Stored(q)
        /\ Lost(q)' <=> Lost(q)
        /\ playback' = playback /\ body' = body
    BY Zenon, SMT, <1>1 DEF Held, Stored, Lost, ReportRows
  <2>2. Chan(q)' <=> Chan(q) \/ q = r
    BY Zenon, SMT, <1>3 DEF Chan
  <2>3. CASE q = r
    <3>1. code'[r] = 201 /\ reportAt'[r] = "done"
      BY <1>0, <1>1 DEF WatchmanTypeOK
    <3>2. OnePlace(r)'
      BY Zenon, SMT, <1>2, <2>1, <2>2, <2>3, <3>1 DEF OnePlace
    <3>3. Validate(body[r]) /\ Plausible(body[r])
      BY Zenon, SMT, <1>0, <1>1 DEF PassedChecks
    <3>4. PassedChecks(r)'
      BY Zenon, SMT, <1>2, <2>1, <2>3, <3>1, <3>3 DEF PassedChecks
    <3> QED
      BY Zenon, SMT, <2>3, <3>2, <3>4
  <2>4. CASE q # r
    <3>1. code'[q] = code[q] /\ reportAt'[q] = reportAt[q]
      BY <1>0, <1>1, <2>4 DEF WatchmanTypeOK
    <3>2. OnePlace(q) /\ PassedChecks(q)
      BY Zenon, SMT DEF WatchInv
    <3> QED
      BY ZenonT(30), SMTT(60), <2>1, <2>2, <2>4, <3>1, <3>2 DEF OnePlace, PassedChecks
  <2> QED
    BY Zenon, SMT, <2>3, <2>4
<1>8. Once(batch)'
  BY Zenon, SMT, <1>1 DEF WatchInv, Once
<1> QED
  BY Zenon, SMT, <1>3, <1>6, <1>7, <1>8 DEF WatchInv

\* A report goes from the channel into the batch.
LEMMA ReceiveReportInv ==
    ASSUME WatchInv, ReceiveReport
    PROVE  WatchInv'
<1> DEFINE h == Head(rcvChan)
<1>0. /\ WatchmanTypeOK /\ Once(rcvChan) /\ Once(batch)
      /\ rcvChan \in Seq(Reports) /\ batch \in Seq(Reports)
  BY Zenon, SMT DEF WatchInv, WatchmanTypeOK
<1>1. /\ rcvChan # <<>> /\ batch' = Append(batch, h) /\ rcvChan' = Tail(rcvChan)
      /\ UNCHANGED <<body, reportAt, code, closed, writer, playback, dropped, failures, serving>>
  BY Zenon, SMT DEF ReceiveReport
<1>2. /\ Tail(rcvChan) \in Seq(Reports) /\ Once(Tail(rcvChan)) /\ h \in Reports
      /\ h \in ReportRows(rcvChan) /\ ReportRows(Tail(rcvChan)) = ReportRows(rcvChan) \ {h}
      /\ Len(Tail(rcvChan)) = Len(rcvChan) - 1
  BY Zenon, SMT, <1>0, <1>1, TailOnce
<1> HIDE DEF h
<1>3. Chan(h) /\ ~Held(h)
  BY Zenon, SMT, <1>2 DEF WatchInv, OnePlace, Chan
<1>4. /\ Append(batch, h) \in Seq(Reports) /\ Once(Append(batch, h))
      /\ ReportRows(Append(batch, h)) = ReportRows(batch) \cup {h}
  BY Zenon, SMT, <1>0, <1>2, <1>3, AppendOnce DEF Held
<1>5. /\ ReportRows(rcvChan)' = ReportRows(rcvChan) \ {h} /\ ReportRows(batch)' = ReportRows(batch) \cup {h}
      /\ Once(rcvChan)' /\ Once(batch)'
  BY ZenonT(30), SMTT(60), <1>1, <1>2, <1>4 DEF ReportRows, Once
<1>6. Len(rcvChan') <= Capacity
  BY <1>0, <1>1, <1>2, WatchmanAssumption DEF WatchmanTypeOK
<1>7. WatchmanTypeOK'
  BY Zenon, SMT, <1>0, <1>1, <1>2, <1>4, <1>6 DEF WatchmanTypeOK
<1>8. ASSUME NEW q \in Reports PROVE OnePlace(q)' /\ PassedChecks(q)'
  <2>1. OnePlace(q) /\ PassedChecks(q)
    BY Zenon, SMT DEF WatchInv
  <2>2. /\ Chan(q)' <=> Chan(q) /\ q # h
        /\ Held(q)' <=> Held(q) \/ q = h
        /\ Stored(q)' <=> Stored(q)
        /\ Lost(q)' <=> Lost(q)
    BY Zenon, SMT, <1>1, <1>5 DEF Chan, Held, Stored, Lost
  <2>3. OnePlace(q)'
    BY ZenonT(30), SMTT(60), <1>1, <1>3, <2>1, <2>2 DEF OnePlace
  <2>4. PassedChecks(q)'
    BY Zenon, SMT, <1>1, <2>1, <2>2 DEF PassedChecks
  <2> QED
    BY Zenon, SMT, <2>3, <2>4
<1> QED
  BY Zenon, SMT, <1>5, <1>7, <1>8 DEF WatchInv

\* The batch goes to the table as a whole, or is lost as a whole.
LEMMA WriteInv ==
    ASSUME WatchInv, WriteBatch \/ WriteBatchFails
    PROVE  WatchInv'
<1>0. /\ WatchmanTypeOK /\ Once(rcvChan) /\ batch \in Seq(Reports)
  BY Zenon, SMT DEF WatchInv, WatchmanTypeOK
<1>1. /\ batch' = <<>> /\ writer' = "select"
      /\ UNCHANGED <<body, reportAt, code, rcvChan, closed, serving>>
  BY Zenon, SMT DEF WriteBatch, WriteBatchFails
<1>2. ReportRows(batch)' = {} /\ ReportRows(rcvChan)' = ReportRows(rcvChan) /\ Once(rcvChan)' /\ Once(batch)'
  BY <1>0, <1>1 DEF ReportRows, Once
<1>3. ReportRows(batch) \subseteq Reports
  BY <1>0 DEF ReportRows
<1>4. /\ \/ DOMAIN playback' = DOMAIN playback \cup ReportRows(batch) /\ dropped' = dropped
         \/ DOMAIN playback' = DOMAIN playback /\ dropped' = dropped \cup ReportRows(batch)
      /\ \A r \in DOMAIN playback' : \/ r \in DOMAIN playback /\ playback'[r] = playback[r]
                                  \/ playback'[r] = prepareArgs(body[r])
      /\ failures' \in 0..MaxFailures
  <2>1. CASE WriteBatch
    BY Zenon, SMT, <1>0, <2>1 DEF WriteBatch, WatchmanTypeOK
  <2>2. CASE WriteBatchFails
    <3>1. failures' \in 0..MaxFailures
      BY <1>0, <2>2, WatchmanAssumption DEF WriteBatchFails, WatchmanTypeOK
    <3> QED
      BY Zenon, SMT, <2>2, <3>1 DEF WriteBatchFails
  <2> QED
    BY Zenon, SMT, <2>1, <2>2
<1>5. WatchmanTypeOK'
  <2>1. DOMAIN playback' \subseteq Reports /\ dropped' \subseteq Reports
    BY Zenon, SMT, <1>0, <1>3, <1>4 DEF WatchmanTypeOK
  <2>2. <<>> \in Seq(Reports)
    OBVIOUS
  <2> QED
    BY Zenon, SMT, <1>0, <1>1, <1>4, <2>1, <2>2 DEF WatchmanTypeOK
<1>6. ASSUME NEW q \in Reports PROVE OnePlace(q)' /\ PassedChecks(q)'
  <2>1. OnePlace(q) /\ PassedChecks(q)
    BY Zenon, SMT DEF WatchInv
  <2>2. /\ Chan(q)' <=> Chan(q)
        /\ ~Held(q)'
        /\ \/ (Stored(q)' <=> Stored(q) \/ Held(q)) /\ (Lost(q)' <=> Lost(q))
           \/ (Stored(q)' <=> Stored(q)) /\ (Lost(q)' <=> Lost(q) \/ Held(q))
    <3>1. (Chan(q)' <=> Chan(q)) /\ ~Held(q)'
      BY Zenon, SMT, <1>2 DEF Chan, Held
    <3>2. \/ (Stored(q)' <=> Stored(q) \/ Held(q)) /\ (Lost(q)' <=> Lost(q))
          \/ (Stored(q)' <=> Stored(q)) /\ (Lost(q)' <=> Lost(q) \/ Held(q))
      <4>1. CASE DOMAIN playback' = DOMAIN playback \cup ReportRows(batch) /\ dropped' = dropped
        BY Zenon, SMT, <4>1 DEF Stored, Lost, Held
      <4>2. CASE DOMAIN playback' = DOMAIN playback /\ dropped' = dropped \cup ReportRows(batch)
        BY Zenon, SMT, <4>2 DEF Stored, Lost, Held
      <4> QED
        BY Zenon, SMT, <1>4, <4>1, <4>2
    <3> QED
      BY Zenon, SMT, <3>1, <3>2
  <2>3. OnePlace(q)'
    <3>1. code'[q] = code[q]
      BY Zenon, SMT, <1>1
    <3>2. /\ Chan(q)' => ~Stored(q)' /\ ~Lost(q)'
          /\ Stored(q)' => ~Lost(q)'
      BY Zenon, SMT, <2>1, <2>2 DEF OnePlace
    <3>3. code[q] = 201 <=> Chan(q)' \/ Stored(q)' \/ Lost(q)'
      BY Zenon, SMT, <2>1, <2>2 DEF OnePlace
    <3> QED
      BY Zenon, SMT, <2>2, <3>1, <3>2, <3>3 DEF OnePlace
  <2>4. Stored(q)' => playback'[q] = prepareArgs(body[q])
    BY Zenon, SMT, <1>4, <2>1 DEF Stored, PassedChecks
  <2>5. PassedChecks(q)'
    BY Zenon, SMT, <1>1, <2>1, <2>4 DEF PassedChecks
  <2> QED
    BY Zenon, SMT, <2>3, <2>5
<1> QED
  BY Zenon, SMT, <1>2, <1>5, <1>6 DEF WatchInv

\* Every step keeps the invariant.
LEMMA WatchStepInv == WatchInv /\ [WatchmanNext]_watchmanVars => WatchInv'
<1> SUFFICES ASSUME WatchInv, [WatchmanNext]_watchmanVars PROVE WatchInv'
  OBVIOUS
<1>1. CASE UNCHANGED watchmanVars
  <2>1. WatchmanTypeOK'
    BY Zenon, SMT, <1>1 DEF watchmanVars, WatchInv, WatchmanTypeOK
  <2>2. Elsewhere
    BY ZenonT(30), SMTT(60), <1>1 DEF watchmanVars, Elsewhere
  <2> QED
    BY Zenon, SMT, <2>1, <2>2, ElsewhereInv
<1>2. CASE \E r \in Reports : HTTP(r)
  BY Zenon, SMT, <1>2, SendReportInv, OtherStepInv DEF HTTP
<1>3. CASE BatchWriter \/ Stop \/ WatchmanSignal \/ WatchmanExit
  BY Zenon, SMT, <1>3, ReceiveReportInv, WriteInv, OtherStepInv DEF BatchWriter
<1> QED
  BY Zenon, SMT, <1>1, <1>2, <1>3 DEF WatchmanNext

\* A report that was answered 201 is in exactly one place on its way to the table,
\* and what is in the table passed the checks and is as it was reported (Add, Write,
\* Start and prepareArgs).
THEOREM WatchmanSafety == WatchmanSpec => []WatchmanSafe
  BY WatchInitInv, WatchStepInv, WatchInvSafe, PTL DEF WatchmanSpec
=============================================================================
