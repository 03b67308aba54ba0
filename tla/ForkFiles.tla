------------------------------- MODULE ForkFiles -------------------------------
(***************************************************************************)
(* The local files of forklift's handlers (apps/forklift/forklift.go,      *)
(* apps/forklift/retriever.go, pkg/blobs/blobs.go).  All attempts to       *)
(* process an upload use the same two names: a download named after the    *)
(* upload, and a directory of blobs named after the download.  The module  *)
(* follows the attempts of one process for one upload.                     *)
(*                                                                         *)
(* asynq gives a task to one handler at a time.  A second one joins it     *)
(* when the task's deadline (24 hours) has passed while the handler, which *)
(* does not look at its context, goes on, or when retry-complete hands off *)
(* an upload that is being processed: Overlap.                             *)
(***************************************************************************)
EXTENDS Naturals, FiniteSets

CONSTANTS
    Attempts,      \* bound: calls of HandleUpload or HandleURL
    Chunks,        \* parts of the file; each makes one blob
    Overlap,       \* attempts may run at the same time
    NoDownload

ASSUME ForkFilesAssumption ==
    Attempts \subseteq Nat /\ Overlap \in BOOLEAN /\ NoDownload \notin Attempts

VARIABLES
    kind,          \* an upload in S3 or a URL
    source,        \* the source is there
    stage,         \* where each attempt is
    download,      \* the file of that name: the attempt that created it, or NoDownload
    open,          \* the file each attempt has open
    got,           \* chunks each attempt has written to its file
    content,       \* chunks in each file
    encoded,       \* the chunks that went into the stream of each attempt
    dir,           \* blobs in the directory: pairs of a stream and a chunk
    list,          \* blobs the uploader of an attempt has found and not stored
    stored,        \* blobs in the blob store
    sentBy         \* attempts that sent forklift:upload:done

filesVars == <<kind, source, stage, download, open, got, content, encoded, dir, list, stored, sentBy>>

Blobs == Attempts \X (Chunks \cup {0})

\* Types of the state; a handler past its uploader has no blob left to store.
FilesTypeOK ==
    /\ kind \in {"s3", "url"} /\ source \in BOOLEAN
    /\ stage \in [Attempts -> {"idle", "create", "retrieve", "analyze", "split", "encode", "stat",
                            "upload", "send", "delete", "clean", "remove", "returned", "crashed"}]
    /\ download \in Attempts \cup {NoDownload}
    /\ open \in [Attempts -> Attempts \cup {NoDownload}]
    /\ got \in [Attempts -> SUBSET Chunks] /\ content \in [Attempts -> SUBSET Chunks]
    /\ encoded \in [Attempts -> SUBSET Chunks]
    /\ dir \subseteq Blobs /\ stored \subseteq Blobs
    /\ list \in [Attempts -> SUBSET Blobs]
    /\ \A a \in Attempts : stage[a] \in {"send", "delete"} => list[a] = {}
    /\ sentBy \subseteq Attempts

FilesInit ==
    /\ kind \in {"s3", "url"} /\ source = TRUE
    /\ stage = [a \in Attempts |-> "idle"]
    /\ download = NoDownload
    /\ open = [a \in Attempts |-> NoDownload]
    /\ got = [a \in Attempts |-> {}] /\ content = [a \in Attempts |-> {}]
    /\ encoded = [a \in Attempts |-> {}]
    /\ dir = {} /\ stored = {} /\ list = [a \in Attempts |-> {}]
    /\ sentBy = {}

Proceed(a, l) == stage' = [stage EXCEPT ![a] = l]
Ended == {"idle", "returned", "crashed"}

-----------------------------------------------------------------------------

\* A handler begins; HTTPRetriever asks for the remote file before it creates
\* its own.
Begin(a) ==
    /\ stage[a] = "idle"
    /\ Overlap \/ \A b \in Attempts : stage[b] \in Ended
    /\ \A b \in Attempts : b < a => stage[b] # "idle"
    /\ Proceed(a, "create")
    /\ UNCHANGED <<kind, source, download, open, got, content, encoded, dir, list, stored, sentBy>>

\* The remote server does not answer 200: there is no file yet.
RequestFails(a) ==
    /\ stage[a] = "create" /\ kind = "url"
    /\ Proceed(a, "returned")
    /\ UNCHANGED <<kind, source, download, open, got, content, encoded, dir, list, stored, sentBy>>

\* Mutant of CreateFile: a file that is there is kept as it is.
CreateFileKeeps(a) ==
    /\ stage[a] = "create"
    /\ Proceed(a, IF download = NoDownload THEN "retrieve" ELSE "analyze")
    /\ IF download = NoDownload
       THEN download' = a /\ open' = [open EXCEPT ![a] = a]
       ELSE open' = [open EXCEPT ![a] = download] /\ UNCHANGED download
    /\ UNCHANGED <<kind, source, got, content, encoded, dir, list, stored, sentBy>>

\* os.Create makes the file or empties the one of that name.
CreateFile(a) ==
    /\ stage[a] = "create"
    /\ Proceed(a, "retrieve")
    /\ IF download = NoDownload
       THEN /\ download' = a /\ open' = [open EXCEPT ![a] = a]
            /\ UNCHANGED content
       ELSE /\ open' = [open EXCEPT ![a] = download]
            /\ content' = [content EXCEPT ![download] = {}]
            /\ UNCHANGED download
    /\ UNCHANGED <<kind, source, got, encoded, dir, list, stored, sentBy>>

\* The parts of an S3 object arrive in any order.
WriteChunk(a, c) ==
    /\ stage[a] = "retrieve" /\ source /\ c \notin got[a]
    /\ got' = [got EXCEPT ![a] = @ \cup {c}]
    /\ content' = [content EXCEPT ![open[a]] = @ \cup {c}]
    /\ UNCHANGED <<kind, source, stage, download, open, encoded, dir, list, stored, sentBy>>

\* Every part was written.  What another attempt has emptied since is gone.
Retrieved(a) ==
    /\ stage[a] = "retrieve" /\ got[a] = Chunks
    /\ Proceed(a, "analyze")
    /\ UNCHANGED <<kind, source, download, open, got, content, encoded, dir, list, stored, sentBy>>

\* An error on the way, or an empty remote file: the name is removed.
RetrieveFails(a) ==
    /\ stage[a] = "retrieve"
    /\ download' = NoDownload
    /\ Proceed(a, "returned")
    /\ UNCHANGED <<kind, source, open, got, content, encoded, dir, list, stored, sentBy>>

\* Analyze reads the header of the file of that name.
AnalyzeFile(a) ==
    /\ stage[a] = "analyze"
    /\ Proceed(a, IF download # NoDownload /\ content[download] # {} THEN "split" ELSE "clean")
    /\ UNCHANGED <<kind, source, download, open, got, content, encoded, dir, list, stored, sentBy>>

\* Split opens the file by its name.
OpenSource(a) ==
    /\ stage[a] = "split"
    /\ open' = [open EXCEPT ![a] = download]
    /\ Proceed(a, IF download = NoDownload THEN "clean" ELSE "encode")
    /\ UNCHANGED <<kind, source, download, got, content, encoded, dir, list, stored, sentBy>>

BlobsOf(a) == {a} \X (encoded[a] \cup {0})

\* It makes the directory and writes a blob for each chunk it reads,
WriteBlob(a) ==
    /\ stage[a] = "encode"
    /\ \E c \in content[open[a]] \ encoded[a] :
          /\ \A d \in content[open[a]] \ encoded[a] : c <= d
          /\ encoded' = [encoded EXCEPT ![a] = @ \cup {c}]
          /\ dir' = dir \cup {<<a, c>>}
    /\ UNCHANGED <<kind, source, stage, download, open, got, content, list, stored, sentBy>>

\* and the sd blob at the end of the file.
SplitFile(a) ==
    /\ stage[a] = "encode" /\ content[open[a]] \subseteq encoded[a]
    /\ dir' = dir \cup {<<a, 0>>}
    /\ Proceed(a, "stat")
    /\ UNCHANGED <<kind, source, download, open, got, content, encoded, list, stored, sentBy>>

\* Upload: the directory is there, and is listed.
ListBlobs(a) ==
    /\ stage[a] = "stat"
    /\ list' = [list EXCEPT ![a] = dir]
    /\ Proceed(a, IF dir = {} THEN "clean" ELSE "upload")
    /\ UNCHANGED <<kind, source, download, open, got, content, encoded, dir, stored, sentBy>>

StoreBlob(a) ==
    /\ stage[a] = "upload"
    /\ \E b \in list[a] \cap dir :
          stored' = stored \cup {b} /\ list' = [list EXCEPT ![a] = @ \ {b}]
    /\ UNCHANGED <<kind, source, stage, download, open, got, content, encoded, dir, sentBy>>

\* summary.Err is zero.
Uploaded(a) ==
    /\ stage[a] = "upload" /\ list[a] = {}
    /\ Proceed(a, "send")
    /\ UNCHANGED <<kind, source, download, open, got, content, encoded, dir, list, stored, sentBy>>

\* A blob can not be read or stored; analysis, encoding or the row fail.
StepFails(a) ==
    /\ stage[a] \in {"analyze", "split", "encode", "upload", "send"}
    /\ Proceed(a, "clean")
    /\ UNCHANGED <<kind, source, download, open, got, content, encoded, dir, list, stored, sentBy>>

\* MarkUploadProcessed and SendResponse, which may fail; HandleUpload goes on
\* to its deferred deletion, HandleURL has none.
AnnounceFile(a, ok) ==
    /\ stage[a] = "send"
    /\ sentBy' = IF ok THEN sentBy \cup {a} ELSE sentBy
    /\ Proceed(a, IF kind = "s3" THEN "delete" ELSE "clean")
    /\ UNCHANGED <<kind, source, download, open, got, content, encoded, dir, list, stored>>

DeleteSource(a) ==
    /\ stage[a] = "delete"
    /\ source' \in {FALSE, source}
    /\ Proceed(a, "clean")
    /\ UNCHANGED <<kind, download, open, got, content, encoded, dir, list, stored, sentBy>>

\* The deferred calls: the directory of blobs, then the download.
RemoveBlobs(a) ==
    /\ stage[a] = "clean"
    /\ dir' = {}
    /\ Proceed(a, "remove")
    /\ UNCHANGED <<kind, source, download, open, got, content, encoded, list, stored, sentBy>>

\* Mutant of Cleanup: the download stays.
CleanupForgets(a) ==
    /\ stage[a] = "remove"
    /\ Proceed(a, "returned")
    /\ UNCHANGED <<kind, source, download, open, got, content, encoded, dir, list, stored, sentBy>>

Cleanup(a) ==
    /\ stage[a] = "remove"
    /\ download' = NoDownload
    /\ Proceed(a, "returned")
    /\ UNCHANGED <<kind, source, open, got, content, encoded, dir, list, stored, sentBy>>

\* The process dies and comes back: every attempt ends, the files stay.
FilesCrash ==
    /\ \E a \in Attempts : stage[a] \notin Ended
    /\ stage' = [a \in Attempts |-> IF stage[a] \in Ended THEN stage[a] ELSE "crashed"]
    /\ UNCHANGED <<kind, source, download, open, got, content, encoded, dir, list, stored, sentBy>>

Handle(a) ==
    \/ RequestFails(a) \/ CreateFile(a) \/ (\E c \in Chunks : WriteChunk(a, c))
    \/ Retrieved(a) \/ RetrieveFails(a) \/ AnalyzeFile(a) \/ OpenSource(a)
    \/ WriteBlob(a) \/ SplitFile(a) \/ ListBlobs(a) \/ StoreBlob(a) \/ Uploaded(a) \/ StepFails(a)
    \/ (\E ok \in BOOLEAN : AnnounceFile(a, ok)) \/ DeleteSource(a) \/ RemoveBlobs(a) \/ Cleanup(a)

FilesNext == (\E a \in Attempts : Begin(a) \/ Handle(a)) \/ FilesCrash
FilesSpec == FilesInit /\ [][FilesNext]_filesVars

\* A handler that runs gets on.
FilesFairSpec == FilesSpec /\ \A a \in Attempts : WF_filesVars(Handle(a))

-----------------------------------------------------------------------------

\* A stream that is announced has the whole file in it, and all its blobs are
\* in the store, whatever earlier attempts left in the two places.
AnnouncedIsWhole ==
    \A a \in sentBy : encoded[a] = Chunks /\ BlobsOf(a) \subseteq stored

\* A handler that returns leaves nothing in the directories of the service,
\* and one that got to its announcement has removed what crashed ones left
\* (the deferred calls of HandleUpload and HandleURL).
NothingLeft ==
    \A a \in Attempts :
        /\ stage[a] = "returned" /\ \A b \in Attempts : b > a => stage[b] = "idle"
        /\ a \in sentBy \/ \A b \in Attempts : stage[b] # "crashed"
        => download = NoDownload /\ dir = {}

\* The source of an upload is deleted by a handler that has stored the whole
\* file.
DeletedIsStored ==
    ~source => \E a \in Attempts : encoded[a] = Chunks /\ BlobsOf(a) \subseteq stored

\* What the attempts of a task promise about its files: each line is stated above.
FilesSafe ==
    /\ FilesTypeOK
    /\ AnnouncedIsWhole
    /\ DeletedIsStored
    /\ NothingLeft

\* Every handler returns, or its process dies.
HandlersReturn == \A a \in Attempts : stage[a] \notin Ended ~> stage[a] \in Ended
=============================================================================
