---------------------------- MODULE MCForkliftService ---------------------------
(***************************************************************************)
(* Forklift and the parts around it for TLC, side by side: the handlers,   *)
(* their local files, uploads by URL, the file analyzer, the life of the   *)
(* queue they run in, and watchman.  No two of these modules share a       *)
(* variable, so that a property of one holds when they interleave exactly  *)
(* when it holds while the others stand still; part is the one that moves. *)
(***************************************************************************)
EXTENDS Forklift, ForkFiles, UrlUploads, FileAnalyzer, QueueLife, Watchman

VARIABLE part

serviceVars == <<part, forkliftVars, filesVars, urlVars, analyzerVars, queueVars, watchmanVars>>

\* One URL of each form.
MCForm(u) == CASE u = 11 -> "long" [] u = 12 -> "invalid" [] u = 13 -> "nofile" [] OTHER -> "file"

\* Headers of every kind, and names that agree with them, contradict them, are
\* synonyms, or say nothing.
MCHeaders == {"mp4", "mp3", "jpg", "doc", "zip", "rar"}
MCFileExts == {<<0, "">>, <<1, "">>, <<1, "mp4">>, <<1, "mp3">>, <<1, "md">>, <<1, "cbz">>, <<1, "stl">>, <<1, "xyz">>}
MCMediaStreams == SUBSET {"video", "audio"}

\* A file that is not there.
NoSuchFile ==
    file = "missing" /\ header = Unknown /\ name = [given |-> FALSE, ext |-> NoExt] /\ probe = {"error"}

\* One plain report, and one that is plain or at or beyond a bound.
Plain == Body(FALSE, TRUE, TRUE, 30000, 100, 3, 200)
MCBodies ==
    {Plain, [Plain EXCEPT !.missing = TRUE], [Plain EXCEPT !.lengths = FALSE], [Plain EXCEPT !.enums = FALSE],
     [Plain EXCEPT !.rebuf_count = -1]} \cup
    {Body(FALSE, TRUE, TRUE, d, p, 255, b) :
        d \in {-1, 0, 60000, 60001}, p \in {-1, 0, 100, 101, 300}, b \in {-1, 0, 60000, 60001}}

\* A part that stands still does so in one of its initial states.
ServiceInit ==
    /\ part \in {"handlers", "files", "urls", "analyzer", "queue", "watchman"}
    /\ (part = "handlers" \/ status = [f \in Files |-> "completed"]) /\ ForkliftInit
    /\ (part = "files" \/ kind = "s3") /\ FilesInit
    /\ (part = "urls" \/ notifier = TRUE) /\ UrlInit
    /\ (part = "analyzer" \/ NoSuchFile) /\ AnalyzerInit
    /\ (part = "queue" \/ shut = "never") /\ QueueInit
    /\ WatchmanInit /\ \A r \in Reports : (part = "watchman" /\ r = 1) \/ body[r] = Plain

ServiceNext ==
    \/ /\ part = "handlers" /\ ForkliftNext
       /\ UNCHANGED <<part, filesVars, urlVars, analyzerVars, queueVars, watchmanVars>>
    \/ /\ part = "files" /\ FilesNext
       /\ UNCHANGED <<part, forkliftVars, urlVars, analyzerVars, queueVars, watchmanVars>>
    \/ /\ part = "urls" /\ UrlNext
       /\ UNCHANGED <<part, forkliftVars, filesVars, analyzerVars, queueVars, watchmanVars>>
    \/ /\ part = "analyzer" /\ AnalyzerNext
       /\ UNCHANGED <<part, forkliftVars, filesVars, urlVars, queueVars, watchmanVars>>
    \/ /\ part = "queue" /\ QueueNext
       /\ UNCHANGED <<part, forkliftVars, filesVars, urlVars, analyzerVars, watchmanVars>>
    \/ /\ part = "watchman" /\ WatchmanNext
       /\ UNCHANGED <<part, forkliftVars, filesVars, urlVars, analyzerVars, queueVars>>

ServiceSpec == ServiceInit /\ [][ServiceNext]_serviceVars

\* The fairness of the modules, for the part that moves.
ServiceFairSpec ==
    /\ ServiceSpec
    /\ \A u \in Incoming : SF_forkliftVars(part = "handlers" /\ \E w \in Workers : StartUpload(w, u))
    /\ \A w \in Workers : WF_forkliftVars(part = "handlers" /\ (Process(w) \/ Announce(w)))
    /\ \A a \in Attempts : WF_filesVars(part = "files" /\ Handle(a))
    /\ \A r \in Posts : WF_urlVars(part = "urls" /\ (CreateURL(r) \/ URLReceived(r) \/ NilNotifier(r)))
    /\ WF_urlVars(part = "urls" /\ \E m \in queue : UrlWork(m))
    /\ WF_queueVars(part = "queue" /\ (Build \/ ServeUntilShutdown \/ Run))
    /\ WF_queueVars(part = "queue" /\ QueueExit)
    /\ WF_queueVars(part = "queue" /\ (Drained \/ Aborted))
    /\ WF_queueVars(part = "queue" /\ (ShutClients \/ ShutServer \/ ShutReturns))
    /\ WF_queueVars(part = "queue" /\ TickerEnds)
    /\ \A t \in Tasks : /\ WF_queueVars(part = "queue" /\ Take(t))
                        /\ WF_queueVars(part = "queue" /\ (Work(t) \/ QueueResponse(t) \/ Done(t)))
    /\ \A r \in Reports : WF_watchmanVars(part = "watchman" /\ HTTP(r))
    /\ WF_watchmanVars(part = "watchman" /\ ReceiveReport)
    /\ SF_watchmanVars(part = "watchman" /\ Tick)
    /\ WF_watchmanVars(part = "watchman" /\ (WriteBatch \/ WriteBatchFails))

\* What is begun comes to an end, each part in the behaviours in which it is the
\* one that moves: tasks are settled and their handlers return, a signal and a
\* Shutdown end the queue, and accepted reports are written.
ForkliftServiceEnds ==
    /\ part = "handlers" => UploadsSettle
    /\ part = "files" => HandlersReturn
    /\ part = "urls" => UrlIsSettled
    /\ part = "queue" => JobsSettle /\ QueueSignalEnds /\ ShutdownReturns /\ MetricsStop
    /\ part = "watchman" => AcceptedIsStored
=================================================================================
