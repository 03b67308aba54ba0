------------------------------- MODULE UrlUploads -------------------------------
(***************************************************************************)
(* Uploads by URL: PostURL of the uploads service (apps/uploads/uploads.go,*)
(* payload.go, database/queries.sql.go), the queue, and HandleURL of       *)
(* forklift, which downloads the file and announces the stream.  A request *)
(* r stands for the identifier that Bind generates for it.                 *)
(***************************************************************************)
EXTENDS Naturals, FiniteSets

CONSTANTS
    Posts,         \* bound: calls of PostURL
    Users, PostedUrls,
    Form(_),       \* what Bind makes of a URL: "long", "invalid", "nofile" or "file"
    UrlRetry       \* bound of the queue's retries (10 in URLReceived)

ASSUME UrlUploadsAssumption ==
    /\ UrlRetry \in Nat
    /\ \A u \in PostedUrls : Form(u) \in {"long", "invalid", "nofile", "file"}

VARIABLES
    req,           \* requests: where they are, who sent them, with which URL
    urls,          \* the table: identifier -> row
    queue,         \* messages of type forklift:url:incoming, with the retries made
    handling,      \* the identifiers HandleURL is at work on, and how far it is
    archived,      \* messages given up
    urlsDone,      \* identifiers and users of forklift:upload:done
    notifier       \* the service was given a Redis URL

urlVars == <<notifier, req, urls, queue, handling, archived, urlsDone>>

NoRow == [user |-> 0, url |-> 0, status |-> "none"]
UrlRows == [user : Users, url : PostedUrls, status : {"created", "downloaded", "processed"}]
Messages == [id : Posts, user : Users, url : PostedUrls, retried : 0..UrlRetry]
Answers == {"bad", "internal", "aborted", "created"}

\* Types of the state.  A row is there once its request is past CreateURL.
UrlTypeOK ==
    /\ req \in [Posts -> [at : {"idle", "bound", "recorded"} \cup Answers,
                             user : Users \cup {0}, url : PostedUrls \cup {0}]]
    /\ urls \in [Posts -> UrlRows \cup {NoRow}]
    /\ queue \subseteq Messages /\ archived \subseteq Messages
    /\ handling \in [queue -> {"waiting", "retrieve", "split", "mark", "send"}]
    /\ urlsDone \subseteq Posts \X Users /\ notifier \in BOOLEAN
    /\ \A r \in Posts : req[r].at \in {"recorded", "aborted", "created"} => urls[r] # NoRow

UrlInit ==
    /\ req = [r \in Posts |-> [at |-> "idle", user |-> 0, url |-> 0]]
    /\ urls = [r \in Posts |-> NoRow]
    /\ queue = {} /\ handling = [m \in queue |-> "waiting"]
    /\ archived = {} /\ urlsDone = {}
    /\ notifier \in BOOLEAN

-----------------------------------------------------------------------------

\* At most MaxURLLength bytes, an absolute URL, a path that ends in a name.
Bind(u) == Form(u) = "file"

Post(r, user, u) ==
    /\ req[r].at = "idle"
    /\ req' = [req EXCEPT ![r] = [at |-> IF Bind(u) THEN "bound" ELSE "bad", user |-> user, url |-> u]]
    /\ UNCHANGED <<notifier, urls, queue, handling, archived, urlsDone>>

\* The random source of generateURLUID fails.
NoUID(r, user, u) ==
    /\ req[r].at = "idle" /\ Bind(u)
    /\ req' = [req EXCEPT ![r] = [at |-> "bad", user |-> user, url |-> u]]
    /\ UNCHANGED <<notifier, urls, queue, handling, archived, urlsDone>>

Row(r) == [user |-> req[r].user, url |-> req[r].url, status |-> "created"]

\* INSERT INTO urls: done; failed; or done, and its answer lost.
CreateURL(r) ==
    /\ req[r].at = "bound"
    /\ \/ urls' = [urls EXCEPT ![r] = Row(r)] /\ req' = [req EXCEPT ![r].at = "recorded"]
       \/ UNCHANGED urls /\ req' = [req EXCEPT ![r].at = "internal"]
       \/ urls' = [urls EXCEPT ![r] = Row(r)] /\ req' = [req EXCEPT ![r].at = "internal"]
    /\ UNCHANGED <<notifier, queue, handling, archived, urlsDone>>

UrlMessage(r) == [id |-> r, user |-> req[r].user, url |-> req[r].url, retried |-> 0]

Enqueue(m) ==
    /\ queue' = queue \cup {m}
    /\ handling' = [n \in queue \cup {m} |-> IF n = m THEN "waiting" ELSE handling[n]]

\* Mutant of URLReceived: the error is only logged.
URLReceivedAnyway(r) ==
    /\ req[r].at = "recorded" /\ notifier
    /\ \/ Enqueue(UrlMessage(r))
       \/ UNCHANGED <<queue, handling>>
    /\ req' = [req EXCEPT ![r].at = "created"]
    /\ UNCHANGED <<notifier, urls, archived, urlsDone>>

\* SendRequest: done; failed; or done, and its answer lost.
URLReceived(r) ==
    /\ req[r].at = "recorded" /\ notifier
    /\ \/ Enqueue(UrlMessage(r)) /\ req' = [req EXCEPT ![r].at = "created"]
       \/ UNCHANGED <<queue, handling>> /\ req' = [req EXCEPT ![r].at = "bad"]
       \/ Enqueue(UrlMessage(r)) /\ req' = [req EXCEPT ![r].at = "bad"]
    /\ UNCHANGED <<notifier, urls, archived, urlsDone>>

\* Without a notifier PostURL panics, and net/http drops the connection.
NilNotifier(r) ==
    /\ req[r].at = "recorded" /\ ~notifier
    /\ req' = [req EXCEPT ![r].at = "aborted"]
    /\ UNCHANGED <<notifier, urls, queue, handling, archived, urlsDone>>

-----------------------------------------------------------------------------

Deliver(m) ==
    /\ handling[m] = "waiting"
    /\ handling' = [handling EXCEPT ![m] = "retrieve"]
    /\ UNCHANGED <<notifier, req, urls, queue, archived, urlsDone>>

\* Retrieve, Analyze, Split and Upload of HandleURL go well.
HandleURL(m) ==
    /\ handling[m] \in {"retrieve", "split"}
    /\ handling' = [handling EXCEPT ![m] = IF @ = "retrieve" THEN "split" ELSE "mark"]
    /\ UNCHANGED <<notifier, req, urls, queue, archived, urlsDone>>

\* UPDATE uploads ... WHERE id = $1: no row of that table has the identifier,
\* which is no error, and the row in urls stays as it is.
MarkUrlProcessed(m) ==
    /\ handling[m] = "mark"
    /\ handling' = [handling EXCEPT ![m] = "send"]
    /\ UNCHANGED <<notifier, req, urls, queue, archived, urlsDone>>

Drop(m) ==
    /\ queue' = queue \ {m}
    /\ handling' = [n \in queue \ {m} |-> handling[n]]

\* forklift:upload:done is sent and the task is done.
SendUrlResponse(m) ==
    /\ handling[m] = "send"
    /\ urlsDone' = urlsDone \cup {<<m.id, m.user>>}
    /\ Drop(m)
    /\ UNCHANGED <<notifier, req, urls, archived>>

\* asynq: the task comes again, or is archived.
Again(m) ==
    LET again == [m EXCEPT !.retried = @ + 1]
    IN  IF m.retried < UrlRetry
        THEN /\ queue' = (queue \ {m}) \cup {again}
             /\ handling' = [n \in queue' |-> IF n = again THEN "waiting" ELSE handling[n]]
             /\ UNCHANGED archived
        ELSE archived' = archived \cup {m} /\ Drop(m)

\* A step of HandleURL failed, or the process died.
Retry(m) ==
    /\ handling[m] # "waiting"
    /\ Again(m)
    /\ UNCHANGED <<notifier, req, urls, urlsDone>>

\* The announcement got through, but its answer or that of the task was lost.
SentAndRetried(m) ==
    /\ handling[m] = "send"
    /\ urlsDone' = urlsDone \cup {<<m.id, m.user>>}
    /\ Again(m)
    /\ UNCHANGED <<notifier, req, urls>>

Request(r) ==
    \/ \E user \in Users, u \in PostedUrls : Post(r, user, u) \/ NoUID(r, user, u)
    \/ CreateURL(r) \/ URLReceived(r) \/ NilNotifier(r)
UrlWork(m) ==
    Deliver(m) \/ HandleURL(m) \/ MarkUrlProcessed(m) \/ SendUrlResponse(m) \/ Retry(m) \/ SentAndRetried(m)

UrlNext == (\E r \in Posts : Request(r)) \/ (\E m \in queue : UrlWork(m))
UrlSpec == UrlInit /\ [][UrlNext]_urlVars

\* The queue delivers, handlers get on, PostURL runs to its end.
UrlFairSpec ==
    /\ UrlSpec
    /\ \A r \in Posts : WF_urlVars(CreateURL(r) \/ URLReceived(r) \/ NilNotifier(r))
    /\ WF_urlVars(\E m \in queue : UrlWork(m))

-----------------------------------------------------------------------------

\* Where the upload of a request can be.
Under(r) == {m \in queue \cup archived : m.id = r}

\* A request that was answered with 201 has its row, and forklift has it, has
\* announced it or has given it up (PostURL returns at the first error).
UrlIsHandedOff ==
    \A r \in Posts :
        req[r].at = "created" => Under(r) # {} \/ \E u \in Users : <<r, u>> \in urlsDone

\* What forklift works on and announces belongs to the user who sent the URL,
\* and to a row with a file name in its URL.
AnnouncedToOwner ==
    /\ \A m \in queue \cup archived : urls[m.id].user = m.user /\ urls[m.id].url = m.url
    /\ \A d \in urlsDone : urls[d[1]].user = d[2] /\ Form(urls[d[1]].url) = "file"

\* What an upload by URL promises to its sender: each line is stated above.
UrlsSafe ==
    /\ UrlTypeOK
    /\ UrlIsHandedOff
    /\ AnnouncedToOwner

\* An upload that was accepted is announced or given up.
UrlIsSettled ==
    \A r \in Posts :
        req[r].at = "created" ~>
            (\E m \in archived : m.id = r) \/ (\E u \in Users : <<r, u>> \in urlsDone)
=============================================================================
