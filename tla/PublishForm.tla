----------------------------- MODULE PublishForm -----------------------------
(***************************************************************************)
(* Publishing v1 (app/publish/publish.go): a form with a file, or with a   *)
(* URL the file is fetched from, saved in a directory of its own, given to *)
(* the SDK by its path and removed when Handle returns.                    *)
(***************************************************************************)
EXTENDS Naturals, FiniteSets

CONSTANTS
    Forms,
    fetchTryLimit,     \* fetches of Handle
    defaultRetryMax    \* HTTP retries of one fetch

ASSUME FormAssumption == fetchTryLimit \in Nat \ {0} /\ defaultRetryMax \in Nat

VARIABLES
    remote,        \* whether the form has a remote_url
    formAt,
    tries,         \* Handle: fetches so far
    attempts,      \* HTTP requests of the present fetch
    asked,         \* all HTTP requests sent to the remote server
    dirs,          \* directories of the request on the disk, by the try that made them
    formFile,      \* what the present file holds
    answer

formVars == <<remote, formAt, tries, attempts, asked, dirs, formFile, answer>>

FormPlaces == {"start", "get", "copy", "save", "check", "decode", "call", "cleanup", "done"}
Answers == {"none", "ok", "sdk error", "error"}

FormTypeOK ==
    /\ remote \in [Forms -> BOOLEAN]
    /\ formAt \in [Forms -> FormPlaces]
    /\ tries \in [Forms -> 1 .. fetchTryLimit + 1]
    /\ attempts \in [Forms -> 0 .. defaultRetryMax + 1]
    /\ asked \in [Forms -> Nat]
    /\ dirs \in [Forms -> SUBSET (1 .. fetchTryLimit)]
    /\ formFile \in [Forms -> {"none", "partial", "whole"}]
    /\ answer \in [Forms -> Answers]

\* Requests CanHandle accepts, of users with an SDK address.
FormInit ==
    /\ remote \in [Forms -> BOOLEAN]
    /\ formAt = [r \in Forms |-> "start"]
    /\ tries = [r \in Forms |-> 1]
    /\ attempts = [r \in Forms |-> 0]
    /\ asked = [r \in Forms |-> 0]
    /\ dirs = [r \in Forms |-> {}]
    /\ formFile = [r \in Forms |-> "none"]
    /\ answer = [r \in Forms |-> "none"]

FormGoTo(r, p) == formAt' = [formAt EXCEPT ![r] = p]
SetFile(r, f) == formFile' = [formFile EXCEPT ![r] = f]
SetAnswer(r, a) == answer' = [answer EXCEPT ![r] = a]

-----------------------------------------------------------------------------

\* The user is not authenticated, has no SDK address, or the form can not be
\* parsed (RequestError).
Refuse(r) ==
    /\ formAt[r] = "start" /\ tries[r] = 1
    /\ FormGoTo(r, "done") /\ SetAnswer(r, "error")
    /\ UNCHANGED <<remote, tries, attempts, asked, dirs, formFile>>

\* fetchFile as far as its first request, or ErrEmptyRemoteURL and saveFile.
StartFetch(r) ==
    /\ formAt[r] = "start"
    /\ FormGoTo(r, IF remote[r] THEN "get" ELSE "save")
    /\ attempts' = [attempts EXCEPT ![r] = 0]
    /\ UNCHANGED <<remote, tries, asked, dirs, formFile, answer>>

\* Handle after a FetchError: again from the label retry, or give up.
Refetch(r) ==
    /\ tries' = [tries EXCEPT ![r] = @ + 1]
    /\ IF tries[r] + 1 > fetchTryLimit
       THEN FormGoTo(r, "done") /\ SetAnswer(r, "error")
       ELSE FormGoTo(r, "start") /\ UNCHANGED answer

\* How an HTTP request can end.
Outcomes == {"200", "404", "500", "501", "connection", "redirects", "scheme", "tls", "lookup"}

\* retryPolicy (the context of these requests is never done).
retryPolicy(o) == o \in {"connection", "500"}

\* retryablehttp Do, one request: a try again inside, a FetchError, or a body.
FormGet(r) ==
    /\ formAt[r] = "get"
    /\ asked' = [asked EXCEPT ![r] = @ + 1]
    /\ \E o \in Outcomes :
          \/ /\ retryPolicy(o) /\ attempts[r] < defaultRetryMax
             /\ attempts' = [attempts EXCEPT ![r] = @ + 1]
             /\ UNCHANGED <<formAt, tries, answer>>
          \/ /\ ~(retryPolicy(o) /\ attempts[r] < defaultRetryMax) /\ o # "200"
             /\ Refetch(r) /\ UNCHANGED attempts
          \/ o = "200" /\ FormGoTo(r, "copy") /\ UNCHANGED <<attempts, tries, answer>>
    /\ UNCHANGED <<remote, dirs, formFile>>

\* The URL can not be parsed or names no file: a FetchError as well.
BadURL(r) ==
    /\ formAt[r] = "get" /\ attempts[r] = 0
    /\ Refetch(r)
    /\ UNCHANGED <<remote, attempts, asked, dirs, formFile>>

\* createFile: a fresh directory, which a failure may leave behind or not make.
createFile(r) == dirs' = [dirs EXCEPT ![r] = @ \cup {tries[r]}]

\* Mutant of CopyFails: the part that came is taken for the file.
CopyFailsSilently(r) ==
    /\ formAt[r] = "copy"
    /\ createFile(r) /\ SetFile(r, "partial")
    /\ FormGoTo(r, "check")
    /\ UNCHANGED <<remote, tries, attempts, asked, answer>>

\* fetchFile, the body breaks off, is empty or can not be stored: the
\* directory stays.
CopyFails(r) ==
    /\ formAt[r] = "copy"
    /\ \/ createFile(r)
       \/ UNCHANGED dirs
    /\ Refetch(r)
    /\ UNCHANGED <<remote, attempts, asked, formFile>>

Copy(r) ==
    /\ formAt[r] = "copy"
    /\ createFile(r) /\ SetFile(r, "whole")
    /\ FormGoTo(r, "check")
    /\ UNCHANGED <<remote, tries, attempts, asked, answer>>

\* saveFile, with the file of the form.
SaveFile(r) ==
    /\ formAt[r] = "save"
    /\ \/ createFile(r) /\ SetFile(r, "whole") /\ FormGoTo(r, "check") /\ UNCHANGED answer
       \/ /\ createFile(r) \/ UNCHANGED dirs
          /\ FormGoTo(r, "done") /\ SetAnswer(r, "error") /\ UNCHANGED formFile
    /\ UNCHANGED <<remote, tries, attempts, asked>>

\* ctx.Done: fetchTimeout has passed in this try, or the client is gone. The
\* removal of the file is not deferred yet.
TimedOut(r) ==
    /\ formAt[r] = "check"
    /\ FormGoTo(r, "done") /\ SetAnswer(r, "error")
    /\ UNCHANGED <<remote, tries, attempts, asked, dirs, formFile>>

InTime(r) ==
    /\ formAt[r] = "check"
    /\ FormGoTo(r, "decode")
    /\ UNCHANGED <<remote, tries, attempts, asked, dirs, formFile, answer>>

\* The request is not JSON or has no params; or the call is prepared, with the
\* path of the file set by the hook of getCaller.
FormDecode(r) ==
    /\ formAt[r] = "decode"
    /\ \/ FormGoTo(r, "cleanup") /\ SetAnswer(r, "error")
       \/ FormGoTo(r, "call") /\ UNCHANGED answer
    /\ UNCHANGED <<remote, tries, attempts, asked, dirs, formFile>>

\* The SDK reads the file and answers, or the call fails.
FormCall(r) ==
    /\ formAt[r] = "call"
    /\ \E a \in Answers \ {"none"} : SetAnswer(r, a)
    /\ FormGoTo(r, "cleanup")
    /\ UNCHANGED <<remote, tries, attempts, asked, dirs, formFile>>

\* The deferred removal of the directory of the file; its failure is reported.
RemoveFile(r) ==
    /\ formAt[r] = "cleanup"
    /\ dirs' = [dirs EXCEPT ![r] = @ \ {tries[r]}]
    /\ SetFile(r, "none")
    /\ FormGoTo(r, "done")
    /\ UNCHANGED <<remote, tries, attempts, asked, answer>>

Handle(r) ==
    \/ Refuse(r) \/ StartFetch(r) \/ FormGet(r) \/ BadURL(r) \/ CopyFails(r) \/ Copy(r) \/ SaveFile(r)
    \/ TimedOut(r) \/ InTime(r) \/ FormDecode(r) \/ FormCall(r) \/ RemoveFile(r)

FormNext == \E r \in Forms : Handle(r)
FormSpec == FormInit /\ [][FormNext]_formVars
\* A request is served by one goroutine, and every HTTP call has a timeout.
FormFairSpec == FormSpec /\ \A r \in Forms : WF_formVars(Handle(r))

-----------------------------------------------------------------------------

\* What the SDK is given is a whole file, in a directory that exists while the
\* call lasts: never the part an earlier fetch got.
CallHasFile ==
    \A r \in Forms : formAt[r] = "call" => formFile[r] = "whole" /\ tries[r] \in dirs[r]

\* A remote server is asked a bounded number of times for one request,
\* whatever it answers.
RemoteAskedBounded ==
    \A r \in Forms : asked[r] <= fetchTryLimit * (defaultRetryMax + 1)

\* What a request leaves on the disk comes from fetches that failed: the
\* directory of the file it published is gone when Handle has returned.
LeftoversOnlyOfFailures ==
    \A r \in Forms : formAt[r] = "done" /\ answer[r] \in {"ok", "sdk error"} =>
        Cardinality(dirs[r]) < tries[r] /\ tries[r] \notin dirs[r]

\* What publish v1 promises about a request, its remote file and the disk: each line is
\* stated above.
FormSafe ==
    /\ FormTypeOK
    /\ CallHasFile
    /\ RemoteAskedBounded
    /\ LeftoversOnlyOfFailures

\* Every request is answered.
EveryFormAnswered == \A r \in Forms : <>(answer[r] # "none")
=============================================================================
