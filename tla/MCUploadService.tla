---------------------------- MODULE MCUploadService ----------------------------
(***************************************************************************)
(* The parts of the uploads service for TLC, side by side: the service     *)
(* with forklift behind it, the life of its process, the locks in Redis,   *)
(* and the tokens it admits.  No two of these modules share a variable, so *)
(* that a property of one holds when they interleave exactly when it holds *)
(* while the others stand still; part is the one that moves.               *)
(***************************************************************************)
EXTENDS Ingest, UploadsLife, RedisLocker, UploadTokens

CONSTANTS a1, a2, b1, x1, P1, P2, n1, n2

VARIABLE part

uploadServiceVars == <<part, ingestVars, lifeVars, lockerVars, tokensVars>>

\* Three requests for one upload, two of them in the same process, one of
\* these a Notify, and one for another upload.
MCProcessOf(r) == IF r = b1 THEN P2 ELSE P1
MCNameOf(r) == IF r = x1 THEN n2 ELSE n1

\* A client that the API knows by its legacy token.
OneCredential == {[oauth |-> "none", legacy |-> "good"]}

\* A part that stands still does so in one of its initial states.
UploadServiceInit ==
    /\ part \in {"ingest", "life", "locker", "tokens"}
    /\ IngestInit /\ LifeInit /\ New
    /\ (part = "tokens" \/ apiKey = CHOOSE k \in SignKeys : TRUE) /\ TokensInit

UploadServiceNext ==
    \/ part = "ingest" /\ IngestNext /\ UNCHANGED <<part, lifeVars, lockerVars, tokensVars>>
    \/ part = "life" /\ LifeNext /\ UNCHANGED <<part, ingestVars, lockerVars, tokensVars>>
    \/ part = "locker" /\ LockerNext /\ UNCHANGED <<part, ingestVars, lifeVars, tokensVars>>
    \/ part = "tokens" /\ TokensNext /\ UNCHANGED <<part, ingestVars, lifeVars, lockerVars>>

\* The fairness of the modules, for the part that moves.
UploadServiceSpec ==
    /\ UploadServiceInit /\ [][UploadServiceNext]_uploadServiceVars
    /\ \A f \in Files : SF_ingestVars(part = "ingest" /\ CompleteUploads(f) /\ UNCHANGED forkVars)
    /\ WF_ingestVars(part = "ingest" /\ (MarkUploadCompleted \/ MarkUploadCompletedFails) /\ UNCHANGED forkVars)
    /\ WF_ingestVars(part = "ingest" /\ HandOff /\ ~Free("notify") /\ Free("notify")')
    /\ \A t \in TaskIds : WF_ingestVars(part = "ingest" /\ HandleUpload(t))
    /\ WF_lifeVars(part = "life" /\ MainStep) /\ WF_lifeVars(part = "life" /\ TrapStep)
    /\ \A l \in Listeners : WF_lifeVars(part = "life" /\ ListenerStep(l))
    /\ \A r \in Conns : WF_lifeVars(part = "life" /\ Emit(r))
    /\ \A n \in Names : WF_lockerVars(part = "locker" /\ Expire(n))
    /\ \A u \in TokenUsers :
          /\ WF_tokensVars(part = "tokens" /\ Renew(u))
          /\ WF_tokensVars(part = "tokens" /\ TokenPost(u))
          /\ WF_tokensVars(part = "tokens" /\ listenCreated(u))

\* What is begun comes to an end, each part in the behaviours in which it is the
\* one that moves: a complete upload is announced, requests and a signal end, a
\* lock that was left is freed, and a client with a good credential is let in.
UploadServiceEnds ==
    /\ part = "ingest" => CompleteIsAnnounced
    /\ part = "life" => RequestsEnd /\ UploadsSignalEnds
    /\ part = "locker" => LeftKeyFreed
    /\ part = "tokens" => LetIn
================================================================================
