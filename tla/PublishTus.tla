------------------------------ MODULE PublishTus ------------------------------
(***************************************************************************)
(* Publishing v2 (app/publish/tus.go): a tus upload, and Notify, which     *)
(* moves the file, calls the SDK while the client waits, and removes the   *)
(* file afterwards. The lock of the upload may expire during the call, so  *)
(* that two Notify requests for one upload can be in the handler.          *)
(***************************************************************************)
EXTENDS Naturals, FiniteSets

CONSTANTS
    Requests,      \* Notify requests
    TusUsers,
    UserOf(_),     \* who sends a request
    None

ASSUME TusAssumption == \A r \in Requests : UserOf(r) \in TusUsers

VARIABLES
    complete,      \* Offset = Size
    orig,          \* the file is where tusd wrote it
    moved,         \* directories of users that hold the file
    tusInfo,       \* the .info file exists
    lock,          \* the request that holds the lock
    pc,
    tusCalls,      \* calls the SDK has begun
    tusAnswered,   \* requests whose call the SDK answered, and how
    reply          \* answers to the clients

tusVars == <<complete, orig, moved, tusInfo, lock, pc, tusCalls, tusAnswered, reply>>

Places == {"idle", "lock", "rename", "decode", "call", "remove", "cleanup", "unlock", "done"}
Replies == {"none", "error", "response"}

TusTypeOK ==
    /\ complete \in BOOLEAN /\ orig \in BOOLEAN /\ tusInfo \in BOOLEAN
    /\ moved \subseteq TusUsers
    /\ lock \in Requests \cup {None}
    /\ pc \in [Requests -> Places]
    /\ tusCalls \subseteq Requests /\ tusAnswered \subseteq tusCalls
    /\ reply \in [Requests -> Replies]

\* PostFile has made both files.
TusInit ==
    /\ complete = FALSE /\ orig = TRUE /\ moved = {} /\ tusInfo = TRUE
    /\ lock = None
    /\ pc = [r \in Requests |-> "idle"]
    /\ tusCalls = {} /\ tusAnswered = {}
    /\ reply = [r \in Requests |-> "none"]

TusGoTo(r, p) == pc' = [pc EXCEPT ![r] = p]
Fail(r) == TusGoTo(r, "unlock") /\ reply' = [reply EXCEPT ![r] = "error"]

-----------------------------------------------------------------------------

TusUpload == tusInfo /\ orig

\* The last PATCH, and DELETE: tusd takes the lock for the time of a request.
TusPatch ==
    /\ lock = None /\ TusUpload /\ ~complete
    /\ complete' = TRUE
    /\ UNCHANGED <<orig, moved, tusInfo, lock, pc, tusCalls, tusAnswered, reply>>

TusDelete ==
    /\ lock = None /\ TusUpload
    /\ orig' = FALSE /\ tusInfo' = FALSE
    /\ UNCHANGED <<complete, moved, lock, pc, tusCalls, tusAnswered, reply>>

\* multiAuthUser, the SDK address and the id.
Authorize(r) ==
    /\ pc[r] = "idle"
    /\ \/ TusGoTo(r, "lock") /\ UNCHANGED reply
       \/ TusGoTo(r, "done") /\ reply' = [reply EXCEPT ![r] = "error"]
    /\ UNCHANGED <<complete, orig, moved, tusInfo, lock, tusCalls, tusAnswered>>

\* lockUpload, then the checks on what is stored.
Lock(r) ==
    /\ pc[r] = "lock" /\ lock = None
    /\ lock' = r
    /\ \/ TusUpload /\ complete /\ TusGoTo(r, "rename") /\ UNCHANGED reply
       \/ Fail(r)
    /\ UNCHANGED <<complete, orig, moved, tusInfo, tusCalls, tusAnswered>>

LockFails(r) ==
    /\ pc[r] = "lock" /\ lock # None
    /\ TusGoTo(r, "done") /\ reply' = [reply EXCEPT ![r] = "error"]
    /\ UNCHANGED <<complete, orig, moved, tusInfo, lock, tusCalls, tusAnswered>>

\* The key of the lock is gone after lockTimeout, whatever its holder does.
LockExpires ==
    /\ lock # None
    /\ lock' = None
    /\ UNCHANGED <<complete, orig, moved, tusInfo, pc, tusCalls, tusAnswered, reply>>

\* Mutant of TusRename: a file that was moved already is taken as it is.
RenameAlready(r) ==
    /\ pc[r] = "rename"
    /\ \/ /\ orig
          /\ orig' = FALSE /\ moved' = moved \cup {UserOf(r)}
          /\ TusGoTo(r, "decode") /\ UNCHANGED reply
       \/ /\ ~orig /\ UserOf(r) \in moved
          /\ TusGoTo(r, "decode") /\ UNCHANGED <<orig, moved, reply>>
       \/ /\ ~orig /\ UserOf(r) \notin moved
          /\ Fail(r) /\ UNCHANGED <<orig, moved>>
    /\ UNCHANGED <<complete, tusInfo, lock, tusCalls, tusAnswered>>

\* os.Rename: one of two requests finds the file.
TusRename(r) ==
    /\ pc[r] = "rename"
    /\ \/ /\ orig
          /\ orig' = FALSE /\ moved' = moved \cup {UserOf(r)}
          /\ TusGoTo(r, "decode") /\ UNCHANGED reply
       \/ Fail(r) /\ UNCHANGED <<orig, moved>>
    /\ UNCHANGED <<complete, tusInfo, lock, tusCalls, tusAnswered>>

\* The body is decoded; the SDK is called with the new path of the file.
TusDecode(r) ==
    /\ pc[r] = "decode"
    /\ \/ TusGoTo(r, "call") /\ tusCalls' = tusCalls \cup {r} /\ UNCHANGED reply
       \/ Fail(r) /\ UNCHANGED tusCalls
    /\ UNCHANGED <<complete, orig, moved, tusInfo, lock, tusAnswered>>

\* A response, with a result or an error, or no response.
Call(r) ==
    /\ pc[r] = "call"
    /\ \/ TusGoTo(r, "remove") /\ tusAnswered' = tusAnswered \cup {r} /\ UNCHANGED reply
       \/ Fail(r) /\ UNCHANGED tusAnswered
    /\ UNCHANGED <<complete, orig, moved, tusInfo, lock, tusCalls>>

\* The .info file, then the directory. (A failure is only reported; that the
\* disk fails is not modelled.)
TusRemoveInfo(r) ==
    /\ pc[r] = "remove"
    /\ tusInfo' = FALSE
    /\ TusGoTo(r, "cleanup")
    /\ UNCHANGED <<complete, orig, moved, lock, tusCalls, tusAnswered, reply>>

\* Mutant of Cleanup: only the .info file is removed.
CleanupForgets(r) ==
    /\ pc[r] = "cleanup"
    /\ reply' = [reply EXCEPT ![r] = "response"]
    /\ TusGoTo(r, "unlock")
    /\ UNCHANGED <<complete, orig, moved, tusInfo, lock, tusCalls, tusAnswered>>

Cleanup(r) ==
    /\ pc[r] = "cleanup"
    /\ moved' = moved \ {UserOf(r)}
    /\ reply' = [reply EXCEPT ![r] = "response"]
    /\ TusGoTo(r, "unlock")
    /\ UNCHANGED <<complete, orig, tusInfo, lock, tusCalls, tusAnswered>>

\* The deferred Unlock deletes the key if it is still this request's.
Unlock(r) ==
    /\ pc[r] = "unlock"
    /\ lock' = IF lock = r THEN None ELSE lock
    /\ TusGoTo(r, "done")
    /\ UNCHANGED <<complete, orig, moved, tusInfo, tusCalls, tusAnswered, reply>>

Notify(r) ==
    \/ Authorize(r) \/ Lock(r) \/ LockFails(r) \/ TusRename(r) \/ TusDecode(r) \/ Call(r)
    \/ TusRemoveInfo(r) \/ Cleanup(r) \/ Unlock(r)

TusNext == TusPatch \/ TusDelete \/ LockExpires \/ \E r \in Requests : Notify(r)
TusSpec == TusInit /\ [][TusNext]_tusVars
TusFairSpec == TusSpec /\ \A r \in Requests : WF_tusVars(Notify(r))

-----------------------------------------------------------------------------

\* One upload is published by at most one call, though the lock may expire
\* while the SDK works: only one request finds the file to rename.
OneCallPerUpload == Cardinality(tusCalls) <= 1

\* The file is somewhere until the SDK has answered or the client deleted it:
\* a failed Notify never destroys what was uploaded.
KeptUntilAnswered ==
    orig \/ moved # {} \/ tusAnswered # {} \/ (tusCalls = {} /\ ~tusInfo)

\* A client that gets a response finds nothing left of the upload.
ResponseLeavesNothing ==
    (\E r \in Requests : reply[r] = "response") => ~orig /\ moved = {} /\ ~tusInfo

\* What publish v2 promises about an upload and its Notify requests: each line is
\* stated above.
TusSafe ==
    /\ TusTypeOK
    /\ OneCallPerUpload
    /\ KeptUntilAnswered
    /\ ResponseLeavesNothing

\* Every Notify is answered.
EveryNotifyAnswered == \A r \in Requests : (pc[r] # "idle") ~> (reply[r] # "none")
=============================================================================
