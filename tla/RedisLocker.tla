------------------------------ MODULE RedisLocker ------------------------------
(***************************************************************************)
(* The upload locks (pkg/redislocker/redislocker.go): a Redis key per      *)
(* upload, shared by all processes, and in each process a map from uploads *)
(* to the callback that asks the request holding the lock to give way.     *)
(*                                                                         *)
(* The key expires after lockTimeout and nothing extends it: a request may *)
(* go on working after its key is gone, and its Unlock then meets the key  *)
(* and the callback of another request.                                    *)
(***************************************************************************)
CONSTANTS
    Requests,      \* HTTP requests that want a lock, each at most once
    Processes,     \* processes of the service
    Names,         \* uploads
    None,
    ProcessOf(_),  \* the process that serves a request
    NameOf(_),     \* the upload of a request
    Deaf           \* requests whose callback does nothing (Notify: func() {})

ASSUME LockerAssumption ==
    /\ None \notin Requests
    /\ Deaf \subseteq Requests
    /\ \A r \in Requests : ProcessOf(r) \in Processes /\ NameOf(r) \in Names

VARIABLES
    redisKey,      \* Redis: the request whose random value the key holds
    holders,       \* per process: Locker.holders
    pc,            \* where each request is
    asked,         \* requests whose callback has been called
    expired        \* requests that lost their key while they were using it

lockerVars == <<redisKey, holders, pc, asked, expired>>

\* "acquired": LockContext has returned, the callback is not in the map yet.
\* "unlocking": the callback has been removed, the key not yet.
Places == {"idle", "waiting", "acquired", "held", "unlocking", "refused", "done"}
Using(r) == pc[r] \in {"acquired", "held", "unlocking"}

LockerTypeOK ==
    /\ redisKey \in [Names -> Requests \cup {None}]
    /\ holders \in [Processes -> [Names -> Requests \cup {None}]]
    /\ pc \in [Requests -> Places]
    /\ asked \subseteq Requests
    /\ expired \subseteq Requests

\* New: the map is empty; keys may only be left over from an earlier process.
New ==
    /\ redisKey = [n \in Names |-> None]
    /\ holders = [p \in Processes |-> [n \in Names |-> None]]
    /\ pc = [r \in Requests |-> "idle"]
    /\ asked = {}
    /\ expired = {}

Holder(r) == holders[ProcessOf(r)][NameOf(r)]
SetHolder(r, v) == holders' = [holders EXCEPT ![ProcessOf(r)][NameOf(r)] = v]

-----------------------------------------------------------------------------

\* Lock, first half: the callback in the map is called, if there is one.
AskHolder(r) == asked' = asked \cup ({Holder(r)} \ {None})

\* NewLock and the beginning of Lock.
StartLock(r) ==
    /\ pc[r] = "idle"
    /\ AskHolder(r)
    /\ pc' = [pc EXCEPT ![r] = "waiting"]
    /\ UNCHANGED <<redisKey, holders, expired>>

\* LockContext: one of the tries of redsync finds the key unset.
LockContext(r) ==
    /\ pc[r] = "waiting"
    /\ redisKey[NameOf(r)] = None
    /\ redisKey' = [redisKey EXCEPT ![NameOf(r)] = r]
    /\ pc' = [pc EXCEPT ![r] = "acquired"]
    /\ UNCHANGED <<holders, asked, expired>>

\* The tries are used up (ErrFileLocked), the context is done (ErrLockTimeout)
\* or Redis does not answer.
LockFails(r) ==
    /\ pc[r] = "waiting"
    /\ pc' = [pc EXCEPT ![r] = "refused"]
    /\ UNCHANGED <<redisKey, holders, asked, expired>>

\* Lock, second half.
Register(r) ==
    /\ pc[r] = "acquired"
    /\ SetHolder(r, r)
    /\ pc' = [pc EXCEPT ![r] = "held"]
    /\ UNCHANGED <<redisKey, asked, expired>>

\* Unlock, first half: whatever callback is in the map is removed.
StartUnlock(r) ==
    /\ pc[r] = "held"
    /\ SetHolder(r, None)
    /\ pc' = [pc EXCEPT ![r] = "unlocking"]
    /\ UNCHANGED <<redisKey, asked, expired>>

\* Mutant of ReleasedKey: the key is deleted whoever holds it.
ReleasedKeyAny(r) == None

\* mutex.Unlock deletes the key only if it holds the value of this mutex.
ReleasedKey(r) == IF redisKey[NameOf(r)] = r THEN None ELSE redisKey[NameOf(r)]

\* Unlock, second half; that the key was not there any more is only reported.
FinishUnlock(r) ==
    /\ pc[r] = "unlocking"
    /\ redisKey' = [redisKey EXCEPT ![NameOf(r)] = ReleasedKey(r)]
    /\ pc' = [pc EXCEPT ![r] = "done"]
    /\ UNCHANGED <<holders, asked, expired>>

\* Redis does not answer the deletion: the key stays until it expires.
UnlockFails(r) ==
    /\ pc[r] = "unlocking"
    /\ pc' = [pc EXCEPT ![r] = "done"]
    /\ UNCHANGED <<redisKey, holders, asked, expired>>

\* Mutant of Expire: keys are set without an expiry.
ExpireNever(n) == FALSE /\ UNCHANGED lockerVars

\* lockTimeout has passed since the key was set.
Expire(n) ==
    /\ redisKey[n] # None
    /\ expired' = IF Using(redisKey[n]) THEN expired \cup {redisKey[n]} ELSE expired
    /\ redisKey' = [redisKey EXCEPT ![n] = None]
    /\ UNCHANGED <<holders, pc, asked>>

\* A process dies with its requests and its map; the keys stay.
Crash(p) ==
    /\ holders' = [holders EXCEPT ![p] = [n \in Names |-> None]]
    /\ pc' = [r \in Requests |-> IF ProcessOf(r) = p /\ pc[r] # "idle" THEN "done" ELSE pc[r]]
    /\ UNCHANGED <<redisKey, asked, expired>>

-----------------------------------------------------------------------------

Lock(r) == StartLock(r) \/ LockContext(r) \/ LockFails(r) \/ Register(r)
Unlock(r) == StartUnlock(r) \/ FinishUnlock(r) \/ UnlockFails(r)

LockerNext ==
    \/ \E r \in Requests : Lock(r) \/ Unlock(r)
    \/ \E n \in Names : Expire(n)
    \/ \E p \in Processes : Crash(p)

LockerSpec == New /\ [][LockerNext]_lockerVars

\* Redis removes keys in time; nothing is asked of the requests.
LockerFairSpec == LockerSpec /\ \A n \in Names : WF_lockerVars(Expire(n))

-----------------------------------------------------------------------------
(* Properties.                                                             *)

\* Two requests use one upload only when the key of one of them has expired
\* under it: an Unlock, late or repeated, never frees the key of another
\* request, in this process or in another one (Lock, Unlock).
ExclusiveUntilExpiry ==
    \A r, s \in Requests :
        Using(r) /\ Using(s) /\ NameOf(r) = NameOf(s) /\ r # s =>
            r \in expired \/ s \in expired

\* A callback in the map belongs to a request of this process that still holds
\* its lock: no waiting request asks one that has gone (Register, StartUnlock).
HolderIsLive ==
    \A p \in Processes, n \in Names :
        LET h == holders[p][n] IN
        h # None => pc[h] = "held" /\ ProcessOf(h) = p /\ NameOf(h) = n

\* A request that holds its lock can be asked to give way, until a key of the
\* same upload expires: then the Unlock of the request that lost its key takes
\* away the callback of the one that got it (StartUnlock).
HeldCanBeAsked ==
    \A r \in Requests :
        pc[r] = "held" =>
            Holder(r) = r \/ \E s \in expired : NameOf(s) = NameOf(r)

\* Only a request that some other request of its process has met in the map is
\* asked to give way, and it was holding its lock then (AskHolder).
AskedByAnother ==
    \A r \in asked : /\ pc[r] \in {"held", "unlocking", "done"}
                     /\ \E s \in Requests \ {r} : /\ ProcessOf(s) = ProcessOf(r)
                                                  /\ NameOf(s) = NameOf(r)
                                                  /\ pc[s] # "idle"

\* What the locks in Redis promise to the requests for an upload: each line is stated
\* above.
LockerSafe ==
    /\ LockerTypeOK
    /\ ExclusiveUntilExpiry
    /\ HolderIsLive
    /\ HeldCanBeAsked
    /\ AskedByAnother

\* What a request leaves in Redis when its process dies, or when its Unlock
\* fails, is freed in the end: no upload stays locked for ever (NewLock).
LeftKeyFreed == \A n \in Names : []<>(redisKey[n] = None)
=============================================================================
