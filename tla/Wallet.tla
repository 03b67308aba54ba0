--------------------------------- MODULE Wallet ---------------------------------
(***************************************************************************)
(* Users and their wallets (app/wallet, app/wallet/tracker, app/auth, the  *)
(* retries of app/query/caller.go and internal/admin): requests look a     *)
(* user up, create the row and assign a server in a transaction, create    *)
(* the wallet there, load it when the server has unloaded it, and record   *)
(* the access; meanwhile idle wallets are unloaded and an operator moves   *)
(* the user.                                                               *)
(*                                                                         *)
(* The module follows one user: users do not interact.  The database has   *)
(* READ COMMITTED transactions: a statement sees what is committed, and    *)
(* waits for the transaction that has changed the row.  The servers come   *)
(* from the database (their ids are not 0).                                *)
(***************************************************************************)
EXTENDS Integers

CONSTANTS
    Legacy,             \* requests with a token of internal-apis
    OAuth,              \* requests with an OAuth token
    Processes,          \* processes of the service
    ProcessOf(_),       \* the process that serves a request
    NServers,           \* servers lbrynet-a-0, lbrynet-a-1, ...
    Starts,             \* the row at the beginning, and the servers that have a
                        \* wallet of the user then
    WalletLoadRetries,  \* bound: walletLoadRetries
    TxMaxRetries,       \* txMaxRetries
    MaxBumps            \* bound: how often the operator moves the user

NoServer == NServers        \* no server assigned (NULL)
ServerIds == 0..(NServers - 1)
UserRequests == Legacy \cup OAuth

UserRow == [server : ServerIds \cup {NoServer}, idp : BOOLEAN, seen : Nat]
NoRow == [server |-> NoServer, idp |-> FALSE, seen |-> -1]
NoRequest == "no request"

\* What the token cache may say: nothing, no user (not verified), or a user.
Miss == -1
NoUser == -2

ASSUME WalletAssumption ==
    /\ NServers \in Nat \ {0}
    /\ WalletLoadRetries \in Nat \ {0}
    /\ TxMaxRetries \in Nat \ {0}
    /\ MaxBumps \in Nat
    /\ Starts \subseteq [row : UserRow \cup {NoRow}, wallets : SUBSET ServerIds]
    /\ \A s \in Starts : s.row.server \in s.wallets \cup {NoServer} /\ s.row.seen <= 0
    /\ \A r \in UserRequests : ProcessOf(r) \in Processes
    /\ NoRequest \notin UserRequests

VARIABLES
    row,        \* users table: the committed row
    rowLock,    \* the request whose transaction has inserted or updated the row
    wallet,     \* SDK: the user's wallet on each server
    tokenCache,  \* token cache of each process: Miss, NoUser or a server
    pc,         \* where each request is
    me,         \* the row as the request knows it (models.User)
    tries,      \* of inTx, then of SendQuery
    accessClock,  \* the last access time given out
    tracker,    \* tracker.Unload: step and the row it has selected
    bump,       \* BumpSDK: step and the row it has read
    bumps,
    faulty      \* whether calls to the servers and the database may fail

walletVars == <<row, rowLock, wallet, tokenCache, pc, me, tries, accessClock, tracker, bump, bumps, faulty>>
db == <<row, rowLock>>
request == <<pc, me, tries>>
others == <<tracker, bump, bumps, faulty>>

\* "remote": internal-apis is asked; "joined": waiting for the flight of another
\* request of the process; "begin" to "commit": the transaction; "send" to
\* "delete": SendQuery; "touch": the answer is written.
InFlight == {"remote", "begin", "insert", "assign", "create", "commit"}
Querying == {"send", "load", "delete", "touch"}
Places == InFlight \cup Querying \cup
          {"idle", "joined", "lookup", "update", "refused", "done", "untouched"}

WalletTypeOK ==
    /\ row \in UserRow \cup {NoRow}
    /\ rowLock \in UserRequests \cup {NoRequest}
    /\ wallet \in [ServerIds -> {"none", "unloaded", "loaded"}]
    /\ tokenCache \in [Processes -> {Miss, NoUser, NoServer} \cup ServerIds]
    /\ pc \in [UserRequests -> Places]
    /\ me \in [UserRequests -> UserRow \cup {NoRow}]
    /\ tries \in [UserRequests -> 0..(TxMaxRetries + WalletLoadRetries)]
    /\ accessClock \in Nat
    /\ tracker \in [step : {"idle", "unload", "mark"}, row : UserRow \cup {NoRow}]
    /\ bump \in [step : {"idle", "update", "load", "unload"}, row : UserRow \cup {NoRow}]
    /\ bumps \in 0..MaxBumps
    /\ faulty \in BOOLEAN

WalletInit ==
    /\ faulty \in BOOLEAN
    /\ \E s \in Starts :
          /\ row = s.row
          /\ wallet = [i \in ServerIds |-> IF i \in s.wallets THEN "unloaded" ELSE "none"]
    /\ rowLock = NoRequest
    /\ tokenCache = [p \in Processes |-> Miss]
    /\ pc = [r \in UserRequests |-> "idle"]
    /\ me = [r \in UserRequests |-> NoRow]
    /\ tries = [r \in UserRequests |-> 0]
    /\ accessClock = 0
    /\ tracker = [step |-> "idle", row |-> NoRow]
    /\ bump = [step |-> "idle", row |-> NoRow]
    /\ bumps = 0

WalletGoto(r, place) == pc' = [pc EXCEPT ![r] = place]
Unlocked(r) == rowLock \in {NoRequest, r}

-----------------------------------------------------------------------------
(* Authentication with a legacy token: GetUserWithSDKServer, tokenCache.get *)

Flight(r) == {q \in Legacy : ProcessOf(q) = ProcessOf(r) /\ pc[q] \in InFlight}

\* Mutant of Land: those who have joined the flight are forgotten.
LandAlone(r, place, user) ==
    /\ pc' = [pc EXCEPT ![r] = place]
    /\ me' = [me EXCEPT ![r] = user]
    /\ tries' = [tries EXCEPT ![r] = 0]

\* Everybody who waits for the flight of r gets its outcome.
Land(r, place, user) ==
    LET landed == {r} \cup {q \in Legacy : r \in Legacy /\ pc[q] = "joined" /\ ProcessOf(q) = ProcessOf(r)}
    IN /\ pc' = [q \in UserRequests |-> IF q \in landed THEN place ELSE pc[q]]
       /\ me' = [q \in UserRequests |-> IF q \in landed THEN user ELSE me[q]]
       /\ tries' = [q \in UserRequests |-> IF q \in landed THEN 0 ELSE tries[q]]

\* An error ends the flight; only what the retriever returns without an error is
\* kept, also that there is no user.  OAuth requests do not use the cache.
Refuse(r) == Land(r, "refused", NoRow) /\ UNCHANGED tokenCache
Accept(r, user) ==
    /\ Land(r, "send", user)
    /\ tokenCache' = IF r \in Legacy THEN [tokenCache EXCEPT ![ProcessOf(r)] = user.server] ELSE tokenCache

CacheHit(r) ==
    LET c == tokenCache[ProcessOf(r)] IN
    /\ pc[r] = "idle"
    /\ c # Miss
    /\ IF c = NoUser THEN WalletGoto(r, "refused") /\ UNCHANGED me
       ELSE WalletGoto(r, "send") /\ me' = [me EXCEPT ![r] = [server |-> c, idp |-> FALSE, seen |-> 0]]
    /\ UNCHANGED <<db, wallet, tokenCache, tries, accessClock, others>>

CacheMiss(r) ==
    /\ pc[r] = "idle"
    /\ tokenCache[ProcessOf(r)] = Miss
    /\ WalletGoto(r, IF Flight(r) = {} THEN "remote" ELSE "joined")
    /\ UNCHANGED <<db, wallet, tokenCache, me, tries, accessClock, others>>

\* An entry gets too old (15 s without a user, 15 minutes with one) or is evicted.
CacheExpires(p) ==
    /\ tokenCache[p] # Miss
    /\ tokenCache' = [tokenCache EXCEPT ![p] = Miss]
    /\ UNCHANGED <<db, wallet, request, accessClock, others>>

\* GetRemoteUserLegacy answers, knows no verified address, or fails.
GetRemoteUserLegacy(r) ==
    /\ pc[r] = "remote" /\ r \in Legacy
    /\ \/ /\ Land(r, "refused", NoRow)
          /\ tokenCache' = [tokenCache EXCEPT ![ProcessOf(r)] = NoUser]
       \/ faulty /\ Refuse(r)
       \/ WalletGoto(r, "begin") /\ UNCHANGED <<tokenCache, me, tries>>
    /\ UNCHANGED <<db, wallet, accessClock, others>>

-----------------------------------------------------------------------------
(* Authentication with an OAuth token: OauthAuthenticator.Authenticate.    *)

GetDBUserByIDPID(r) ==
    /\ pc[r] = "idle" /\ r \in OAuth
    /\ \/ row.idp /\ Accept(r, row)
       \/ ~row.idp /\ WalletGoto(r, "lookup") /\ UNCHANGED <<tokenCache, me, tries>>
       \/ faulty /\ Refuse(r)
    /\ UNCHANGED <<db, wallet, accessClock, others>>

\* GetRemoteUser, then the row of the user's id.
GetDBUserByID(r) ==
    /\ pc[r] = "lookup"
    /\ \/ faulty /\ Refuse(r)
       \/ /\ IF row = NoRow THEN WalletGoto(r, "begin") /\ UNCHANGED me
             ELSE WalletGoto(r, "update") /\ me' = [me EXCEPT ![r] = [row EXCEPT !.idp = TRUE]]
          /\ UNCHANGED <<tokenCache, tries>>
    /\ UNCHANGED <<db, wallet, accessClock, others>>

\* UpdateG(boil.Infer()): every column is written back as it was read; that no
\* row is left is no error.
SetIdpID(r) ==
    /\ pc[r] = "update"
    /\ Unlocked(r)
    /\ \/ row' = (IF row = NoRow THEN NoRow ELSE me[r]) /\ Accept(r, me[r])
       \/ faulty /\ UNCHANGED row /\ Refuse(r)
    /\ UNCHANGED <<rowLock, wallet, accessClock, others>>

-----------------------------------------------------------------------------
(* The transaction of both: inTx, getOrCreateLocalUser, createUser,        *)
(* assignSDKServerToUser, Create.                                          *)

\* The function of inTx returns an error: the transaction is rolled back.
Rollback(r) ==
    /\ rowLock' = IF rowLock = r THEN NoRequest ELSE rowLock
    /\ Refuse(r)
    /\ UNCHANGED <<row, accessClock, others>>

\* A statement of the transaction, or its beginning, fails.
TxFails(r) ==
    /\ faulty
    /\ pc[r] \in {"begin", "insert", "assign"}
    /\ Rollback(r)
    /\ UNCHANGED wallet

Visible(r) == row # NoRow /\ (r \in OAuth => row.idp)

getOrCreateLocalUser(r) ==
    /\ pc[r] = "begin"
    /\ IF Visible(r)
       THEN /\ me' = [me EXCEPT ![r] = row]
            /\ WalletGoto(r, IF row.server = NoServer THEN "assign" ELSE "commit")
       ELSE WalletGoto(r, "insert") /\ UNCHANGED me
    /\ UNCHANGED <<db, wallet, tokenCache, tries, accessClock, others>>

\* Mutant of createUser: INSERT ... ON CONFLICT DO UPDATE.
createUserUpserts(r) ==
    /\ pc[r] = "insert"
    /\ Unlocked(r)
    /\ rowLock' = r
    /\ me' = [me EXCEPT ![r] = [server |-> NoServer, idp |-> r \in OAuth, seen |-> 0]]
    /\ WalletGoto(r, "assign")
    /\ UNCHANGED <<row, wallet, tokenCache, tries, accessClock, others>>

createUser(r) ==
    /\ pc[r] = "insert"
    /\ row = NoRow
    /\ Unlocked(r)
    /\ rowLock' = r
    /\ me' = [me EXCEPT ![r] = [server |-> NoServer, idp |-> r \in OAuth, seen |-> 0]]
    /\ WalletGoto(r, "assign")
    /\ UNCHANGED <<row, wallet, tokenCache, tries, accessClock, others>>

\* The key exists: the row is read again in the transaction that the INSERT has
\* aborted, which fails too, and inTx starts again, at most TxMaxRetries times.
createUserConflict(r) ==
    /\ pc[r] = "insert"
    /\ row # NoRow
    /\ IF tries[r] + 1 < TxMaxRetries
       THEN /\ tries' = [tries EXCEPT ![r] = @ + 1]
            /\ WalletGoto(r, "begin")
            /\ UNCHANGED <<db, tokenCache, me, accessClock, others>>
       ELSE Rollback(r)
    /\ UNCHANGED wallet

\* UPDATE ... WHERE lbrynet_server_id IS NULL; s is what LeastLoaded returns.
assignSDKServerToUser(r, s) ==
    /\ pc[r] = "assign"
    /\ Unlocked(r)
    /\ rowLock = r \/ (row # NoRow /\ row.server = NoServer)
    /\ rowLock' = r
    /\ me' = [me EXCEPT ![r].server = s]
    /\ WalletGoto(r, "create")
    /\ UNCHANGED <<row, wallet, tokenCache, tries, accessClock, others>>

\* No row is updated: it has a server by now, or it is gone.
alreadyAssigned(r) ==
    /\ pc[r] = "assign"
    /\ rowLock = NoRequest
    /\ row = NoRow \/ row.server # NoServer
    /\ IF row = NoRow THEN Rollback(r)
       ELSE /\ me' = [me EXCEPT ![r] = row]
            /\ WalletGoto(r, "commit")
            /\ UNCHANGED <<db, tokenCache, tries, accessClock, others>>
    /\ UNCHANGED wallet

\* A wallet that exists is taken as it is; one that is not loaded is loaded.
Create(r) ==
    LET loaded == [wallet EXCEPT ![me[r].server] = "loaded"] IN
    /\ pc[r] = "create"
    /\ \/ /\ wallet' = loaded
          /\ WalletGoto(r, "commit")
          /\ UNCHANGED <<db, tokenCache, me, tries, accessClock, others>>
       \/ faulty /\ wallet' \in {wallet, loaded} /\ Rollback(r)

Committed(r) == IF row = NoRow THEN me[r] ELSE [row EXCEPT !.server = me[r].server]

Commit(r) ==
    /\ pc[r] = "commit"
    /\ \/ /\ IF rowLock = r THEN row' = Committed(r) /\ rowLock' = NoRequest ELSE UNCHANGED db
          /\ Accept(r, me[r])
          /\ UNCHANGED <<accessClock, others>>
       \/ faulty /\ Rollback(r)
    /\ UNCHANGED wallet

-----------------------------------------------------------------------------
(* Caller.SendQuery and what follows the answer.                           *)

\* After an attempt to load the wallet: once more, or, after the last one, the
\* user is deleted if it has failed.
LoadedOrRetry(r, failed) ==
    IF tries[r] + 1 < WalletLoadRetries
    THEN tries' = [tries EXCEPT ![r] = @ + 1] /\ WalletGoto(r, "send")
    ELSE WalletGoto(r, IF failed THEN "delete" ELSE "touch") /\ UNCHANGED tries

\* The query is answered, fails on the way, or finds the wallet not loaded.
SendUserQuery(r) ==
    /\ pc[r] = "send"
    /\ \/ me[r].server # NoServer /\ wallet[me[r].server] = "loaded" /\ WalletGoto(r, "touch")
       \/ me[r].server # NoServer /\ wallet[me[r].server] # "loaded" /\ WalletGoto(r, "load")
       \/ (me[r].server = NoServer \/ faulty) /\ WalletGoto(r, "touch")
    /\ UNCHANGED <<db, wallet, tokenCache, me, tries, accessClock, others>>

\* LoadWallet: a wallet that is loaded already is an error too.
LoadWallet(r) ==
    LET s == me[r].server
        loaded == [wallet EXCEPT ![s] = "loaded"]
    IN
    /\ pc[r] = "load"
    /\ \/ wallet[s] = "unloaded" /\ wallet' = loaded /\ LoadedOrRetry(r, FALSE)
       \/ wallet[s] # "unloaded" /\ UNCHANGED wallet /\ LoadedOrRetry(r, TRUE)
       \/ faulty /\ wallet[s] = "unloaded" /\ wallet' \in {wallet, loaded} /\ LoadedOrRetry(r, TRUE)
    /\ UNCHANGED <<db, tokenCache, me, accessClock, others>>

\* The row goes, or the error is only reported; the token caches keep their copies.
DeleteUser(r) ==
    /\ pc[r] = "delete"
    /\ rowLock = NoRequest
    /\ row' = NoRow \/ (faulty /\ UNCHANGED row)
    /\ WalletGoto(r, "touch")
    /\ UNCHANGED <<rowLock, wallet, tokenCache, me, tries, accessClock, others>>

\* tracker.Middleware, when the request has been served; errors are only reported.
Touch(r) ==
    /\ pc[r] = "touch"
    /\ rowLock = NoRequest
    /\ \/ /\ row' = IF row = NoRow THEN NoRow ELSE [row EXCEPT !.seen = accessClock + 1]
          /\ accessClock' = accessClock + 1
          /\ WalletGoto(r, "done")
       \/ faulty /\ WalletGoto(r, "untouched") /\ UNCHANGED <<row, accessClock>>
    /\ UNCHANGED <<rowLock, wallet, tokenCache, me, tries, others>>

-----------------------------------------------------------------------------
(* tracker.Unload, run by the command unload_wallets.                      *)

\* Mutant of SelectIdle: the oldest access time is left out.
SelectIdleLater ==
    /\ tracker.step = "idle"
    /\ row # NoRow /\ row.seen > 1 /\ row.server # NoServer
    /\ tracker' = [step |-> "unload", row |-> row]
    /\ UNCHANGED <<db, wallet, tokenCache, request, accessClock, bump, bumps, faulty>>

\* Any access may be older than the cutoff time.
SelectIdle ==
    /\ tracker.step = "idle"
    /\ row # NoRow /\ row.seen > 0 /\ row.server # NoServer
    /\ tracker' = [step |-> "unload", row |-> row]
    /\ UNCHANGED <<db, wallet, tokenCache, request, accessClock, bump, bumps, faulty>>

\* A wallet that can not be unloaded, or is not loaded, is left as it is.
UnloadWallet ==
    LET s == tracker.row.server
        unloaded == [wallet EXCEPT ![s] = "unloaded"]
    IN
    /\ tracker.step = "unload"
    /\ \/ wallet[s] = "loaded" /\ wallet' = unloaded /\ tracker' = [tracker EXCEPT !.step = "mark"]
       \/ wallet[s] # "loaded" /\ UNCHANGED wallet /\ tracker' = [tracker EXCEPT !.step = "idle"]
       \/ /\ faulty /\ wallet[s] = "loaded"
          /\ wallet' \in {wallet, unloaded}
          /\ tracker' = [tracker EXCEPT !.step = "idle"]
    /\ UNCHANGED <<db, tokenCache, request, accessClock, bump, bumps, faulty>>

\* Mutant of Untouched: the access time is cleared whatever it is now.
UntouchedIgnored == row # NoRow

\* AND last_seen_at = $2
Untouched == row # NoRow /\ row.seen = tracker.row.seen

MarkUnloaded ==
    /\ tracker.step = "mark"
    /\ rowLock = NoRequest
    /\ \/ row' = IF Untouched THEN [row EXCEPT !.seen = 0] ELSE row
       \/ faulty /\ UNCHANGED row
    /\ tracker' = [tracker EXCEPT !.step = "idle"]
    /\ UNCHANGED <<rowLock, wallet, tokenCache, request, accessClock, bump, bumps, faulty>>

-----------------------------------------------------------------------------
(* admin.BumpSDK: the next server of the group, or its first one.          *)

BumpID(s) == IF s + 1 \in ServerIds THEN s + 1 ELSE 0

BumpRead ==
    /\ bump.step = "idle" /\ bumps < MaxBumps
    /\ row # NoRow /\ row.server # NoServer
    /\ bump' = [step |-> "update", row |-> row]
    /\ bumps' = bumps + 1
    /\ UNCHANGED <<db, wallet, tokenCache, request, accessClock, tracker, faulty>>

\* UpdateG(boil.Infer()) again.
BumpUpdate ==
    /\ bump.step = "update"
    /\ rowLock = NoRequest
    /\ \/ /\ row' = IF row = NoRow THEN NoRow
                    ELSE [bump.row EXCEPT !.server = BumpID(bump.row.server)]
          /\ bump' = [bump EXCEPT !.step = "load"]
       \/ faulty /\ UNCHANGED row /\ bump' = [bump EXCEPT !.step = "idle"]
    /\ UNCHANGED <<rowLock, wallet, tokenCache, request, accessClock, tracker, bumps, faulty>>

\* Errors of both calls are only reported.
BumpLoad ==
    LET s == BumpID(bump.row.server) IN
    /\ bump.step = "load"
    /\ \/ wallet' = [wallet EXCEPT ![s] = IF @ = "none" THEN @ ELSE "loaded"]
       \/ faulty /\ UNCHANGED wallet
    /\ bump' = [bump EXCEPT !.step = "unload"]
    /\ UNCHANGED <<db, tokenCache, request, accessClock, tracker, bumps, faulty>>

BumpUnload ==
    LET s == bump.row.server IN
    /\ bump.step = "unload"
    /\ \/ wallet' = [wallet EXCEPT ![s] = IF @ = "none" THEN @ ELSE "unloaded"]
       \/ faulty /\ UNCHANGED wallet
    /\ bump' = [bump EXCEPT !.step = "idle"]
    /\ UNCHANGED <<db, tokenCache, request, accessClock, tracker, bumps, faulty>>

-----------------------------------------------------------------------------

Authenticate(r) ==
    \/ GetDBUserByIDPID(r) \/ GetDBUserByID(r) \/ SetIdpID(r)
    \/ TxFails(r) \/ getOrCreateLocalUser(r) \/ createUser(r) \/ createUserConflict(r)
    \/ alreadyAssigned(r) \/ Create(r) \/ Commit(r)
    \/ \E s \in ServerIds : assignSDKServerToUser(r, s)

Serve(r) == SendUserQuery(r) \/ LoadWallet(r) \/ DeleteUser(r) \/ Touch(r)

Unload == SelectIdle \/ UnloadWallet \/ MarkUnloaded
BumpSDK == BumpRead \/ BumpUpdate \/ BumpLoad \/ BumpUnload

WalletNext ==
    \/ \E r \in Legacy : CacheHit(r) \/ CacheMiss(r) \/ GetRemoteUserLegacy(r)
    \/ \E r \in UserRequests : Authenticate(r) \/ Serve(r)
    \/ \E p \in Processes : CacheExpires(p)
    \/ Unload \/ BumpSDK

WalletSpec == WalletInit /\ [][WalletNext]_walletVars

Go(r) == GetRemoteUserLegacy(r) \/ Authenticate(r) \/ Serve(r)

\* Every request is carried on with; the command unload_wallets is run again and
\* again and comes to its end.
WalletFairSpec ==
    /\ WalletSpec
    /\ \A r \in UserRequests : WF_walletVars(Go(r))
    /\ WF_walletVars(Unload)

-----------------------------------------------------------------------------
(* Properties                                                              *)

\* The wallet is loaded on the user's server.
Loaded == row # NoRow /\ row.server # NoServer /\ wallet[row.server] = "loaded"

\* A user who is assigned to a server has a wallet there: the assignment is
\* committed only after Create, whatever fails in between, and a request that
\* loses the race for the row or for the assignment (createUser,
\* assignSDKServerToUser) relies on it.  BumpSDK moves a user without asking.
AssignedHasWallet ==
    bumps = 0 /\ row # NoRow /\ row.server # NoServer => wallet[row.server] # "none"

\* The comment in getOrCreateLocalUser, "Should not happen, but not enforced in
\* DB structure yet": a new user is never in the table without a server, because
\* row and assignment are committed together, and a server is taken from a user
\* only when SetIdpID writes back a row that was read before the assignment.
NoUserWithoutServer ==
    [][row' # NoRow /\ row'.server = NoServer =>
            row # NoRow /\ (row.server = NoServer \/ \E r \in OAuth : SetIdpID(r))]_walletVars

\* The comment of assignSDKServerToUser, "permanently assigns an sdk to a user":
\* whatever the interleaving of first requests, a server once assigned stays for
\* as long as there is the row, unless the operator moves the user or SetIdpID
\* writes back a row that was read before.
AssignedForGood ==
    [][row # NoRow /\ row' # NoRow /\ row.server # NoServer =>
            row'.server = row.server \/ BumpUpdate \/ \E r \in OAuth : SetIdpID(r)]_walletVars

\* tracker.Unload finds every idle wallet: one that is loaded on the user's server
\* has an access time, or a request that is going to set it is under way, or has
\* failed to ("otherwise it may never be unloaded").  BumpSDK is outside: it loads
\* a wallet and writes back the access time it has read before.
LoadedIsTracked ==
    bumps = 0 /\ Loaded /\ row.seen = 0 =>
        \E r \in UserRequests : pc[r] \in Querying \cup {"untouched"}

\* What a user's requests promise about the wallet: each line is stated above.
WalletSafe ==
    /\ WalletTypeOK
    /\ AssignedHasWallet
    /\ LoadedIsTracked

\* A wallet that is loaded when the last request is over is unloaded in the end,
\* also if requests come in while tracker.Unload is at work.
IdleIsUnloaded == ~faulty /\ Loaded ~> ~Loaded

\* Every request ends, and nobody waits for a row lock or for a flight for ever.
EveryRequestEnds == \A r \in UserRequests : pc[r] # "idle" ~> pc[r] \in {"refused", "done", "untouched"}
=================================================================================
