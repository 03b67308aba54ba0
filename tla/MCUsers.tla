--------------------------------- MODULE MCUsers ---------------------------------
(***************************************************************************)
(* Users, servers and the process for TLC, side by side, with fairness:    *)
(* requests of a user and the unloading of the wallet, the router, and the *)
(* life of the API process.  No two of these modules share a variable, so  *)
(* that a property of one holds when they interleave exactly when it holds *)
(* while the others stand still; part is the one that moves.               *)
(***************************************************************************)
EXTENDS Wallet, SdkRouter, ApiLife

CONSTANTS l1, l2, l3, o1, p1, p2, s1, s2, s3

VARIABLE part

usersVars == <<part, walletVars, routerVars, apiVars>>

\* Wallet: a new user whose requests come to one process and do not fail
\* ("wallet"); and, with calls that fail, first requests at two processes
\* ("first"), a row from before servers were assigned ("old"), and a user that the
\* operator moves ("moved").
MCProcessOf(r) == IF r = l3 THEN p2 ELSE p1
NewUser == [row |-> NoRow, wallets |-> {}]
OldUser == [row |-> [server |-> NoServer, idp |-> FALSE, seen |-> 0], wallets |-> {}]
IdleUser == [row |-> [server |-> 0, idp |-> FALSE, seen |-> 0], wallets |-> {0, 1}]
MCStarts == {NewUser, OldUser, IdleUser}
WalletParts == {"wallet", "first", "old", "moved"}
FirstRow == CASE part = "old" -> OldUser.row [] part = "moved" -> IdleUser.row [] OTHER -> NoRow
Moving == CASE part = "wallet" -> {l1, l2, o1} [] part = "first" -> {l3, o1}
            [] part = "old" -> {l1, l3} [] part = "moved" -> IF faulty THEN {l1} ELSE {o1} [] OTHER -> {}

WalletStep ==
    /\ WalletNext
    /\ \A r \in UserRequests \ Moving : pc'[r] = pc[r]
    /\ part = "moved" \/ UNCHANGED bumps

\* SdkRouter: one public server, the busier one, and a private one are in the
\* table, and another may be added.
MCFirstTable == {s1, s3}
FirstLoad == [s \in Servers |-> IF s = s1 THEN 1 ELSE 0]

\* A part that stands still does so in one of its initial states.  The first query
\* of the router has failed.
UsersInit ==
    /\ part \in WalletParts \cup {"router", "api"}
    /\ row = FirstRow /\ faulty \in (CASE part = "moved" -> BOOLEAN [] part \in {"first", "old"} -> {TRUE} [] OTHER -> {FALSE}) /\ WalletInit
    /\ load = FirstLoad /\ servers = {} /\ New
    /\ ApiInit

UsersNext ==
    \/ part \in WalletParts /\ WalletStep /\ UNCHANGED <<part, routerVars, apiVars>>
    \/ part = "router" /\ RouterNext /\ UNCHANGED <<part, walletVars, apiVars>>
    \/ part = "api" /\ ApiNext /\ UNCHANGED <<part, walletVars, routerVars>>

\* The fairness of the modules, for the part that moves.
UsersSpec ==
    /\ UsersInit /\ [][UsersNext]_usersVars
    /\ \A r \in UserRequests : WF_walletVars(r \in Moving /\ Go(r))
    /\ WF_walletVars(part \in WalletParts /\ Unload)
    /\ WF_routerVars(part = "router" /\ (Reload(Watcher) \/ Scan)) /\ WF_routerVars(part = "router" /\ Age)
    /\ \A g \in Callers : WF_routerVars(part = "router" /\ (AllG(g) \/ Reloaded(g) \/ RandomServer(g)))
    /\ WF_apiVars(part = "api" /\ MainStep) /\ WF_apiVars(part = "api" /\ Listen)
    /\ WF_apiVars(part = "api" /\ QueueServe)

\* Requests end, idle wallets are unloaded, removed servers are no longer chosen
\* and a signal ends the process, each part in the behaviours in which it is the
\* one that moves.
UsersEnd ==
    /\ part \in WalletParts => EveryRequestEnds
    /\ part = "wallet" => IdleIsUnloaded
    /\ part = "router" => LeastCatchesUp
    /\ part = "api" => ApiSignalEnds
==================================================================================
