--------------------------------- MODULE Caller ---------------------------------
(***************************************************************************)
(* A JSON-RPC call through the proxy: the two authentication middlewares   *)
(* (app/auth), proxy.Handle, Caller.Call with NewQuery and its hooks       *)
(* (app/query), the shared flight and the retries of the cache hook on     *)
(* other SDK servers, and the error codes (pkg/rpcerrors).  Methods stand  *)
(* for the classes that const.go sorts them into; "get" is in StreamAccess.*)
(***************************************************************************)
EXTENDS Integers

CONSTANTS
    RpcCalls,
    Users, NoUser,
    Servers, NoServer,
    ServerOf(_),      \* the SDK server of a user, or NoServer
    CallRetries,      \* config.GetCacheGetterRetries()
    Asks              \* bound: the methods and parameters requests come with

ASSUME CallerAssumption ==
    /\ NoUser \notin Users /\ NoServer \notin Servers /\ Servers # {}
    /\ \A u \in Users : ServerOf(u) \in Servers \cup {NoServer}
    /\ CallRetries \in Nat \ {0}

relaxedMethods == {"status", "resolve", "version"}
walletSpecificMethods == {"resolve", "wallet_send"}
Methods == relaxedMethods \cup walletSpecificMethods \cup {"", "stop"}
Params == {"none", "map", "forbidden"}     \* "forbidden": has account_id or new_sdk_server

ASSUME AsksAssumption == Asks \subseteq Methods \X Params

MethodRequiresWallet(method) == method \notin relaxedMethods
MethodAcceptsWallet(method) == method \in walletSpecificMethods

\* Codes of pkg/rpcerrors.
Internal == -32080
SDKError == -32603
AuthRequired == -32084
JSONParse == -32700
InvalidParams == -32602
MethodNotAllowed == -32601
OK == 0
RPCFailed == 1          \* the SDK's own error, passed on
Panicked == 2           \* the panic handler answers

Users0 == Users \cup {NoUser}
NoReply == [code |-> OK, wallet |-> NoUser, from |-> NoServer]

VARIABLES
    callPc, method, params,
    cu,            \* auth.CurrentUser: user and error
    wallet,        \* Query.WalletID
    endpoint, backups, callTry,
    reply,
    cache,         \* the answer for a method, parameters and wallet
    sent,          \* what each request has sent to the SDK
    audited        \* requests with a row in query_log

callerVars == <<callPc, method, params, cu, wallet, endpoint, backups, callTry, reply, cache, sent, audited>>
input == <<method, params, cu>>

CacheKeys == {"resolve"} \X Params \X Users0
Key(r) == <<method[r], params[r], wallet[r]>>
Sent == [method : Methods, wallet : Users0, server : Servers]

CallerTypeOK ==
    /\ callPc \in [RpcCalls -> {"new", "handle", "cache", "fetch", "joined", "send", "done"}]
    /\ method \in [RpcCalls -> Methods]
    /\ params \in [RpcCalls -> Params]
    /\ cu \in [RpcCalls -> [user : Users0, err : {"nil", "missing", "invalid"}]]
    /\ wallet \in [RpcCalls -> Users0]
    /\ endpoint \in [RpcCalls -> Servers \cup {NoServer}]
    /\ backups \in [RpcCalls -> SUBSET Servers]
    /\ callTry \in [RpcCalls -> 0..(CallRetries - 1)]
    /\ reply \in [RpcCalls -> [code : Int, wallet : Users0, from : Servers \cup {NoServer}]]
    /\ cache \in [CacheKeys -> [code : {OK}, wallet : Users0, from : Servers] \cup {NoReply}]
    /\ sent \in [RpcCalls -> SUBSET Sent]
    /\ audited \subseteq RpcCalls

CallerInit ==
    /\ callPc = [r \in RpcCalls |-> "new"]
    /\ method = [r \in RpcCalls |-> ""]
    /\ params = [r \in RpcCalls |-> "none"]
    /\ cu = [r \in RpcCalls |-> [user |-> NoUser, err |-> "missing"]]
    /\ wallet = [r \in RpcCalls |-> NoUser]
    /\ endpoint = [r \in RpcCalls |-> NoServer]
    /\ backups = [r \in RpcCalls |-> {}]
    /\ callTry = [r \in RpcCalls |-> 0]
    /\ reply = [r \in RpcCalls |-> NoReply]
    /\ cache = [k \in CacheKeys |-> NoReply]
    /\ sent = [r \in RpcCalls |-> {}]
    /\ audited = {}

-----------------------------------------------------------------------------
(* Authentication                                                          *)

\* Middleware: the OAuth token, if there is one.
Middleware(oauth) ==
    IF ~oauth THEN {[user |-> NoUser, err |-> "missing"]}
    ELSE {[user |-> u, err |-> "nil"] : u \in Users} \cup {[user |-> NoUser, err |-> "invalid"]}

\* LegacyMiddleware: only if the first has failed; a user whose e-mail is not
\* verified is nil without an error.
LegacyMiddleware(before, legacy) ==
    IF before.err = "nil" THEN {before}
    ELSE IF ~legacy THEN {[user |-> NoUser, err |-> "missing"]}
    ELSE {[user |-> u, err |-> "nil"] : u \in Users0} \cup {[user |-> NoUser, err |-> "invalid"]}

\* A request comes in with one kind of token, or none, and has been authenticated.
Authenticate(r) ==
    /\ callPc[r] = "new"
    /\ \E kind \in {"none", "oauth", "legacy"}, ask \in Asks :
          /\ \E first \in Middleware(kind = "oauth") :
                \E u \in LegacyMiddleware(first, kind = "legacy") : cu' = [cu EXCEPT ![r] = u]
          /\ method' = [method EXCEPT ![r] = ask[1]]
          /\ params' = [params EXCEPT ![r] = ask[2]]
    /\ callPc' = [callPc EXCEPT ![r] = "handle"]
    /\ UNCHANGED <<wallet, endpoint, backups, callTry, reply, cache, sent, audited>>

-----------------------------------------------------------------------------
(* proxy.Handle                                                            *)

Answer(r, a) == callPc' = [callPc EXCEPT ![r] = "done"] /\ reply' = [reply EXCEPT ![r] = a]
Refuse(r, code) == Answer(r, [NoReply EXCEPT !.code = code])

\* No body, one that cannot be read, or no JSON.
BadBody(r) ==
    /\ callPc[r] = "handle"
    /\ Refuse(r, JSONParse)
    /\ UNCHANGED <<input, wallet, endpoint, backups, callTry, cache, sent, audited>>

GetAuthError(user, err) == IF err = "nil" /\ user # NoUser THEN "nil" ELSE err

AuthGate(r) == MethodRequiresWallet(method[r]) => GetAuthError(cu[r].user, cu[r].err) = "nil"

\* An authentication error is none of rpcerrors: ErrorToJSON makes it internal.
AuthFails(r) ==
    /\ callPc[r] = "handle"
    /\ ~AuthGate(r)
    /\ Refuse(r, Internal)
    /\ UNCHANGED <<input, wallet, endpoint, backups, callTry, cache, sent, audited>>

WalletOf(r) == IF MethodAcceptsWallet(method[r]) THEN cu[r].user ELSE NoUser

\* NewQuery: the error, if any.
NewQueryCode(r) ==
    IF method[r] = "" THEN Internal
    ELSE IF method[r] \notin relaxedMethods \cup walletSpecificMethods THEN MethodNotAllowed
    ELSE IF params[r] = "forbidden" THEN InvalidParams
    ELSE IF MethodAcceptsWallet(method[r]) /\ WalletOf(r) = NoUser /\ MethodRequiresWallet(method[r])
    THEN AuthRequired
    ELSE OK

\* The first preflight hook that matches: status answers by itself, resolve (and
\* claim_search, after its own hook) goes to the cache, others to the SDK.
PreflightHook(m) == CASE m = "status" -> "status" [] m = "resolve" -> "cache" [] OTHER -> "send"

\* The user's server, else any server, with all of them as backups.
Handle(r) ==
    /\ callPc[r] = "handle"
    /\ AuthGate(r)
    /\ \E s \in IF cu[r].user # NoUser /\ ServerOf(cu[r].user) # NoServer
                THEN {ServerOf(cu[r].user)} ELSE Servers :
          endpoint' = [endpoint EXCEPT ![r] = s]
    /\ backups' = [backups EXCEPT ![r] =
          IF cu[r].user # NoUser /\ ServerOf(cu[r].user) # NoServer THEN {} ELSE Servers]
    /\ wallet' = [wallet EXCEPT ![r] = WalletOf(r)]
    /\ LET code == NewQueryCode(r) IN
       IF code # OK \/ PreflightHook(method[r]) = "status"
       THEN Refuse(r, code)
       ELSE callPc' = [callPc EXCEPT ![r] = PreflightHook(method[r])] /\ UNCHANGED reply
    /\ UNCHANGED <<input, callTry, cache, sent, audited>>

-----------------------------------------------------------------------------
(* SendQuery and the cache hook                                            *)

\* What the SDK does with the request is done whether or not an answer arrives.
SendTo(r) == sent' = [sent EXCEPT ![r] = @ \cup
    {[method |-> method[r], wallet |-> wallet[r], server |-> endpoint[r]]}]

Outcome(r) == {[code |-> OK, wallet |-> wallet[r], from |-> endpoint[r]],
               [NoReply EXCEPT !.code = RPCFailed]}

\* The postflight hook of wallet_send runs when there is a response.
Postflight(r, code) ==
    audited' = IF method[r] = "wallet_send" /\ code # Internal THEN audited \cup {r} ELSE audited

SendQuery(r) ==
    /\ callPc[r] = "send"
    /\ SendTo(r)
    /\ \E a \in Outcome(r) \cup {[NoReply EXCEPT !.code = Internal]} :
          Answer(r, a) /\ Postflight(r, a.code)
    /\ UNCHANGED <<input, wallet, endpoint, backups, callTry, cache>>

CacheHit(r) ==
    /\ callPc[r] = "cache"
    /\ cache[Key(r)] # NoReply
    /\ Answer(r, cache[Key(r)])
    /\ UNCHANGED <<input, wallet, endpoint, backups, callTry, cache, sent, audited>>

SameFlight(q, r) == Key(q) = Key(r)

\* No cache entry, or no cache (the hook returns nil and the query is sent).
CacheMissed(r) ==
    /\ callPc[r] = "cache"
    /\ \/ /\ cache[Key(r)] = NoReply
          /\ callPc' = [callPc EXCEPT ![r] = IF \E q \in RpcCalls : callPc[q] = "fetch" /\ SameFlight(q, r)
                                     THEN "joined" ELSE "fetch"]
       \/ callPc' = [callPc EXCEPT ![r] = "send"]
    /\ UNCHANGED <<input, wallet, endpoint, backups, callTry, reply, cache, sent, audited>>

Flight(r) == {r} \cup {q \in RpcCalls : callPc[q] = "joined" /\ SameFlight(q, r)}

\* The leader's result is everybody's; only a result is stored.
LandFlight(r, a) ==
    /\ callPc' = [q \in RpcCalls |-> IF q \in Flight(r) THEN "done" ELSE callPc[q]]
    /\ reply' = [q \in RpcCalls |-> IF q \in Flight(r) THEN a ELSE reply[q]]
    /\ cache' = IF a.code = OK THEN [cache EXCEPT ![Key(r)] = a] ELSE cache

\* Mutant of Exendpoints: signed-in users are moved to other servers too.
ExendpointsAnyone(r) == IF backups[r] = {} THEN {endpoint[r]} ELSE backups[r] \ {endpoint[r]}

\* RandomizeEndpoint: where the next attempt may go.
Exendpoints(r) ==
    IF wallet[r] # NoUser \/ backups[r] = {} THEN {endpoint[r]} ELSE backups[r] \ {endpoint[r]}

LastAttempt(r) == callTry[r] + 1 = CallRetries

Fetch(r) ==
    /\ callPc[r] = "fetch"
    /\ SendTo(r)
    /\ \/ \E a \in Outcome(r) : LandFlight(r, a) /\ UNCHANGED <<endpoint, callTry>>
       \/ /\ Exendpoints(r) = {}       \* rand.IntN(0)
          /\ LandFlight(r, [NoReply EXCEPT !.code = Panicked])
          /\ UNCHANGED <<endpoint, callTry>>
       \/ \E s \in Exendpoints(r) :
             /\ endpoint' = [endpoint EXCEPT ![r] = s]
             /\ IF ~LastAttempt(r)
                THEN callTry' = [callTry EXCEPT ![r] = @ + 1] /\ UNCHANGED <<callPc, reply, cache>>
                ELSE UNCHANGED callTry /\ \E code \in {SDKError, RPCFailed} :
                        LandFlight(r, [NoReply EXCEPT !.code = code])
    /\ UNCHANGED <<input, wallet, backups, audited>>

Call(r) == Authenticate(r) \/ BadBody(r) \/ AuthFails(r) \/ Handle(r) \/ SendQuery(r)
           \/ CacheHit(r) \/ CacheMissed(r) \/ Fetch(r)

CallerNext == \E r \in RpcCalls : Call(r)

CallerSpec == CallerInit /\ [][CallerNext]_callerVars

\* A request is carried on with once it has come in.
CallerFairSpec == CallerSpec /\ \A r \in RpcCalls : WF_callerVars(callPc[r] # "new" /\ Call(r))

-----------------------------------------------------------------------------
(* Properties                                                              *)

\* A result is what the SDK gave for the wallet of the request itself, though the
\* cache and the flights are shared by everybody (GetCacheKey, NewQuery).
OwnAnswer ==
    \A r \in RpcCalls : callPc[r] = "done" /\ reply[r].from # NoServer => reply[r].wallet = wallet[r]

\* What needs a wallet is sent to the SDK only with the wallet of a signed-in user,
\* even where GetAuthError lets a nil user pass (proxy.Handle, NewQuery).
SentWithWallet ==
    \A r \in RpcCalls : \A q \in sent[r] :
        q.method \in Methods \ relaxedMethods => q.wallet = cu[r].user /\ q.wallet # NoUser

\* All that is sent with a wallet goes to one server, the one of the user if they
\* have one, whatever fails there (RandomizeEndpoint).
WalletStaysHome ==
    \A r \in RpcCalls : \A q1, q2 \in sent[r] :
        q1.wallet # NoUser => /\ q2.server = q1.server
                              /\ ServerOf(q1.wallet) \in {q1.server, NoServer}

\* A wallet_send the client is told of, done or refused by the SDK, is in the audit
\* log (the postflight hook of proxy.Handle).
SendIsAudited ==
    \A r \in RpcCalls :
        callPc[r] = "done" /\ method[r] = "wallet_send" /\ reply[r].code \in {OK, RPCFailed} /\ sent[r] # {} =>
            r \in audited

\* What a call through the proxy promises, whatever is shared, cached or repeated: each
\* line is stated above.
CallerSafe ==
    /\ CallerTypeOK
    /\ OwnAnswer
    /\ SentWithWallet
    /\ WalletStaysHome
    /\ SendIsAudited

\* Every request is answered (singleflight, the loop of the getter).
EveryCallAnswered == \A r \in RpcCalls : callPc[r] # "new" ~> callPc[r] = "done"
=================================================================================
