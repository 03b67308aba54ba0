-------------------------------- MODULE MCCalls --------------------------------
(***************************************************************************)
(* Calls of the proxy for TLC, side by side: a JSON-RPC call, the get      *)
(* method, once for a claim with a fee and once for one with tags, and the *)
(* cache of responses.  No two of these modules share a variable, so that  *)
(* a property of one holds when they interleave exactly when it holds      *)
(* while the others stand still; part is the one that moves.               *)
(***************************************************************************)
EXTENDS Caller, StreamAccess, QueryCache

CONSTANTS u1, u2, u3, s1, s2, g1, g2, g3, c1, c2, p1, k1

VARIABLE part

callsVars == <<part, callerVars, streamVars, cacheVars>>

\* One user has a server, the other has not.
MCServerOf(u) == IF u = u1 THEN s1 ELSE NoServer
MCAsks == {<<"resolve", "none">>, <<"wallet_send", "map">>, <<"wallet_send", "forbidden">>,
           <<"status", "none">>, <<"stop", "none">>, <<"", "none">>}

\* Two requests get a claim with a fee, and one a claim with tags.
MCClaimOf(r) == IF r = g3 THEN c2 ELSE c1
MCHasFee(c) == c = c1
MCOwner(c) == IF c = c1 THEN NoViewer ELSE u3
Untagged == <<"other">>
MCTagLists == {Untagged, <<"scheduled", "rental", "memberonly">>, <<"purchase", "scheduled">>,
               <<"other", "unlisted">>, <<"memberonly">>, <<"scheduled">>}

MCProcessOf(r) == p1
MCKeyOf(r) == k1

Moving == CASE part = "fee" -> {g1, g2} [] part = "tags" -> {g3} [] OTHER -> {}

\* A part that stands still does so in one of its initial states.  Requests that
\* get the claim with a fee come from one user or nobody, without a signature.
CallsInit ==
    /\ part \in {"call", "fee", "tags", "cache"}
    /\ CallerInit /\ NewQueryCache
    /\ tags \in [Claims -> MCTagLists] /\ tags[c1] = Untagged /\ (part = "tags" \/ tags[c2] = Untagged)
    /\ user \in [Gets -> Viewers \cup {NoViewer}]
    /\ \A r \in Gets \ Moving : user[r] = NoViewer
    /\ \A r \in Gets \ {g3} : user[r] \in {u1, NoViewer}
    /\ signature \in [Gets -> {"none", "valid", "invalid"}]
    /\ \A r \in Gets \ (Moving \cap {g3}) : signature[r] = "none"
    /\ StreamInit

CallsNext ==
    \/ part = "call" /\ CallerNext /\ UNCHANGED <<part, streamVars, cacheVars>>
    \/ /\ part \in {"fee", "tags"} /\ StreamNext /\ (part = "tags" \/ UNCHANGED now)
       /\ \A r \in Gets \ Moving : getPc'[r] = getPc[r]
       /\ UNCHANGED <<part, callerVars, cacheVars>>
    \/ part = "cache" /\ CacheNext /\ UNCHANGED <<part, callerVars, streamVars>>

\* The fairness of the modules, for the part that moves.
CallsSpec ==
    /\ CallsInit /\ [][CallsNext]_callsVars
    /\ \A r \in RpcCalls : WF_callerVars(part = "call" /\ callPc[r] # "new" /\ Call(r))
    /\ \A r \in Gets : WF_streamVars(r \in Moving /\ preflightHookGet(r))
    /\ \A r \in Requests : WF_cacheVars(part = "cache" /\ Retrieve(r))
    /\ \A k \in Keys : /\ WF_cacheVars(part = "cache" /\ Expire(k))
                       /\ \A i \in Replicas : WF_cacheVars(part = "cache" /\ Replicate(i, k))

\* Calls, gets and requests to the cache are answered, and old entries leave the
\* cache, each part in the behaviours in which it is the one that moves.
CallsEnd ==
    /\ part = "call" => EveryCallAnswered
    /\ part \in {"fee", "tags"} => EveryGetAnswered
    /\ part = "cache" => EveryRequestAnswered /\ StaleGoesAway
================================================================================
