------------------------------- MODULE QueryCache -------------------------------
(***************************************************************************)
(* The cache of SDK responses (app/query/cache.go, preflightCacheHook in   *)
(* app/query/processors.go) on Redis with a master and replicas            *)
(* (pkg/sturdycache), and its invalidation when chainquery reports a new   *)
(* block.  What is cached is the block height of the answer: older than    *)
(* the chain means stale.                                                  *)
(***************************************************************************)
EXTENDS Integers

CONSTANTS
    Requests,        \* each calls the SDK through the cache once
    Processes,       \* each has a QueryCache with its flights and its height
    Keys,            \* GetCacheKey: method and parameters
    ClaimSearch,     \* the keys of method claim_search, which are invalidated
    Replicas,        \* read replicas of the Redis master
    KeyOf(_), ProcessOf(_),
    GetterRetries,   \* config.GetCacheGetterRetries()
    MaxHeight        \* bound: blocks

ASSUME CacheAssumption ==
    /\ ClaimSearch \subseteq Keys
    /\ \A r \in Requests : KeyOf(r) \in Keys /\ ProcessOf(r) \in Processes
    /\ GetterRetries \in Nat \ {0}
    /\ MaxHeight \in Nat

Heights == 0..MaxHeight
Failed == -1                    \* an RPC error as the response
NoAnswer == -2                  \* no response (an error, or none yet)

\* An entry: the answer, how many invalidations there had been when its flight
\* began and when it was stored, and whether the SDK was behind chainquery.
Entry == [answer : Heights \cup {Failed}, began : Nat, stored : Nat, behind : BOOLEAN]
Miss == [answer |-> NoAnswer, began |-> 0, stored |-> 0, behind |-> FALSE]

VARIABLES
    chain,       \* the height chainquery reports
    hub,         \* the height of the SDK servers
    master,      \* Redis master
    replica,     \* Redis replicas
    pc, attempt,
    got,         \* what the flight of the request has got
    answer,      \* what the request is answered
    height,      \* QueryCache.height
    purging,     \* processes between c.height = height and Invalidate
    runs,        \* invalidations done, and
    purged       \* the height of the last one

cacheVars == <<chain, hub, master, replica, pc, attempt, got, answer, height, purging, runs, purged>>
store == <<master, replica>>
flight == <<pc, attempt, got, answer>>
invalidator == <<height, purging, runs, purged>>

CacheTypeOK ==
    /\ chain \in Heights /\ hub \in Heights
    /\ master \in [Keys -> Entry \cup {Miss}]
    /\ replica \in [Replicas -> [Keys -> Entry \cup {Miss}]]
    /\ pc \in [Requests -> {"idle", "fetch", "joined", "set", "direct", "done"}]
    /\ attempt \in [Requests -> 0..(GetterRetries - 1)]
    /\ got \in [Requests -> [answer : Heights \cup {Failed, NoAnswer}, began : Nat, stored : {0}, behind : BOOLEAN]]
    /\ answer \in [Requests -> Heights \cup {Failed, NoAnswer}]
    /\ height \in [Processes -> Heights]
    /\ purging \subseteq Processes
    /\ runs \in Nat /\ purged \in Heights

NewQueryCache ==
    /\ chain = 0 /\ hub = 0
    /\ master = [k \in Keys |-> Miss]
    /\ replica = [i \in Replicas |-> master]
    /\ pc = [r \in Requests |-> "idle"]
    /\ attempt = [r \in Requests |-> 0]
    /\ got = [r \in Requests |-> Miss]
    /\ answer = [r \in Requests |-> NoAnswer]
    /\ height = [p \in Processes |-> 0]
    /\ purging = {}
    /\ runs = 0 /\ purged = 0

Finish(r, a) == pc' = [pc EXCEPT ![r] = "done"] /\ answer' = [answer EXCEPT ![r] = a]

-----------------------------------------------------------------------------
(* Retrieve                                                                *)

\* ReplicatedCache.Get: the first replica that has the key, the next one if it
\* does not answer, the master if none does.
Copies(k) == {replica[i][k] : i \in Replicas} \cup {master[k]}

Hit(r) ==
    /\ pc[r] = "idle"
    /\ \E e \in Copies(KeyOf(r)) \ {Miss} : Finish(r, e.answer)
    /\ UNCHANGED <<chain, hub, store, attempt, got, invalidator>>

Leaders(r) == {q \in Requests : KeyOf(q) = KeyOf(r) /\ ProcessOf(q) = ProcessOf(r) /\ pc[q] = "fetch"}

NewFlight == [answer |-> NoAnswer, began |-> runs, stored |-> 0, behind |-> hub < chain]

\* A miss: the request makes the call or waits for the one who does.
Missed(r) ==
    /\ pc[r] = "idle"
    /\ master[KeyOf(r)] = Miss
    /\ pc' = [pc EXCEPT ![r] = IF Leaders(r) = {} THEN "fetch" ELSE "joined"]
    /\ got' = [got EXCEPT ![r] = NewFlight]
    /\ UNCHANGED <<chain, hub, store, attempt, answer, invalidator>>

\* Redis does not answer, or not within five seconds: Retrieve returns nil and
\* the query goes to the SDK as if there were no cache.
GetFails(r) ==
    /\ pc[r] = "idle"
    /\ pc' = [pc EXCEPT ![r] = "direct"]
    /\ UNCHANGED <<chain, hub, store, attempt, got, answer, invalidator>>

Direct(r) ==
    /\ pc[r] = "direct"
    /\ \E a \in {hub, Failed, NoAnswer} : Finish(r, a)
    /\ UNCHANGED <<chain, hub, store, attempt, got, invalidator>>

\* The getter returns a response, or an error, to everybody in the flight.
Landed(r) == {r} \cup {q \in Requests : pc[q] = "joined" /\ KeyOf(q) = KeyOf(r) /\ ProcessOf(q) = ProcessOf(r)}

\* "rpc error received, not caching"
Cacheable(a) == a \notin {NoAnswer, Failed}

\* Mutant of Land: those who have joined the flight are not woken.
LandAlone(r, a) ==
    /\ pc' = [pc EXCEPT ![r] = IF Cacheable(a) THEN "set" ELSE "done"]
    /\ got' = [got EXCEPT ![r].answer = a]
    /\ answer' = [answer EXCEPT ![r] = a]

Land(r, a) ==
    /\ pc' = [q \in Requests |-> IF q \notin Landed(r) THEN pc[q]
                                 ELSE IF Cacheable(a) THEN "set" ELSE "done"]
    /\ got' = [q \in Requests |-> IF q \in Landed(r) THEN [got[r] EXCEPT !.answer = a] ELSE got[q]]
    /\ answer' = [q \in Requests |-> IF q \in Landed(r) THEN a ELSE answer[q]]

\* The getter of preflightCacheHook: a result, or an error that is the user's
\* fault, ends it; after any other error it tries the next server, and what the
\* last attempt gave is returned.
Getter(r) ==
    /\ pc[r] = "fetch"
    /\ \/ Land(r, hub) /\ UNCHANGED attempt
       \/ Land(r, Failed) /\ UNCHANGED attempt
       \/ /\ attempt[r] + 1 < GetterRetries
          /\ attempt' = [attempt EXCEPT ![r] = @ + 1]
          /\ UNCHANGED <<pc, got, answer>>
       \/ attempt[r] + 1 = GetterRetries /\ Land(r, NoAnswer) /\ UNCHANGED attempt
    /\ UNCHANGED <<chain, hub, store, invalidator>>

\* Every request of the flight stores what it got, when it gets to it.
Set(r) ==
    /\ pc[r] = "set"
    /\ master' = [master EXCEPT ![KeyOf(r)] = [got[r] EXCEPT !.stored = runs]]
    /\ pc' = [pc EXCEPT ![r] = "done"]
    /\ UNCHANGED <<chain, hub, replica, attempt, got, answer, invalidator>>

\* The five seconds of the context, which began before the call to the SDK, are
\* over, or Redis fails: the answer is returned all the same.
SetFails(r) ==
    /\ pc[r] = "set"
    /\ pc' = [pc EXCEPT ![r] = "done"]
    /\ UNCHANGED <<chain, hub, store, attempt, got, answer, invalidator>>

-----------------------------------------------------------------------------
(* runInvalidator, every 15 seconds.                                       *)

\* The new height is noted before the entries are invalidated.
GetHeight(p) ==
    /\ p \notin purging
    /\ height[p] < chain
    /\ height' = [height EXCEPT ![p] = chain]
    /\ purging' = purging \cup {p}
    /\ UNCHANGED <<chain, hub, store, flight, runs, purged>>

\* Mutant of Invalidated: the tag does not match what Tags() gives.
InvalidatedNone == master

Invalidated == [k \in Keys |-> IF k \in ClaimSearch THEN Miss ELSE master[k]]

Invalidate(p) ==
    /\ p \in purging
    /\ master' = Invalidated
    /\ purging' = purging \ {p}
    /\ runs' = runs + 1
    /\ purged' = IF height[p] > purged THEN height[p] ELSE purged
    /\ UNCHANGED <<chain, hub, replica, flight, height>>

\* The error is counted; the next attempt comes with the next block.
InvalidateFails(p) ==
    /\ p \in purging
    /\ purging' = purging \ {p}
    /\ UNCHANGED <<chain, hub, store, flight, height, runs, purged>>

-----------------------------------------------------------------------------
(* Around it: blocks, Redis.                                               *)

Block ==
    /\ \/ chain < MaxHeight /\ chain' = chain + 1 /\ UNCHANGED hub
       \/ hub < MaxHeight /\ hub' = hub + 1 /\ UNCHANGED chain
    /\ UNCHANGED <<store, flight, invalidator>>

\* Mutant of Expire: entries are stored without WithExpiration.
ExpireNever(k) == FALSE /\ UNCHANGED cacheVars

\* Expiration(): 600 s, 160 s or 60 s after Set.
Expire(k) ==
    /\ master[k] # Miss
    /\ master' = [master EXCEPT ![k] = Miss]
    /\ UNCHANGED <<chain, hub, replica, flight, invalidator>>

Replicate(i, k) ==
    /\ replica[i][k] # master[k]
    /\ replica' = [replica EXCEPT ![i][k] = master[k]]
    /\ UNCHANGED <<chain, hub, master, flight, invalidator>>

Retrieve(r) ==
    Hit(r) \/ Missed(r) \/ GetFails(r) \/ Direct(r) \/ Getter(r) \/ Set(r) \/ SetFails(r)
RunInvalidator(p) == GetHeight(p) \/ Invalidate(p) \/ InvalidateFails(p)
Redis(k) == Expire(k) \/ \E i \in Replicas : Replicate(i, k)

CacheNext ==
    \/ \E r \in Requests : Retrieve(r)
    \/ \E p \in Processes : RunInvalidator(p)
    \/ \E k \in Keys : Redis(k)
    \/ Block

CacheSpec == NewQueryCache /\ [][CacheNext]_cacheVars

\* Requests are carried on with; entries expire and are replicated.
CacheFairSpec ==
    /\ CacheSpec
    /\ \A r \in Requests : WF_cacheVars(Retrieve(r))
    /\ \A k \in Keys : WF_cacheVars(Expire(k)) /\ \A i \in Replicas : WF_cacheVars(Replicate(i, k))

-----------------------------------------------------------------------------
(* Properties                                                              *)

\* Errors are never served from the cache, whoever of the flight stored it and
\* whatever replica answers (Retrieve: "not caching").
NoErrorCached == \A k \in Keys : \A e \in Copies(k) : e.answer # Failed

\* An answer to claim_search in the master that is older than the block of the
\* last invalidation was fetched before that invalidation, and stored after it,
\* or came from an SDK server behind chainquery; nothing else keeps an entry over
\* a new block (runInvalidator).
StaleOnlyByRace ==
    \A k \in ClaimSearch :
        master[k] # Miss /\ master[k].answer < purged =>
            master[k].stored = runs /\ (master[k].began < runs \/ master[k].behind)

\* What the cache of responses promises: each line is stated above.
CacheSafe ==
    /\ CacheTypeOK
    /\ NoErrorCached
    /\ StaleOnlyByRace

\* A miss is answered with what the SDK says now: nobody is given the result of a
\* flight that was over when they came, and nothing older than the SDK is stored
\* but by a Set that comes late (singleflight.Do).
FetchedIsCurrent ==
    [][\A r \in Requests : pc[r] # "set" /\ pc'[r] = "set" => answer'[r] \in {hub, Failed}]_cacheVars

\* Every request is answered: nobody waits for a flight that is over.
EveryRequestAnswered == \A r \in Requests : pc[r] # "idle" ~> pc[r] = "done"

\* With or without the invalidator an answer does not stay for ever: when chain
\* and SDK have stopped, old answers leave the master and the replicas.
StaleGoesAway ==
    <>[](\A k \in Keys : \A e \in Copies(k) : e = Miss \/ e.answer = hub)
=================================================================================
