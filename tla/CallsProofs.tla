------------------------------- MODULE CallsProofs -------------------------------
(***************************************************************************)
(* Proofs about a call of the proxy (Caller), the get method               *)
(* (StreamAccess), the cache of responses (QueryCache), searches           *)
(* (ClaimSearch) and the recorder around every handler (Responder), for    *)
(* any number of requests, users, servers, claims, keys, replicas and      *)
(* attempts.                                                               *)
(*                                                                         *)
(* A call sends one query however often it is repeated, and with a wallet  *)
(* it stays at one server (Calling); what is shared with others is shared  *)
(* by key, and the wallet is in the key.  A receipt stands for a purchase  *)
(* on the chain, and what is on the chain was paid once (StreamInv).       *)
(* Flights and entries of the cache carry how many invalidations there had *)
(* been: one that has seen them all, of an SDK that was not behind, is as  *)
(* new as the last of them (InFlight, Current).  What a search asks for is *)
(* the client's query, patched for the moment it was sent (SearchInv).     *)
(* The recorder and net/http's writer go through the calls of a handler    *)
(* side by side, and agree on all but the headers set after the status     *)
(* (Agree).                                                                *)
(***************************************************************************)
EXTENDS Caller, StreamAccess, QueryCache, ClaimSearch, Responder, TLAPS

-----------------------------------------------------------------------------
(* The cache of responses.                                                 *)

Bounded == purged <= chain /\ \A p \in Processes : height[p] <= chain

\* What the flight of a request may still bring, or has brought.
InFlight(r) ==
    /\ pc[r] \in {"fetch", "joined", "set"} => got[r].began <= runs
    /\ pc[r] = "fetch" /\ got[r].began = runs /\ ~got[r].behind => hub >= purged
    /\ pc[r] = "set" => got[r].answer \in Heights
    /\ pc[r] = "set" /\ got[r].began = runs /\ ~got[r].behind => got[r].answer >= purged

Current(k) ==
    master[k] # Miss =>
        /\ master[k].stored = runs /\ master[k].began <= runs
        /\ master[k].began = runs /\ ~master[k].behind => master[k].answer >= purged

CacheInv ==
    /\ CacheTypeOK
    /\ Bounded
    /\ NoErrorCached
    /\ \A r \in Requests : InFlight(r)
    /\ \A k \in ClaimSearch : Current(k)

-----------------------------------------------------------------------------

\* An empty entry is not an error.
LEMMA MissFacts == Miss.answer = NoAnswer /\ NoAnswer # Failed
  BY DEF Miss, NoAnswer, Failed

\* A new cache is empty.
LEMMA CacheInitInv == NewQueryCache => CacheInv
<1> SUFFICES ASSUME NewQueryCache PROVE CacheInv
  OBVIOUS
<1> USE CacheAssumption
<1>1. CacheTypeOK
  BY DEF NewQueryCache, CacheTypeOK, Heights, Miss, NoAnswer
<1>2. Bounded
  BY DEF NewQueryCache, Bounded
<1>3. NoErrorCached
  <2>1. \A k \in Keys, i \in Replicas : replica[i][k] = Miss /\ master[k] = Miss
    BY Zenon, SMT DEF NewQueryCache
  <2>2. \A k \in Keys : master[k] = Miss
    BY Zenon, SMT DEF NewQueryCache
  <2>3. Miss.answer # Failed
    BY Zenon, SMT, MissFacts
  <2> QED BY Zenon, SMT, <2>1, <2>2, <2>3 DEF NoErrorCached, Copies
<1>4. \A r \in Requests : InFlight(r)
  BY Zenon, SMT DEF NewQueryCache, InFlight
<1>5. \A k \in ClaimSearch : Current(k)
  BY Zenon, SMT DEF NewQueryCache, Current
<1> QED BY Zenon, SMT, <1>1, <1>2, <1>3, <1>4, <1>5 DEF CacheInv

\* A step of one request that ends or goes to the SDK without the cache.
LEMMA AwayInv ==
  ASSUME CacheInv, NEW r \in Requests,
         Hit(r) \/ GetFails(r) \/ Direct(r) \/ SetFails(r)
  PROVE  CacheInv'
<1> USE CacheAssumption
<1>1. /\ UNCHANGED <<chain, hub, store, attempt, got, invalidator>>
      /\ pc' \in [Requests -> {"idle", "fetch", "joined", "set", "direct", "done"}]
      /\ pc'[r] \in {"direct", "done"}
      /\ \A q \in Requests : q # r => pc'[q] = pc[q]
  BY Zenon, SMT DEF Hit, GetFails, Direct, SetFails, Finish, CacheInv, CacheTypeOK
<1>2. answer' \in [Requests -> Heights \cup {Failed, NoAnswer}]
  <2>1. CASE Hit(r)
    <3>1. PICK e \in Copies(KeyOf(r)) \ {Miss} : Finish(r, e.answer)
      BY Zenon, SMT, <2>1 DEF Hit
    <3>2. e \in Entry
      BY <3>1 DEF Copies, CacheInv, CacheTypeOK
    <3> QED BY Zenon, SMT, <3>1, <3>2 DEF Entry, Finish, CacheInv, CacheTypeOK
  <2>2. CASE Direct(r)
    BY <2>2 DEF Direct, Finish, CacheInv, CacheTypeOK
  <2>3. CASE GetFails(r) \/ SetFails(r)
    BY Zenon, SMT, <2>3 DEF GetFails, SetFails, CacheInv, CacheTypeOK
  <2> QED BY Zenon, SMT, <2>1, <2>2, <2>3
<1>3. UNCHANGED <<master, replica, height, purging, runs, purged>>
  BY Zenon, SMT, <1>1 DEF store, invalidator
<1>4. CacheTypeOK'
  BY Zenon, SMT, <1>1, <1>2, <1>3 DEF CacheInv, CacheTypeOK
<1>5. Bounded' /\ NoErrorCached' /\ \A k \in ClaimSearch : Current(k)'
  BY <1>1, <1>3 DEF CacheInv, Bounded, NoErrorCached, Copies, Current
<1>6. \A q \in Requests : InFlight(q)'
  BY Zenon, SMT, <1>1, <1>3 DEF CacheInv, InFlight
<1> QED BY Zenon, SMT, <1>4, <1>5, <1>6 DEF CacheInv

\* A new flight: the SDK is behind, or as new as anything invalidated so far.
LEMMA MissedInv ==
  ASSUME CacheInv, NEW r \in Requests, Missed(r)
  PROVE  CacheInv'
<1> USE CacheAssumption
<1>1. UNCHANGED <<chain, hub, master, replica, attempt, answer, height, purging, runs, purged>>
  BY Zenon, SMT DEF Missed, store, invalidator
<1>2. /\ runs \in Nat /\ (hub < chain) \in BOOLEAN
      /\ chain \in Int /\ hub \in Int /\ purged \in Int
  BY DEF CacheInv, CacheTypeOK, Heights
<1>3. /\ got' = [got EXCEPT ![r] = NewFlight]
      /\ NewFlight.began = runs /\ NewFlight.behind = (hub < chain)
      /\ NewFlight \in [answer : Heights \cup {Failed, NoAnswer}, began : Nat,
                        stored : {0}, behind : BOOLEAN]
  BY Zenon, SMT, <1>2 DEF Missed, NewFlight
<1>4. /\ got' \in [Requests -> [answer : Heights \cup {Failed, NoAnswer}, began : Nat,
                                stored : {0}, behind : BOOLEAN]]
      /\ got'[r].began = runs /\ got'[r].behind = (hub < chain)
      /\ \A q \in Requests : q # r => got'[q] = got[q]
  BY Zenon, SMT, <1>2, <1>3 DEF CacheInv, CacheTypeOK
<1>5. /\ pc' \in [Requests -> {"idle", "fetch", "joined", "set", "direct", "done"}]
      /\ pc'[r] \in {"fetch", "joined"}
      /\ \A q \in Requests : q # r => pc'[q] = pc[q]
  BY Zenon, SMT DEF Missed, CacheInv, CacheTypeOK
<1>6. CacheTypeOK'
  BY Zenon, SMT, <1>1, <1>4, <1>5 DEF CacheInv, CacheTypeOK
<1>7. Bounded' /\ NoErrorCached' /\ \A k \in ClaimSearch : Current(k)'
  BY Zenon, SMT, <1>1 DEF CacheInv, Bounded, NoErrorCached, Copies, Current
<1>8. ASSUME NEW q \in Requests PROVE InFlight(q)'
  <2>1. CASE q = r
    BY <1>1, <1>2, <1>4, <1>5, <2>1 DEF CacheInv, Bounded, InFlight
  <2>2. CASE q # r
    BY Zenon, SMT, <1>1, <1>4, <1>5, <2>2 DEF CacheInv, InFlight
  <2> QED BY Zenon, SMT, <2>1, <2>2
<1> QED BY Zenon, SMT, <1>6, <1>7, <1>8 DEF CacheInv

\* The flight lands with what the SDK says now, or with an error, which is not
\* stored.
LEMMA LandInv ==
  ASSUME CacheInv, NEW r \in Requests, pc[r] = "fetch",
         NEW a \in {hub, Failed, NoAnswer}, Land(r, a), UNCHANGED attempt,
         UNCHANGED <<chain, hub, store, invalidator>>
  PROVE  CacheInv'
<1> USE CacheAssumption
<1> DEFINE flown == [got[r] EXCEPT !.answer = a]
<1>1. UNCHANGED <<chain, hub, master, replica, attempt, height, purging, runs, purged>>
  BY Zenon, SMT DEF store, invalidator
<1>2. /\ hub \in Heights /\ a \in Heights \cup {Failed, NoAnswer}
      /\ Cacheable(a) => a = hub
  BY Zenon, SMT DEF CacheInv, CacheTypeOK, Cacheable
<1>3. /\ flown.answer = a /\ flown.began = got[r].began /\ flown.behind = got[r].behind
      /\ flown \in [answer : Heights \cup {Failed, NoAnswer}, began : Nat, stored : {0},
                    behind : BOOLEAN]
  BY ZenonT(30), SMTT(60), <1>2 DEF CacheInv, CacheTypeOK
<1>4. \A q \in Requests :
         /\ q \in Landed(r) =>
               /\ got'[q] = flown
               /\ pc'[q] \in {"set", "done"} /\ (pc'[q] = "set" => Cacheable(a))
               /\ answer'[q] = a
         /\ q \notin Landed(r) => got'[q] = got[q] /\ pc'[q] = pc[q] /\ answer'[q] = answer[q]
  BY Zenon, SMT DEF Land
<1>5. CacheTypeOK'
  <2> HIDE DEF flown
  <2>1. got' \in [Requests -> [answer : Heights \cup {Failed, NoAnswer}, began : Nat,
                               stored : {0}, behind : BOOLEAN]]
    <3>1. got' = [q \in Requests |-> IF q \in Landed(r) THEN flown ELSE got[q]]
      BY Zenon, SMT DEF Land, flown
    <3> QED BY Zenon, SMT, <1>3, <3>1 DEF CacheInv, CacheTypeOK
  <2>2. pc' \in [Requests -> {"idle", "fetch", "joined", "set", "direct", "done"}]
    BY Zenon, SMT DEF Land, CacheInv, CacheTypeOK
  <2>3. answer' \in [Requests -> Heights \cup {Failed, NoAnswer}]
    BY Zenon, SMT, <1>2 DEF Land, CacheInv, CacheTypeOK
  <2> QED BY Zenon, SMT, <1>1, <2>1, <2>2, <2>3 DEF CacheInv, CacheTypeOK
<1>6. Bounded' /\ NoErrorCached' /\ \A k \in ClaimSearch : Current(k)'
  BY Zenon, SMT, <1>1 DEF CacheInv, Bounded, NoErrorCached, Copies, Current
<1>7. ASSUME NEW q \in Requests PROVE InFlight(q)'
  <2> HIDE DEF flown
  <2>1. CASE q \in Landed(r)
    <3>1. InFlight(r)
      BY Zenon, SMT DEF CacheInv
    <3>2. /\ got'[q].began = got[r].began /\ got'[q].behind = got[r].behind
          /\ got'[q].answer = a /\ pc'[q] \in {"set", "done"}
          /\ pc'[q] = "set" => a = hub
      BY Zenon, SMT, <1>2, <1>3, <1>4, <2>1
    <3> QED BY Zenon, SMT, <1>1, <1>2, <3>1, <3>2 DEF InFlight
  <2>2. CASE q \notin Landed(r)
    BY Zenon, SMT, <1>1, <1>4, <2>2 DEF CacheInv, InFlight
  <2> QED BY Zenon, SMT, <2>1, <2>2
<1> QED BY Zenon, SMT, <1>5, <1>6, <1>7 DEF CacheInv

\* The getter tries again or lands.
LEMMA GetterInv ==
  ASSUME CacheInv, NEW r \in Requests, Getter(r)
  PROVE  CacheInv'
<1> USE CacheAssumption
<1>1. CASE \E a \in {hub, Failed, NoAnswer} : Land(r, a) /\ UNCHANGED attempt
  BY Zenon, SMT, <1>1, LandInv DEF Getter
<1>2. CASE /\ attempt[r] + 1 < GetterRetries
           /\ attempt' = [attempt EXCEPT ![r] = @ + 1]
           /\ UNCHANGED <<pc, got, answer>>
  <2>1. attempt' \in [Requests -> 0..(GetterRetries - 1)]
    BY <1>2 DEF CacheInv, CacheTypeOK
  <2>2. UNCHANGED <<chain, hub, master, replica, pc, got, answer, height, purging, runs, purged>>
    BY Zenon, SMT, <1>2 DEF Getter, store, invalidator
  <2>3. CacheTypeOK'
    BY Zenon, SMT, <2>1, <2>2 DEF CacheInv, CacheTypeOK
  <2> QED BY Zenon, SMT, <2>2, <2>3 DEF CacheInv, Bounded, NoErrorCached, Copies, Current, InFlight
<1>3. \/ \E a \in {hub, Failed, NoAnswer} : Land(r, a) /\ UNCHANGED attempt
      \/ /\ attempt[r] + 1 < GetterRetries
         /\ attempt' = [attempt EXCEPT ![r] = @ + 1]
         /\ UNCHANGED <<pc, got, answer>>
  BY Zenon, SMT DEF Getter
<1> QED BY Zenon, SMT, <1>1, <1>2, <1>3

\* Whoever stores, stores a result; it may be late, but then says so.
LEMMA SetInv ==
  ASSUME CacheInv, NEW r \in Requests, Set(r)
  PROVE  CacheInv'
<1> USE CacheAssumption
<1> DEFINE k0 == KeyOf(r)
           e == [got[r] EXCEPT !.stored = runs]
<1>1. UNCHANGED <<chain, hub, replica, attempt, got, answer, height, purging, runs, purged>>
  BY Zenon, SMT DEF Set, invalidator
<1>2. /\ pc' \in [Requests -> {"idle", "fetch", "joined", "set", "direct", "done"}]
      /\ pc'[r] = "done" /\ pc[r] = "set"
      /\ \A q \in Requests : q # r => pc'[q] = pc[q]
  BY Zenon, SMT DEF Set, CacheInv, CacheTypeOK
<1>3. InFlight(r) /\ got[r].answer \in Heights /\ runs \in Nat
  BY Zenon, SMT, <1>2 DEF CacheInv, InFlight, CacheTypeOK
<1>4. /\ e.answer = got[r].answer /\ e.began = got[r].began /\ e.stored = runs
      /\ e.behind = got[r].behind /\ e \in Entry
  BY ZenonT(30), SMTT(60), <1>3 DEF CacheInv, CacheTypeOK, Entry
<1>5. /\ k0 \in Keys /\ master'[k0] = e
      /\ \A k \in Keys : k # k0 => master'[k] = master[k]
      /\ master' \in [Keys -> Entry \cup {Miss}]
  <2>1. master' = [master EXCEPT ![k0] = e] /\ k0 \in Keys
    BY Zenon, SMT DEF Set
  <2> HIDE DEF e, k0
  <2> QED BY Zenon, SMT, <1>4, <2>1 DEF CacheInv, CacheTypeOK
<1> HIDE DEF e, k0
<1>6. CacheTypeOK'
  BY Zenon, SMT, <1>1, <1>2, <1>5 DEF CacheInv, CacheTypeOK
<1>7. Bounded'
  BY Zenon, SMT, <1>1 DEF CacheInv, Bounded
<1>8. NoErrorCached'
  <2>1. e.answer # Failed
    BY <1>3, <1>4 DEF Heights, Failed
  <2>2. \A k \in Keys : master'[k].answer # Failed
    BY Zenon, SMT, <1>5, <2>1 DEF CacheInv, NoErrorCached, Copies
  <2>3. \A k \in Keys, i \in Replicas : replica'[i][k].answer # Failed
    BY Zenon, SMT, <1>1 DEF CacheInv, NoErrorCached, Copies
  <2> QED BY Zenon, SMT, <2>2, <2>3 DEF NoErrorCached, Copies
<1>9. \A q \in Requests : InFlight(q)'
  BY Zenon, SMT, <1>1, <1>2 DEF CacheInv, InFlight
<1>10. ASSUME NEW k \in ClaimSearch PROVE Current(k)'
  <2>1. CASE k = k0
    BY Zenon, SMT, <1>1, <1>2, <1>3, <1>4, <1>5, <2>1 DEF Current, InFlight
  <2>2. CASE k # k0
    BY Zenon, SMT, <1>1, <1>5, <2>2 DEF CacheInv, Current
  <2> QED BY Zenon, SMT, <2>1, <2>2
<1> QED BY Zenon, SMT, <1>6, <1>7, <1>8, <1>9, <1>10 DEF CacheInv

-----------------------------------------------------------------------------
(* The invalidator, blocks and Redis.                                      *)

\* Noting a new height, and an invalidation that fails, change no entry.
LEMMA HeightInv ==
  ASSUME CacheInv, NEW p \in Processes, GetHeight(p) \/ InvalidateFails(p)
  PROVE  CacheInv'
<1> USE CacheAssumption
<1>1. UNCHANGED <<chain, hub, master, replica, pc, attempt, got, answer, runs, purged>>
  BY Zenon, SMT DEF GetHeight, InvalidateFails, store, flight
<1>2. /\ height' \in [Processes -> Heights] /\ purging' \subseteq Processes
      /\ \A q \in Processes : height'[q] \in {height[q], chain}
  BY DEF GetHeight, InvalidateFails, CacheInv, CacheTypeOK
<1>3. CacheTypeOK'
  BY Zenon, SMT, <1>1, <1>2 DEF CacheInv, CacheTypeOK
<1>4. Bounded'
  BY <1>1, <1>2 DEF CacheInv, CacheTypeOK, Bounded, Heights
<1> QED BY Zenon, SMT, <1>1, <1>3, <1>4 DEF CacheInv, NoErrorCached, Copies, Current, InFlight

\* The entries of claim_search go; flights under way have missed it.
LEMMA InvalidateInv ==
  ASSUME CacheInv, NEW p \in Processes, Invalidate(p)
  PROVE  CacheInv'
<1> USE CacheAssumption
<1>1. /\ UNCHANGED <<chain, hub, replica, pc, attempt, got, answer, height>>
      /\ purging' \subseteq Processes /\ runs' = runs + 1 /\ runs \in Nat
      /\ purged' \in {purged, height[p]}
  BY Zenon, SMT DEF Invalidate, flight, CacheInv, CacheTypeOK
<1>2. /\ master' \in [Keys -> Entry \cup {Miss}]
      /\ \A k \in Keys : master'[k] = IF k \in ClaimSearch THEN Miss ELSE master[k]
  BY Zenon, SMT DEF Invalidate, Invalidated, CacheInv, CacheTypeOK
<1>3. CacheTypeOK'
  BY <1>1, <1>2 DEF CacheInv, CacheTypeOK
<1>4. Bounded'
  BY Zenon, SMT, <1>1 DEF CacheInv, Bounded
<1>5. NoErrorCached'
  <2>1. \A k \in Keys : master'[k].answer # Failed
    BY Zenon, SMT, <1>2, MissFacts DEF CacheInv, NoErrorCached, Copies
  <2>2. \A k \in Keys, i \in Replicas : replica'[i][k].answer # Failed
    BY Zenon, SMT, <1>1 DEF CacheInv, NoErrorCached, Copies
  <2> QED BY Zenon, SMT, <2>1, <2>2 DEF NoErrorCached, Copies
<1>6. ASSUME NEW q \in Requests PROVE InFlight(q)'
  <2>1. InFlight(q) /\ got[q].began \in Nat
    BY Zenon, SMT DEF CacheInv, CacheTypeOK
  <2> QED BY <1>1, <2>1 DEF InFlight
<1>7. \A k \in ClaimSearch : Current(k)'
  BY Zenon, SMT, <1>2 DEF Current
<1> QED BY Zenon, SMT, <1>3, <1>4, <1>5, <1>6, <1>7 DEF CacheInv

\* Heights only grow.
LEMMA BlockInv ==
  ASSUME CacheInv, Block
  PROVE  CacheInv'
<1> USE CacheAssumption
<1>1. UNCHANGED <<master, replica, pc, attempt, got, answer, height, purging, runs, purged>>
  BY Zenon, SMT DEF Block, store, flight, invalidator
<1>2. /\ chain \in Int /\ hub \in Int /\ purged \in Int /\ \A p \in Processes : height[p] \in Int
      /\ chain' \in Heights /\ hub' \in Heights /\ chain' >= chain /\ hub' >= hub
      /\ chain' \in Int /\ hub' \in Int
  BY DEF Block, CacheInv, CacheTypeOK, Heights
<1>3. CacheTypeOK'
  BY Zenon, SMT, <1>1, <1>2 DEF CacheInv, CacheTypeOK
<1>4. Bounded'
  BY <1>1, <1>2 DEF CacheInv, Bounded
<1>5. ASSUME NEW q \in Requests PROVE InFlight(q)'
  <2>1. InFlight(q)
    BY Zenon, SMT DEF CacheInv
  <2> QED BY <1>1, <1>2, <2>1 DEF InFlight
<1> QED BY Zenon, SMT, <1>1, <1>3, <1>4, <1>5 DEF CacheInv, NoErrorCached, Copies, Current

\* Entries expire, and replicas follow the master.
LEMMA RedisInv ==
  ASSUME CacheInv, NEW k0 \in Keys, Redis(k0)
  PROVE  CacheInv'
<1> USE CacheAssumption
<1>1. UNCHANGED <<chain, hub, pc, attempt, got, answer, height, purging, runs, purged>>
  BY Zenon, SMT DEF Redis, Expire, Replicate, flight, invalidator
<1>2. /\ master' \in [Keys -> Entry \cup {Miss}]
      /\ \A k \in Keys : master'[k] \in {master[k], Miss}
  BY Zenon, SMT DEF Redis, Expire, Replicate, CacheInv, CacheTypeOK
<1>3. /\ replica' \in [Replicas -> [Keys -> Entry \cup {Miss}]]
      /\ \A i \in Replicas, k \in Keys : replica'[i][k] \in {replica[i][k], master[k]}
  <2>1. CASE Expire(k0)
    BY Zenon, SMT, <2>1 DEF Expire, CacheInv, CacheTypeOK
  <2>2. ASSUME NEW i \in Replicas, Replicate(i, k0)
        PROVE  /\ replica' \in [Replicas -> [Keys -> Entry \cup {Miss}]]
               /\ \A j \in Replicas, k \in Keys : replica'[j][k] \in {replica[j][k], master[k]}
    BY Zenon, SMT, <2>2 DEF Replicate, CacheInv, CacheTypeOK
  <2> QED BY Zenon, SMT, <2>1, <2>2 DEF Redis
<1>4. CacheTypeOK'
  BY Zenon, SMT, <1>1, <1>2, <1>3 DEF CacheInv, CacheTypeOK
<1>5. NoErrorCached'
  <2>1. \A k \in Keys : master[k].answer # Failed
    BY Zenon, SMT DEF CacheInv, NoErrorCached, Copies
  <2>2. \A k \in Keys, i \in Replicas : replica[i][k].answer # Failed
    BY Zenon, SMT DEF CacheInv, NoErrorCached, Copies
  <2>3. \A k \in Keys : master'[k].answer # Failed
    BY Zenon, SMT, <1>2, <2>1, MissFacts
  <2>4. \A k \in Keys, i \in Replicas : replica'[i][k].answer # Failed
    BY Zenon, SMT, <1>3, <2>1, <2>2
  <2> QED BY Zenon, SMT, <2>3, <2>4 DEF NoErrorCached, Copies
<1>6. ASSUME NEW k \in ClaimSearch PROVE Current(k)'
  <2>1. Current(k) /\ master'[k] \in {master[k], Miss}
    BY Zenon, SMT, <1>2 DEF CacheInv
  <2> QED BY Zenon, SMT, <1>1, <2>1 DEF Current
<1> QED BY Zenon, SMT, <1>1, <1>4, <1>5, <1>6 DEF CacheInv, Bounded, InFlight

-----------------------------------------------------------------------------

\* Every step of requests, invalidators, Redis and the chain preserves CacheInv.
LEMMA CacheStep == CacheInv /\ [CacheNext]_cacheVars => CacheInv'
<1> SUFFICES ASSUME CacheInv, [CacheNext]_cacheVars PROVE CacheInv'
  OBVIOUS
<1>1. ASSUME NEW r \in Requests, Retrieve(r) PROVE CacheInv'
  BY Zenon, SMT, <1>1, AwayInv, MissedInv, GetterInv, SetInv DEF Retrieve
<1>2. ASSUME NEW p \in Processes, RunInvalidator(p) PROVE CacheInv'
  BY Zenon, SMT, <1>2, HeightInv, InvalidateInv DEF RunInvalidator
<1>3. CASE UNCHANGED cacheVars
  BY <1>3 DEF cacheVars, CacheInv, CacheTypeOK, Bounded, NoErrorCached, Copies, Current, InFlight
<1> QED BY Zenon, SMT, <1>1, <1>2, <1>3, RedisInv, BlockInv DEF CacheNext

\* CacheInv holds in every reachable state.
LEMMA CacheInvariance == CacheSpec => []CacheInv
  BY CacheInitInv, CacheStep, PTL DEF CacheSpec

\* No error is ever in the master or in a replica (Retrieve), and a stale answer to
\* claim_search is in the master only if its flight began before the last
\* invalidation or its SDK server was behind (runInvalidator).
THEOREM CacheSafety == CacheSpec => []CacheSafe
<1>1. CacheInv => StaleOnlyByRace
  <2> SUFFICES ASSUME CacheInv, NEW k \in ClaimSearch, master[k] # Miss,
                      master[k].answer < purged
               PROVE  master[k].stored = runs /\ (master[k].began < runs \/ master[k].behind)
    BY Zenon, SMT DEF StaleOnlyByRace
  <2>1. Current(k) /\ master[k] \in Entry /\ runs \in Nat /\ purged \in Int
    BY CacheAssumption DEF CacheInv, CacheTypeOK, Heights
  <2>2. master[k].answer \in Int /\ master[k].began \in Nat
    BY <2>1, CacheAssumption DEF Entry, Heights, Failed
  <2> QED BY <2>1, <2>2 DEF Current
<1>2. CacheInv => CacheSafe
  BY Zenon, SMT, <1>1 DEF CacheInv, CacheSafe
<1> QED BY <1>2, CacheInvariance, PTL

\* What a flight brings is what the SDK says at that moment (singleflight.Do).
THEOREM CacheFetchesCurrent == CacheSpec => FetchedIsCurrent
<1>1. ASSUME CacheInv, [CacheNext]_cacheVars, NEW r \in Requests, pc[r] # "set", pc'[r] = "set"
      PROVE  answer'[r] \in {hub, Failed}
  <2>1. pc \in [Requests -> {"idle", "fetch", "joined", "set", "direct", "done"}]
    BY Zenon, SMT, <1>1 DEF CacheInv, CacheTypeOK
  <2>2. PICK q \in Requests : Getter(q)
    <3>1. pc' # pc
      BY Zenon, SMT, <1>1
    <3>2. \E q \in Requests : Retrieve(q)
      BY Zenon, SMT, <1>1, <3>1 DEF CacheNext, RunInvalidator, GetHeight, Invalidate, InvalidateFails,
         Redis, Expire, Replicate, Block, flight, cacheVars
    <3>3. ASSUME NEW q \in Requests,
                 Hit(q) \/ Missed(q) \/ GetFails(q) \/ Direct(q) \/ Set(q) \/ SetFails(q)
          PROVE  pc'[r] # "set"
      BY Zenon, SMT, <1>1, <2>1, <3>3 DEF Hit, Missed, GetFails, Direct, Set, SetFails, Finish
    <3> QED BY Zenon, SMT, <1>1, <3>2, <3>3 DEF Retrieve
  <2>3. PICK a \in {hub, Failed, NoAnswer} : Land(q, a)
    BY Zenon, SMT, <1>1, <2>2 DEF Getter
  <2>4. r \in Landed(q) /\ Cacheable(a)
    BY Zenon, SMT, <1>1, <2>3 DEF Land
  <2> QED BY Zenon, SMT, <2>3, <2>4 DEF Land, Cacheable
<1>2. CacheInv /\ [CacheNext]_cacheVars =>
        [\A r \in Requests : pc[r] # "set" /\ pc'[r] = "set" => answer'[r] \in {hub, Failed}]_cacheVars
  BY Zenon, SMT, <1>1
<1> QED BY <1>2, CacheInvariance, PTL DEF CacheSpec, FetchedIsCurrent

-----------------------------------------------------------------------------
(* The get method.                                                         *)

\* Somebody who has bought a claim, or owns it.
Bought(r) ==
    \/ IsMyOutput(r)
    \/ Pair(r) \in onChain
    \/ user[r] # NoViewer /\ customer[Pair(r)].status \in {"confirmed", "submitted"}

\* A receipt is of a purchase on the chain, and what is on the chain was paid once.
StreamInv ==
    /\ StreamTypeOK
    /\ \A r \in Gets : receipt[r] => Pair(r) \in onChain
    /\ \A r \in Gets : shown[r] = "paid" => Bought(r)
    /\ \A p \in Pairs : payments[p] \in {0, 1} /\ (p \notin onChain => payments[p] = 0)

\* Nothing has been asked for or paid at first.
LEMMA StreamInitInv == StreamInit => StreamInv
<1> SUFFICES ASSUME StreamInit PROVE StreamInv
  OBVIOUS
<1>1. now \in 0 .. MaxTime
  BY StreamAssumption DEF StreamInit
<1>2. StreamTypeOK
  BY Zenon, SMT, <1>1 DEF StreamInit, StreamTypeOK, Answers
<1> QED BY Zenon, SMT, <1>2 DEF StreamInit, StreamInv

\* A get that changes nothing but itself.
LEMMA GetInv ==
  ASSUME StreamInv, UNCHANGED <<world, signature>>, NEW r \in Gets,
         NEW where \in {"new", "access", "fee", "buy", "receipt", "done"}, NEW a \in Answers,
         getPc' = [getPc EXCEPT ![r] = where],
         shown' = [shown EXCEPT ![r] = a] \/ shown' = shown,
         a = "paid" => Bought(r),
         receipt' = [receipt EXCEPT ![r] = Pair(r) \in receipts] \/ receipt' = receipt
  PROVE  StreamInv'
<1>1. /\ getPc \in [Gets -> {"new", "access", "fee", "buy", "receipt", "done"}]
      /\ receipt \in [Gets -> BOOLEAN] /\ shown \in [Gets -> Answers] /\ receipts \subseteq onChain
  BY Zenon, SMT DEF StreamInv, StreamTypeOK
<1>2. /\ getPc' \in [Gets -> {"new", "access", "fee", "buy", "receipt", "done"}]
      /\ receipt' \in [Gets -> BOOLEAN] /\ shown' \in [Gets -> Answers]
  <2>1. getPc' \in [Gets -> {"new", "access", "fee", "buy", "receipt", "done"}]
    BY Zenon, SMT, <1>1
  <2>2. shown' \in [Gets -> Answers]
    BY Zenon, SMT, <1>1
  <2>3. receipt' \in [Gets -> BOOLEAN]
    <3>1. \A b \in BOOLEAN : [receipt EXCEPT ![r] = b] \in [Gets -> BOOLEAN]
      BY Zenon, SMT, <1>1
    <3>2. (Pair(r) \in receipts) \in BOOLEAN
      OBVIOUS
    <3> QED BY Zenon, SMT, <1>1, <3>1, <3>2
  <2> QED BY Zenon, SMT, <2>1, <2>2, <2>3
<1>3. StreamTypeOK'
  BY Zenon, SMT, <1>2 DEF StreamInv, StreamTypeOK, world
<1>4. \A q \in Gets : Pair(q)' = Pair(q) /\ (Bought(q) => Bought(q)')
  BY Zenon, SMT DEF Pair, Bought, IsMyOutput, world
<1>5. \A q \in Gets : receipt'[q] => receipt[q] \/ Pair(q) \in receipts
  BY Zenon, SMT, <1>1
<1>6. \A q \in Gets : shown'[q] = "paid" => shown[q] = "paid" \/ Bought(q)
  BY Zenon, SMT, <1>1
<1> QED BY Zenon, SMT, <1>1, <1>3, <1>4, <1>5, <1>6 DEF StreamInv, world

\* The answers of internal-api about purchases.
LEMMA CustomerFacts ==
  ASSUME NEW r \in Gets, "valid" \in checkCustomerListPurchase(r)
  PROVE  user[r] # NoViewer /\ customer[Pair(r)].status \in {"confirmed", "submitted"}
  BY Zenon, SMT DEF checkCustomerListPurchase, Iapi

\* The claim is resolved.
LEMMA ResolveInv ==
  ASSUME StreamInv, NEW r \in Gets, Resolve(r) \/ ResolveAgain(r)
  PROVE  StreamInv'
<1>1. CASE Resolve(r)
  <2>1. UNCHANGED <<world, signature>>
    BY Zenon, SMT, <1>1 DEF Resolve
  <2>2. \/ getPc' = [getPc EXCEPT ![r] = "access"] /\ shown' = shown /\ receipt' = [receipt EXCEPT ![r] = Pair(r) \in receipts]
        \/ getPc' = [getPc EXCEPT ![r] = "done"] /\ shown' = [shown EXCEPT ![r] = "error"] /\ receipt' = receipt
    BY Zenon, SMT, <1>1 DEF Resolve, Go, Respond
  <2>3. "error" \in Answers /\ "error" # "paid"
    BY Zenon, SMT DEF Answers
  <2> QED BY Zenon, SMT, <2>1, <2>2, <2>3, GetInv
<1>2. CASE ResolveAgain(r)
  <2>1. UNCHANGED <<world, signature>> /\ receipt' = [receipt EXCEPT ![r] = Pair(r) \in receipts]
    BY Zenon, SMT, <1>2 DEF ResolveAgain
  <2>2. PICK a \in {"paid", "error"} :
          /\ getPc' = [getPc EXCEPT ![r] = "done"] /\ shown' = [shown EXCEPT ![r] = a]
          /\ a = "paid" => Pair(r) \in receipts
    BY Zenon, SMT, <1>2 DEF ResolveAgain, Respond
  <2>3. a \in Answers /\ (a = "paid" => Bought(r))
    BY Zenon, SMT, <2>2 DEF Answers, Bought, StreamInv, StreamTypeOK
  <2> QED BY Zenon, SMT, <2>1, <2>2, <2>3, GetInv
<1> QED BY Zenon, SMT, <1>1, <1>2

\* Access and fee are checked; only the second ends in "paid".
LEMMA CheckInv ==
  ASSUME StreamInv, NEW r \in Gets, CheckStreamAccess(r) \/ Fee(r)
  PROVE  StreamInv'
<1>1. UNCHANGED <<world, signature, receipt>>
  BY Zenon, SMT DEF CheckStreamAccess, Fee
<1>2. "error" \in Answers /\ "error" # "paid" /\ "signed" \in Answers /\ "signed" # "paid"
      /\ "plain" \in Answers /\ "plain" # "paid" /\ "paid" \in Answers
  BY Zenon, SMT DEF Answers
<1>3. CASE CheckStreamAccess(r)
  <2>1. \/ getPc' = [getPc EXCEPT ![r] = "fee"] /\ shown' = shown
        \/ \E a \in {"signed", "error"} : getPc' = [getPc EXCEPT ![r] = "done"] /\ shown' = [shown EXCEPT ![r] = a]
    BY Zenon, SMT, <1>3 DEF CheckStreamAccess, Go, Respond
  <2> QED BY Zenon, SMT, <1>1, <1>2, <2>1, GetInv
<1>4. CASE Fee(r)
  <2>1. receipt[r] => Bought(r)
    BY Zenon, SMT DEF StreamInv, Bought
  <2>2. "valid" \in checkCustomerListPurchase(r) => Bought(r)
    BY Zenon, SMT, CustomerFacts DEF Bought
  <2>3. IsMyOutput(r) => Bought(r)
    BY Zenon, SMT DEF Bought
  <2>4. \/ getPc' = [getPc EXCEPT ![r] = "buy"] /\ shown' = shown
        \/ getPc' = [getPc EXCEPT ![r] = "done"] /\ shown' = [shown EXCEPT ![r] = "plain"]
        \/ Bought(r) /\ getPc' = [getPc EXCEPT ![r] = "done"] /\ shown' = [shown EXCEPT ![r] = "paid"]
    BY Zenon, SMT, <1>4, <2>1, <2>2, <2>3 DEF Fee, Go, Respond
  <2> QED BY Zenon, SMT, <1>1, <1>2, <2>4, GetInv
<1> QED BY Zenon, SMT, <1>3, <1>4

\* A purchase is made if there is none on the chain.
LEMMA PurchaseCreateInv ==
  ASSUME StreamInv, NEW r \in Gets, PurchaseCreate(r)
  PROVE  StreamInv'
<1>1. UNCHANGED <<now, tags, user, customer, receipts, signature, receipt>>
  BY Zenon, SMT DEF PurchaseCreate
<1>2. "error" \in Answers /\ "error" # "paid"
  BY Zenon, SMT DEF Answers
<1>3. CASE UNCHANGED <<onChain, payments>> /\ Respond(r, "error")
  BY Zenon, SMT, <1>1, <1>2, <1>3, GetInv DEF Respond, world
<1>4. CASE /\ user[r] # NoViewer /\ ~AlreadyPurchased(r)
           /\ onChain' = onChain \cup {Pair(r)}
           /\ payments' = [payments EXCEPT ![Pair(r)] = @ + 1]
           /\ Go(r, "receipt") \/ Respond(r, "error")
  <2>1. Pair(r) \in Pairs /\ Pair(r) \notin onChain
    BY Zenon, SMT, <1>4, StreamAssumption DEF StreamInv, StreamTypeOK, Pair, Pairs, AlreadyPurchased
  <2>2. payments \in [Pairs -> Nat] /\ payments[Pair(r)] = 0
    BY Zenon, SMT, <2>1 DEF StreamInv, StreamTypeOK
  <2>3. payments[Pair(r)] + 1 = 1
    BY <2>2
  <2>4. payments' = [payments EXCEPT ![Pair(r)] = 1]
    BY Zenon, SMT, <1>4, <2>3
  <2>5. payments' \in [Pairs -> Nat] /\ \A p \in Pairs : payments'[p] = IF p = Pair(r) THEN 1 ELSE payments[p]
    <3>1. 1 \in Nat
      OBVIOUS
    <3> QED BY Zenon, SMT, <2>1, <2>2, <2>4, <3>1
  <2>6. /\ getPc' \in [Gets -> {"new", "access", "fee", "buy", "receipt", "done"}]
        /\ shown' \in [Gets -> Answers] /\ \A q \in Gets : shown'[q] = "paid" => shown[q] = "paid"
    BY SMTT(60), SMTT(45), <1>2, <1>4 DEF StreamInv, StreamTypeOK, Go, Respond
  <2>7. StreamTypeOK'
    BY SMTT(60), SMTT(45), <1>1, <1>4, <2>1, <2>5, <2>6 DEF StreamInv, StreamTypeOK
  <2>8. \A q \in Gets : Pair(q)' = Pair(q) /\ (Bought(q) => Bought(q)')
    BY Zenon, SMT, <1>1, <1>4 DEF Pair, Bought, IsMyOutput
  <2>9. \A p \in Pairs : payments'[p] \in {0, 1} /\ (p \notin onChain' => payments'[p] = 0)
    BY Zenon, SMT, <1>4, <2>5 DEF StreamInv
  <2> QED BY Zenon, SMT, <1>1, <1>4, <2>6, <2>7, <2>8, <2>9 DEF StreamInv
<1> QED BY Zenon, SMT, <1>3, <1>4 DEF PurchaseCreate

\* Time goes on, and purchases are made and become known.
LEMMA AroundInv ==
  ASSUME StreamInv, Tick \/ \E p \in Pairs : Purchase(p) \/ Propagate(p)
  PROVE  StreamInv'
<1>1. /\ UNCHANGED <<tags, user, onChain, payments, getPc, signature, receipt, shown>>
      /\ receipts' \subseteq onChain
  BY Zenon, SMT DEF Tick, Purchase, Propagate, StreamInv, StreamTypeOK
<1>2. now' \in 0 .. MaxTime
  <2>1. now \in 0 .. MaxTime /\ MaxTime \in Nat
    BY Zenon, SMT, StreamAssumption DEF StreamInv, StreamTypeOK
  <2>2. now' = now \/ (now < MaxTime /\ now' = now + 1)
    BY Zenon, SMT DEF Tick, Purchase, Propagate
  <2> QED BY <2>1, <2>2
<1>3. customer' \in [Pairs -> Purchases \cup {NoPurchase}]
  BY ZenonT(30), SMTT(60) DEF Tick, Purchase, Propagate, StreamInv, StreamTypeOK
<1>4. \A p \in Pairs : customer[p].status \in {"confirmed", "submitted"} => customer'[p] = customer[p]
  BY SMTT(60), SMTT(45) DEF Tick, Purchase, Propagate, StreamInv, StreamTypeOK, NoPurchase
<1>5. StreamTypeOK'
  BY Zenon, SMT, <1>1, <1>2, <1>3 DEF StreamInv, StreamTypeOK
<1>6. \A q \in Gets : user[q] # NoViewer => Pair(q) \in Pairs
  BY Zenon, SMT, StreamAssumption DEF StreamInv, StreamTypeOK, Pair, Pairs
<1>7. \A q \in Gets : Pair(q)' = Pair(q) /\ (Bought(q) => Bought(q)')
  BY Zenon, SMT, <1>1, <1>4, <1>6 DEF Pair, Bought, IsMyOutput
<1> QED BY Zenon, SMT, <1>1, <1>5, <1>7 DEF StreamInv

\* Every step keeps the invariant.
LEMMA StreamStep ==
  ASSUME StreamInv, [StreamNext]_streamVars
  PROVE  StreamInv'
<1>1. CASE UNCHANGED streamVars
  BY Zenon, SMT, <1>1 DEF streamVars, StreamInv, StreamTypeOK, Bought, Pair, IsMyOutput
<1>2. CASE StreamNext
  BY Zenon, SMT, <1>2, ResolveInv, CheckInv, PurchaseCreateInv, AroundInv DEF StreamNext, preflightHookGet
<1> QED BY Zenon, SMT, <1>1, <1>2

\* The invariant holds throughout.
LEMMA StreamInvariance == StreamSpec => []StreamInv
  BY StreamInitInv, StreamStep, PTL DEF StreamSpec

\* preflightHookGet, for any number of requests, users and claims and whatever answer
\* is late or lost: a stream with a fee is shown as paid only to its owner or to
\* somebody who has bought it, and nobody pays twice.
THEOREM StreamSafety == StreamSpec => []StreamSafe
<1>1. StreamInv => StreamSafe
  <2>1. SUFFICES ASSUME StreamInv PROVE PaidIsPaid /\ PaysOnce
    BY Zenon, SMT DEF StreamInv, StreamSafe
  <2>2. PaidIsPaid
    BY Zenon, SMT, <2>1 DEF StreamInv, PaidIsPaid, Bought
  <2>3. \A p \in Pairs : payments[p] \in {0, 1}
    BY Zenon, SMT, <2>1 DEF StreamInv
  <2>4. PaysOnce
    BY <2>3 DEF PaysOnce
  <2> QED BY Zenon, SMT, <2>2, <2>4
<1> QED BY <1>1, StreamInvariance, PTL

-----------------------------------------------------------------------------

\* Who may see a restricted stream.
Right(r) ==
    \/ IsMyOutput(r) \/ user[r] \in Mods
    \/ /\ accessType(ClaimOf(r)) = "unlisted" /\ signature[r] = "valid"
    \/ /\ user[r] # NoViewer
       /\ \/ accessType(ClaimOf(r)) = "memberonly" /\ user[r] \in Members
          \/ /\ customer[Pair(r)].status \in {"confirmed", "submitted"}
             /\ \/ accessType(ClaimOf(r)) = "purchase"
                \/ /\ accessType(ClaimOf(r)) = "rental"
                   /\ customer[Pair(r)].type = "rental" /\ now <= customer[Pair(r)].validThrough

\* Times are numbers.
LEMMA Times ==
  \A t, through \in 0 .. MaxTime : ~(t > through) => t <= through
  BY StreamAssumption

\* A "yes" of the branch for the tag that decides.
LEMMA AccessIsRight ==
  ASSUME StreamTypeOK, NEW r \in Gets,
         "yes" \in HasAccess(r, accessType(ClaimOf(r)))
  PROVE  Right(r)
<1> DEFINE type == accessType(ClaimOf(r))
<1> HIDE DEF type
<1>2. "yes" \in HasAccess(r, type)
  BY Zenon, SMT DEF type
<1>3. CASE type = "unlisted"
  BY Zenon, SMT, <1>2, <1>3 DEF HasAccess, Right, type
<1>4. type \in {"unlisted", "purchase", "rental", "memberonly"}
  BY Zenon, SMT, <1>2 DEF HasAccess
<1>5. CASE type = "purchase"
  <2>1. "valid" \in checkCustomerListPurchase(r)
    BY Zenon, SMT, <1>2, <1>5 DEF HasAccess
  <2> QED BY Zenon, SMT, <1>5, <2>1, CustomerFacts DEF Right, type
<1>6. CASE type = "rental"
  <2>1. /\ "valid" \in checkCustomerListPurchase(r) /\ customer[Pair(r)].type = "rental"
        /\ ~RentalOver(customer[Pair(r)])
    BY Zenon, SMT, <1>2, <1>6 DEF HasAccess
  <2>2. user[r] # NoViewer /\ customer[Pair(r)].status \in {"confirmed", "submitted"}
    BY Zenon, SMT, <2>1, CustomerFacts
  <2>3. now \in 0 .. MaxTime /\ customer[Pair(r)].validThrough \in 0 .. MaxTime
    <3>1. Pair(r) \in Pairs
      BY Zenon, SMT, <2>2, StreamAssumption DEF StreamTypeOK, Pair, Pairs
    <3>2. customer[Pair(r)] \in Purchases
      <4>1. NoPurchase.status \notin {"confirmed", "submitted"}
        BY Zenon, SMT DEF NoPurchase
      <4>2. customer[Pair(r)] \in Purchases \cup {NoPurchase}
        BY Zenon, SMT, <3>1 DEF StreamTypeOK
      <4> QED BY Zenon, SMT, <2>2, <4>1, <4>2
    <3> QED BY Zenon, SMT, <3>2 DEF Purchases, StreamTypeOK
  <2>4. now <= customer[Pair(r)].validThrough
    BY Zenon, SMT, <2>1, <2>3, Times DEF RentalOver
  <2> QED BY Zenon, SMT, <1>6, <2>1, <2>2, <2>4 DEF Right, type
<1>7. CASE type = "memberonly"
  <2>1. "yes" \in membershipPerkCheck(r)
    BY Zenon, SMT, <1>2, <1>7 DEF HasAccess
  <2>2. user[r] # NoViewer /\ user[r] \in Members
    BY Zenon, SMT, <2>1 DEF membershipPerkCheck, Iapi
  <2> QED BY Zenon, SMT, <1>7, <2>2 DEF Right, type
<1> QED BY Zenon, SMT, <1>3, <1>4, <1>5, <1>6, <1>7

\* checkStreamAccess answers with a signed URL only on one of these grounds.
LEMMA SignedIsRight ==
  ASSUME StreamInv, NEW r \in Gets, CheckStreamAccess(r), shown'[r] = "signed", shown[r] # "signed"
  PROVE  Right(r)
<1> DEFINE type == accessType(ClaimOf(r))
<1>1. StreamTypeOK /\ shown \in [Gets -> Answers]
  BY Zenon, SMT DEF StreamInv, StreamTypeOK
<1>2. ASSUME NEW a, Respond(r, a) PROVE a = "signed"
  BY Zenon, SMT, <1>1, <1>2 DEF Respond
<1>3. type # "" /\ ~IsMyOutput(r) => "yes" \in isUserAMod(r) \/ "yes" \in HasAccess(r, type)
  <2>1. SUFFICES ASSUME type # "", ~IsMyOutput(r), "yes" \notin isUserAMod(r)
                 PROVE  "yes" \in HasAccess(r, type)
    OBVIOUS
  <2> HIDE DEF type
  <2>2. \E a \in HasAccess(r, type) : Respond(r, IF a = "yes" THEN "signed" ELSE "error")
    BY Zenon, SMT, <2>1 DEF CheckStreamAccess, type
  <2> QED BY Zenon, SMT, <1>2, <2>2
<1>4. type # ""
  BY Zenon, SMT DEF CheckStreamAccess, Go
<1>5. "yes" \in isUserAMod(r) => user[r] \in Mods
  BY Zenon, SMT DEF isUserAMod, Iapi
<1>6. IsMyOutput(r) \/ user[r] \in Mods => Right(r)
  BY Zenon, SMT DEF Right
<1> QED BY Zenon, SMT, <1>1, <1>3, <1>4, <1>5, <1>6, AccessIsRight

\* No other step signs.
LEMMA SignedStep ==
  ASSUME StreamInv, StreamNext, NEW r \in Gets, shown'[r] = "signed", shown[r] # "signed"
  PROVE  Right(r)
<1>1. shown \in [Gets -> Answers]
  BY Zenon, SMT DEF StreamInv, StreamTypeOK
<1>2. PICK q \in Gets : preflightHookGet(q)
  BY Zenon, SMT DEF StreamNext, Tick, Purchase, Propagate
<1>3. CASE CheckStreamAccess(q)
  <2>1. q = r
    BY Zenon, SMT, <1>1, <1>3 DEF CheckStreamAccess, Go, Respond
  <2> QED BY Zenon, SMT, <1>3, <2>1, SignedIsRight
<1>4. ~CheckStreamAccess(q) => FALSE
  BY Zenon, SMT, <1>1, <1>2 DEF preflightHookGet, Resolve, Fee, PurchaseCreate, ResolveAgain, Go, Respond
<1> QED BY Zenon, SMT, <1>3, <1>4

\* checkStreamAccess signs a URL of a restricted stream only for its owner, a
\* moderator, a buyer, a renter in time, a member or a valid signature, as the tag
\* that decides asks for, at the moment it is asked.
THEOREM SignedSafety == StreamSpec => SignedNeedsRight
<1>1. ASSUME StreamInv, [StreamNext]_streamVars
      PROVE  [\A r \in Gets : shown[r] # "signed" /\ shown'[r] = "signed" =>
                \/ IsMyOutput(r) \/ user[r] \in Mods
                \/ /\ accessType(ClaimOf(r)) = "unlisted" /\ signature[r] = "valid"
                \/ /\ user[r] # NoViewer
                   /\ \/ accessType(ClaimOf(r)) = "memberonly" /\ user[r] \in Members
                      \/ /\ customer[Pair(r)].status \in {"confirmed", "submitted"}
                         /\ \/ accessType(ClaimOf(r)) = "purchase"
                            \/ /\ accessType(ClaimOf(r)) = "rental"
                               /\ customer[Pair(r)].type = "rental" /\ now <= customer[Pair(r)].validThrough
             ]_streamVars
  <2>1. CASE StreamNext
    <3>1. \A r \in Gets : shown[r] # "signed" /\ shown'[r] = "signed" => Right(r)
      BY Zenon, SMT, <1>1, <2>1, SignedStep
    <3> QED BY Zenon, SMT, <3>1 DEF Right
  <2> QED BY Zenon, SMT, <1>1, <2>1
<1> QED BY <1>1, StreamInvariance, PTL DEF StreamSpec, SignedNeedsRight

-----------------------------------------------------------------------------
(* A call through the proxy.                                               *)

\* What NewQuery has let through, with the wallet and the server it goes with.
Admitted(r) ==
    /\ NewQueryCode(r) = OK
    /\ wallet[r] = WalletOf(r)
    /\ endpoint[r] \in Servers
    /\ wallet[r] # NoUser => ServerOf(wallet[r]) \in {endpoint[r], NoServer}

\* All that a call has sent is the same query, and stays at one server if it has a
\* wallet; only what may be cached is fetched for the cache.
Calling(r) ==
    /\ callPc[r] \in {"new", "handle"} => sent[r] = {}
    /\ callPc[r] \in {"cache", "fetch", "joined", "send"} \/ sent[r] # {} => Admitted(r)
    /\ callPc[r] \in {"cache", "fetch", "joined"} => method[r] = "resolve"
    /\ \A q \in sent[r] :
          q.method = method[r] /\ q.wallet = wallet[r] /\ (wallet[r] # NoUser => q.server = endpoint[r])

Answered(r) ==
    callPc[r] = "done" =>
        /\ reply[r].from # NoServer => reply[r].wallet = wallet[r]
        /\ method[r] = "wallet_send" /\ reply[r].code \in {OK, RPCFailed} /\ sent[r] # {} => r \in audited

CallerInv ==
    /\ CallerTypeOK
    /\ \A r \in RpcCalls : Calling(r) /\ Answered(r)
    /\ \A k \in CacheKeys : cache[k].from # NoServer => cache[k].wallet = k[3]

\* The call is in its initial state.
LEMMA CallerInitInv == CallerInit => CallerInv
<1> SUFFICES ASSUME CallerInit PROVE CallerInv
  OBVIOUS
<1>1. callTry \in [RpcCalls -> 0 .. (CallRetries - 1)]
  <2>1. 0 \in 0 .. (CallRetries - 1)
    BY CallerAssumption
  <2> QED BY Zenon, SMT, <2>1 DEF CallerInit
<1>2. /\ NoReply \in [code : Int, wallet : Users0, from : Servers \cup {NoServer}] /\ NoReply.from = NoServer
      /\ "" \in Methods /\ "none" \in Params
      /\ [user |-> NoUser, err |-> "missing"] \in [user : Users0, err : {"nil", "missing", "invalid"}]
  BY DEF NoReply, OK, Users0, Methods, Params
<1>3. CallerTypeOK
  BY Zenon, SMT, <1>1, <1>2 DEF CallerInit, CallerTypeOK, Users0
<1>4. \A r \in RpcCalls : Calling(r) /\ Answered(r)
  BY Zenon, SMT DEF CallerInit, Calling, Answered
<1>5. \A k \in CacheKeys : cache[k].from # NoServer => cache[k].wallet = k[3]
  BY Zenon, SMT, <1>2 DEF CallerInit
<1> QED BY Zenon, SMT, <1>3, <1>4, <1>5 DEF CallerInv

\* Nothing changes for a call.
Still(q) ==
    /\ callPc'[q] = callPc[q] /\ method'[q] = method[q] /\ params'[q] = params[q] /\ cu'[q] = cu[q]
    /\ wallet'[q] = wallet[q] /\ endpoint'[q] = endpoint[q] /\ reply'[q] = reply[q] /\ sent'[q] = sent[q]
    /\ q \in audited => q \in audited'

\* A call for which nothing changes keeps what is known of it.
LEMMA StillInv ==
  ASSUME NEW q \in RpcCalls, Calling(q), Answered(q), Still(q)
  PROVE  Calling(q)' /\ Answered(q)'
<1>1. Admitted(q) => Admitted(q)'
  BY Zenon, SMT DEF Still, Admitted, NewQueryCode, WalletOf
<1>2. Calling(q)'
  BY Zenon, SMT, <1>1 DEF Still, Calling
<1>3. Answered(q)'
  BY Zenon, SMT DEF Still, Answered
<1> QED BY Zenon, SMT, <1>2, <1>3

\* The step of one call that leaves the cache alone.
LEMMA OneCall ==
  ASSUME CallerInv, NEW r \in RpcCalls, CallerTypeOK', cache' = cache,
         \A q \in RpcCalls \ {r} : Still(q), Calling(r)', Answered(r)'
  PROVE  CallerInv'
<1>1. \A q \in RpcCalls : Calling(q)' /\ Answered(q)'
  BY Zenon, SMT, StillInv DEF CallerInv
<1> QED BY Zenon, SMT, <1>1 DEF CallerInv

\* What a call may be answered with.
ErrorCodes == {Internal, SDKError, AuthRequired, JSONParse, InvalidParams, MethodNotAllowed, OK, RPCFailed, Panicked}

\* Codes are numbers, and these are different.
LEMMA CodeFacts ==
  /\ \A code \in ErrorCodes : [NoReply EXCEPT !.code = code] \in [code : Int, wallet : Users0, from : Servers \cup {NoServer}]
  /\ \A code \in ErrorCodes : [NoReply EXCEPT !.code = code].from = NoServer /\ [NoReply EXCEPT !.code = code].code = code
  /\ Internal # OK /\ Internal # RPCFailed
  BY DEF ErrorCodes, Internal, SDKError, AuthRequired, JSONParse, InvalidParams, MethodNotAllowed, OK, RPCFailed,
         Panicked, NoReply, Users0

\* The middlewares find a user, none, or an error.
LEMMA MiddlewareFacts ==
  ASSUME NEW oauth \in BOOLEAN, NEW legacy \in BOOLEAN,
         NEW first \in Middleware(oauth), NEW u \in LegacyMiddleware(first, legacy)
  PROVE  u \in [user : Users0, err : {"nil", "missing", "invalid"}]
<1>1. first \in [user : Users0, err : {"nil", "missing", "invalid"}]
  BY SMTT(60), SMTT(45) DEF Middleware, Users0
<1> QED BY SMTT(60), SMTT(45), <1>1 DEF LegacyMiddleware, Users0

\* The middlewares run before anything is sent.
LEMMA AuthenticateInv ==
  ASSUME CallerInv, NEW r \in RpcCalls, Authenticate(r)
  PROVE  CallerInv'
<1>1. PICK kind \in {"none", "oauth", "legacy"}, ask \in Asks :
          /\ \E first \in Middleware(kind = "oauth") :
                \E u \in LegacyMiddleware(first, kind = "legacy") : cu' = [cu EXCEPT ![r] = u]
          /\ method' = [method EXCEPT ![r] = ask[1]]
          /\ params' = [params EXCEPT ![r] = ask[2]]
  BY Zenon, SMT DEF Authenticate
<1>2. ask[1] \in Methods /\ ask[2] \in Params
  BY Zenon, SMT, AsksAssumption
<1>3. \E u \in [user : Users0, err : {"nil", "missing", "invalid"}] : cu' = [cu EXCEPT ![r] = u]
  <2>1. (kind = "oauth") \in BOOLEAN /\ (kind = "legacy") \in BOOLEAN
    OBVIOUS
  <2> QED BY Zenon, SMT, <1>1, <2>1, MiddlewareFacts
<1>4. /\ callPc[r] = "new" /\ callPc' = [callPc EXCEPT ![r] = "handle"]
      /\ UNCHANGED <<wallet, endpoint, backups, callTry, reply, cache, sent, audited>>
  BY Zenon, SMT DEF Authenticate
<1>5. CallerTypeOK'
  BY SMTT(60), SMTT(45), <1>1, <1>2, <1>3, <1>4 DEF CallerInv, CallerTypeOK
<1>6. \A q \in RpcCalls \ {r} : Still(q)
  BY ZenonT(30), SMTT(60), <1>1, <1>3, <1>4 DEF CallerInv, CallerTypeOK, Still
<1>7. callPc'[r] = "handle" /\ sent'[r] = {}
  BY Zenon, SMT, <1>4 DEF CallerInv, CallerTypeOK, Calling
<1> QED BY Zenon, SMT, <1>4, <1>5, <1>6, <1>7, OneCall DEF Calling, Answered

\* A call that is refused has sent nothing.
LEMMA RefuseInv ==
  ASSUME CallerInv, NEW r \in RpcCalls, callPc[r] = "handle", NEW code \in ErrorCodes, Refuse(r, code),
         UNCHANGED <<input, callTry, cache, sent, audited>>,
         wallet' \in [RpcCalls -> Users0], endpoint' \in [RpcCalls -> Servers \cup {NoServer}],
         backups' \in [RpcCalls -> SUBSET Servers],
         \A q \in RpcCalls \ {r} : wallet'[q] = wallet[q] /\ endpoint'[q] = endpoint[q]
  PROVE  CallerInv'
<1> DEFINE a == [NoReply EXCEPT !.code = code]
<1>1. a \in [code : Int, wallet : Users0, from : Servers \cup {NoServer}] /\ a.from = NoServer
  BY Zenon, SMT, CodeFacts
<1>2. callPc' = [callPc EXCEPT ![r] = "done"] /\ reply' = [reply EXCEPT ![r] = a]
  BY Zenon, SMT DEF Refuse, Answer
<1> HIDE DEF a
<1>3. CallerTypeOK'
  BY Zenon, SMT, <1>1, <1>2 DEF CallerInv, CallerTypeOK, input
<1>4. \A q \in RpcCalls \ {r} : Still(q)
  BY Zenon, SMT, <1>2 DEF CallerInv, CallerTypeOK, Still, input
<1>5. callPc'[r] = "done" /\ reply'[r] = a /\ sent'[r] = {}
  BY Zenon, SMT, <1>2 DEF CallerInv, CallerTypeOK, Calling
<1> QED BY Zenon, SMT, <1>1, <1>3, <1>4, <1>5, OneCall DEF Calling, Answered

\* proxy.Handle refuses a body that it cannot read and a user it does not know.
LEMMA TurnedAwayInv ==
  ASSUME CallerInv, NEW r \in RpcCalls, BadBody(r) \/ AuthFails(r)
  PROVE  CallerInv'
<1>1. JSONParse \in ErrorCodes /\ Internal \in ErrorCodes
  BY Zenon, SMT DEF ErrorCodes
<1>2. /\ wallet \in [RpcCalls -> Users0] /\ endpoint \in [RpcCalls -> Servers \cup {NoServer}]
      /\ backups \in [RpcCalls -> SUBSET Servers]
  BY Zenon, SMT DEF CallerInv, CallerTypeOK
<1>3. /\ callPc[r] = "handle"
      /\ Refuse(r, JSONParse) \/ Refuse(r, Internal)
      /\ UNCHANGED <<input, wallet, endpoint, backups, callTry, cache, sent, audited>>
  BY Zenon, SMT DEF BadBody, AuthFails
<1> QED BY Zenon, SMT, <1>1, <1>2, <1>3, RefuseInv

\* NewQuery and the preflight hooks: refused, answered, or on its way with the
\* wallet and the server of its user.
LEMMA HandleInv ==
  ASSUME CallerInv, NEW r \in RpcCalls, Handle(r)
  PROVE  CallerInv'
<1> DEFINE code == NewQueryCode(r)
           own == cu[r].user # NoUser /\ ServerOf(cu[r].user) # NoServer
<1>1. /\ callPc[r] = "handle" /\ sent[r] = {} /\ method[r] \in Methods /\ cu[r].user \in Users0
      /\ UNCHANGED <<input, callTry, cache, sent, audited>>
  BY Zenon, SMT DEF Handle, CallerInv, CallerTypeOK, Calling
<1>2. PICK s \in (IF own THEN {ServerOf(cu[r].user)} ELSE Servers) : endpoint' = [endpoint EXCEPT ![r] = s]
  BY Zenon, SMT DEF Handle
<1>3. s \in Servers /\ (own => s = ServerOf(cu[r].user))
  BY Zenon, SMT, <1>1, <1>2, CallerAssumption DEF Users0
<1>4. WalletOf(r) \in Users0 /\ (WalletOf(r) # NoUser => WalletOf(r) = cu[r].user)
  BY Zenon, SMT, <1>1 DEF WalletOf, Users0
<1>5. wallet' = [wallet EXCEPT ![r] = WalletOf(r)]
  BY Zenon, SMT DEF Handle
<1>6. /\ wallet' \in [RpcCalls -> Users0] /\ endpoint' \in [RpcCalls -> Servers \cup {NoServer}]
      /\ wallet'[r] = WalletOf(r) /\ endpoint'[r] = s
      /\ \A q \in RpcCalls \ {r} : wallet'[q] = wallet[q] /\ endpoint'[q] = endpoint[q]
  BY Zenon, SMT, <1>2, <1>3, <1>4, <1>5 DEF CallerInv, CallerTypeOK
<1>7. backups' \in [RpcCalls -> SUBSET Servers]
  BY Zenon, SMT DEF Handle, CallerInv, CallerTypeOK
<1>8. code \in ErrorCodes
  BY Zenon, SMT DEF NewQueryCode, ErrorCodes
<1>9. CASE Refuse(r, code)
  <2> HIDE DEF code
  <2> QED BY Zenon, SMT, <1>1, <1>6, <1>7, <1>8, <1>9, RefuseInv
<1>10. CASE code = OK /\ PreflightHook(method[r]) # "status"
            /\ callPc' = [callPc EXCEPT ![r] = PreflightHook(method[r])] /\ UNCHANGED reply
  <2>1. /\ PreflightHook(method[r]) \in {"cache", "send"}
        /\ PreflightHook(method[r]) = "cache" => method[r] = "resolve"
    BY Zenon, SMT, <1>10 DEF PreflightHook
  <2>2. CallerTypeOK'
    BY Zenon, SMT, <1>1, <1>6, <1>7, <1>10, <2>1 DEF CallerInv, CallerTypeOK, input
  <2>3. \A q \in RpcCalls \ {r} : Still(q)
    BY Zenon, SMT, <1>1, <1>6, <1>10, <2>1 DEF CallerInv, CallerTypeOK, Still, input
  <2>4. callPc'[r] \in {"cache", "send"} /\ (callPc'[r] = "cache" => method'[r] = "resolve") /\ sent'[r] = {}
    BY Zenon, SMT, <1>1, <1>10, <2>1 DEF CallerInv, CallerTypeOK, input
  <2>5. WalletOf(r)' = WalletOf(r) /\ NewQueryCode(r)' = NewQueryCode(r)
    BY Zenon, SMT, <1>1 DEF WalletOf, NewQueryCode, input
  <2>6. Admitted(r)'
    BY Zenon, SMT, <1>3, <1>4, <1>6, <1>10, <2>5 DEF Admitted
  <2> QED BY Zenon, SMT, <1>1, <2>2, <2>3, <2>4, <2>6, OneCall DEF Calling, Answered
<1> QED BY Zenon, SMT, <1>9, <1>10 DEF Handle

\* What is sent is the query of the call.
LEMMA SendFacts ==
  ASSUME CallerInv, NEW r \in RpcCalls, SendTo(r), callPc[r] \in {"send", "fetch"}
  PROVE  /\ sent' \in [RpcCalls -> SUBSET Sent]
         /\ \A q \in RpcCalls \ {r} : sent'[q] = sent[q]
         /\ sent'[r] # {}
         /\ \A q \in sent'[r] : q.method = method[r] /\ q.wallet = wallet[r]
                                /\ (wallet[r] # NoUser => q.server = endpoint[r])
<1> DEFINE new == [method |-> method[r], wallet |-> wallet[r], server |-> endpoint[r]]
<1>1. new \in Sent
  BY Zenon, SMT DEF CallerInv, CallerTypeOK, Calling, Admitted, Sent
<1>2. new.method = method[r] /\ new.wallet = wallet[r] /\ new.server = endpoint[r]
  OBVIOUS
<1>3. sent' = [sent EXCEPT ![r] = sent[r] \cup {new}] /\ sent \in [RpcCalls -> SUBSET Sent] /\ Calling(r)
  BY Zenon, SMT DEF SendTo, CallerInv, CallerTypeOK
<1> HIDE DEF new
<1>4. sent' \in [RpcCalls -> SUBSET Sent] /\ sent'[r] = sent[r] \cup {new}
      /\ \A q \in RpcCalls \ {r} : sent'[q] = sent[q]
  BY Zenon, SMT, <1>1, <1>3
<1> QED BY Zenon, SMT, <1>2, <1>3, <1>4 DEF Calling

\* What the SDK answers is about the wallet of the call.
LEMMA OutcomeFacts ==
  ASSUME CallerInv, NEW r \in RpcCalls, callPc[r] \in {"send", "fetch"},
         NEW a \in Outcome(r) \cup {[NoReply EXCEPT !.code = Internal]}
  PROVE  /\ a \in [code : Int, wallet : Users0, from : Servers \cup {NoServer}]
         /\ a.from # NoServer => a.wallet = wallet[r]
         /\ a.code = OK => a \in [code : {OK}, wallet : Users0, from : Servers] /\ a.wallet = wallet[r]
<1> DEFINE good == [code |-> OK, wallet |-> wallet[r], from |-> endpoint[r]]
<1>1. OK \in Int /\ RPCFailed \in ErrorCodes /\ Internal \in ErrorCodes /\ RPCFailed # OK /\ Internal # OK
  BY DEF OK, RPCFailed, Internal, ErrorCodes
<1>2. endpoint[r] \in Servers /\ wallet[r] \in Users0
  BY Zenon, SMT DEF CallerInv, CallerTypeOK, Calling, Admitted
<1>3. /\ good \in [code : {OK}, wallet : Users0, from : Servers]
      /\ good \in [code : Int, wallet : Users0, from : Servers \cup {NoServer}] /\ good.wallet = wallet[r]
  BY Zenon, SMT, <1>1, <1>2
<1>4. CASE a = good
  BY Zenon, SMT, <1>3, <1>4
<1>5. CASE \E code \in {RPCFailed, Internal} : a = [NoReply EXCEPT !.code = code]
  BY Zenon, SMT, <1>1, <1>5, CodeFacts
<1> QED BY ZenonT(30), SMTT(60), <1>4, <1>5 DEF Outcome

\* SendQuery, for what is not cached; wallet_send is in the log with its answer.
LEMMA SendQueryInv ==
  ASSUME CallerInv, NEW r \in RpcCalls, SendQuery(r)
  PROVE  CallerInv'
<1>1. callPc[r] = "send" /\ SendTo(r) /\ UNCHANGED <<input, wallet, endpoint, backups, callTry, cache>>
  BY Zenon, SMT DEF SendQuery
<1>2. PICK a \in Outcome(r) \cup {[NoReply EXCEPT !.code = Internal]} : Answer(r, a) /\ Postflight(r, a.code)
  BY Zenon, SMT DEF SendQuery
<1>3. /\ a \in [code : Int, wallet : Users0, from : Servers \cup {NoServer}]
      /\ a.from # NoServer => a.wallet = wallet[r]
  BY Zenon, SMT, <1>1, <1>2, OutcomeFacts
<1>4. callPc' = [callPc EXCEPT ![r] = "done"] /\ reply' = [reply EXCEPT ![r] = a]
  BY Zenon, SMT, <1>2 DEF Answer
<1>5. /\ audited \subseteq audited' /\ audited' \subseteq RpcCalls
      /\ method[r] = "wallet_send" /\ a.code \in {OK, RPCFailed} => r \in audited'
  BY Zenon, SMT, <1>2, CodeFacts DEF Postflight, CallerInv, CallerTypeOK
<1>6. /\ sent' \in [RpcCalls -> SUBSET Sent]
      /\ \A q \in RpcCalls \ {r} : sent'[q] = sent[q]
      /\ \A q \in sent'[r] : q.method = method[r] /\ q.wallet = wallet[r]
                             /\ (wallet[r] # NoUser => q.server = endpoint[r])
  BY Zenon, SMT, <1>1, SendFacts
<1>7. CallerTypeOK'
  BY Zenon, SMT, <1>1, <1>3, <1>4, <1>5, <1>6 DEF CallerInv, CallerTypeOK, input
<1>8. \A q \in RpcCalls \ {r} : Still(q)
  BY Zenon, SMT, <1>1, <1>4, <1>5, <1>6 DEF CallerInv, CallerTypeOK, Still, input
<1>9. callPc'[r] = "done" /\ reply'[r] = a
  BY Zenon, SMT, <1>4 DEF CallerInv, CallerTypeOK
<1>10. Admitted(r)'
  <2>1. Admitted(r)
    BY Zenon, SMT, <1>1 DEF CallerInv, Calling
  <2>2. WalletOf(r)' = WalletOf(r) /\ NewQueryCode(r)' = NewQueryCode(r)
    BY Zenon, SMT, <1>1 DEF WalletOf, NewQueryCode, input
  <2> QED BY Zenon, SMT, <1>1, <2>1, <2>2 DEF Admitted
<1>11. Calling(r)' /\ Answered(r)'
  BY Zenon, SMT, <1>1, <1>3, <1>5, <1>6, <1>9, <1>10 DEF Calling, Answered, input
<1> QED BY Zenon, SMT, <1>1, <1>7, <1>8, <1>11, OneCall

\* The key of a call that may be cached, with its wallet.
LEMMA KeyFacts ==
  ASSUME CallerInv, NEW r \in RpcCalls, callPc[r] \in {"cache", "fetch", "joined"}
  PROVE  Key(r) \in CacheKeys /\ Key(r)[3] = wallet[r] /\ method[r] = "resolve"
  BY Zenon, SMT DEF CallerInv, CallerTypeOK, Calling, Key, CacheKeys

\* What is cached under the key of the call is about its wallet.
LEMMA CacheHitInv ==
  ASSUME CallerInv, NEW r \in RpcCalls, CacheHit(r)
  PROVE  CallerInv'
<1> DEFINE a == cache[Key(r)]
<1>1. /\ callPc[r] = "cache" /\ callPc' = [callPc EXCEPT ![r] = "done"] /\ reply' = [reply EXCEPT ![r] = a]
      /\ UNCHANGED <<input, wallet, endpoint, backups, callTry, cache, sent, audited>>
  BY Zenon, SMT DEF CacheHit, Answer
<1>2. Key(r) \in CacheKeys /\ Key(r)[3] = wallet[r] /\ method[r] = "resolve"
  BY Zenon, SMT, <1>1, KeyFacts
<1>3. a \in [code : Int, wallet : Users0, from : Servers \cup {NoServer}]
  <2>1. a \in [code : {OK}, wallet : Users0, from : Servers] \cup {NoReply}
    BY Zenon, SMT, <1>2 DEF CallerInv, CallerTypeOK
  <2>2. OK \in Int /\ NoReply \in [code : Int, wallet : Users0, from : Servers \cup {NoServer}]
    BY DEF OK, NoReply, Users0
  <2> QED BY Zenon, SMT, <2>1, <2>2
<1>4. a.from # NoServer => a.wallet = wallet[r]
  BY Zenon, SMT, <1>2 DEF CallerInv
<1> HIDE DEF a
<1>5. CallerTypeOK'
  BY Zenon, SMT, <1>1, <1>3 DEF CallerInv, CallerTypeOK, input
<1>6. \A q \in RpcCalls \ {r} : Still(q)
  BY Zenon, SMT, <1>1 DEF CallerInv, CallerTypeOK, Still, input
<1>7. callPc'[r] = "done" /\ reply'[r] = a /\ method'[r] = "resolve" /\ wallet'[r] = wallet[r]
  BY Zenon, SMT, <1>1, <1>2 DEF CallerInv, CallerTypeOK, input
<1>8. Calling(r) /\ (Admitted(r) => Admitted(r)')
  BY Zenon, SMT, <1>1 DEF CallerInv, Admitted, WalletOf, NewQueryCode, input
<1>9. Calling(r)' /\ Answered(r)'
  BY Zenon, SMT, <1>1, <1>4, <1>7, <1>8 DEF Calling, Answered, input
<1> QED BY Zenon, SMT, <1>1, <1>5, <1>6, <1>9, OneCall

\* The call fetches, waits for who fetches the same, or does without the cache.
LEMMA CacheMissedInv ==
  ASSUME CallerInv, NEW r \in RpcCalls, CacheMissed(r)
  PROVE  CallerInv'
<1>1. callPc[r] = "cache" /\ UNCHANGED <<input, wallet, endpoint, backups, callTry, reply, cache, sent, audited>>
  BY Zenon, SMT DEF CacheMissed
<1>2. PICK where \in {"joined", "fetch", "send"} : callPc' = [callPc EXCEPT ![r] = where]
  BY Zenon, SMT DEF CacheMissed
<1>3. CallerTypeOK'
  BY Zenon, SMT, <1>1, <1>2 DEF CallerInv, CallerTypeOK, input
<1>4. \A q \in RpcCalls \ {r} : Still(q)
  BY Zenon, SMT, <1>1, <1>2 DEF CallerInv, CallerTypeOK, Still, input
<1>5. callPc'[r] = where /\ Calling(r) /\ (Admitted(r) => Admitted(r)')
  BY Zenon, SMT, <1>1, <1>2 DEF CallerInv, CallerTypeOK, Admitted, WalletOf, NewQueryCode, input
<1>6. Calling(r)' /\ Answered(r)'
  BY Zenon, SMT, <1>1, <1>5 DEF Calling, Answered, input
<1> QED BY Zenon, SMT, <1>1, <1>3, <1>4, <1>6, OneCall

\* A flight lands with an answer about the wallet of its key, for all who wait.
LEMMA LandFlightInv ==
  ASSUME CallerInv, NEW r \in RpcCalls, callPc[r] = "fetch", SendTo(r), NEW a, LandFlight(r, a),
         a \in [code : Int, wallet : Users0, from : Servers \cup {NoServer}],
         a.from # NoServer => a.wallet = wallet[r],
         a.code = OK => a \in [code : {OK}, wallet : Users0, from : Servers],
         UNCHANGED <<input, wallet, backups, callTry, audited>>,
         endpoint' \in [RpcCalls -> Servers \cup {NoServer}],
         endpoint'[r] \in Servers, wallet[r] # NoUser => endpoint'[r] = endpoint[r],
         \A q \in RpcCalls \ {r} : endpoint'[q] = endpoint[q]
  PROVE  CallerInv'
<1>1. Key(r) \in CacheKeys /\ Key(r)[3] = wallet[r] /\ method[r] = "resolve"
  BY Zenon, SMT, KeyFacts
<1>2. /\ sent' \in [RpcCalls -> SUBSET Sent]
      /\ \A q \in RpcCalls \ {r} : sent'[q] = sent[q]
      /\ \A q \in sent'[r] : q.method = method[r] /\ q.wallet = wallet[r]
                             /\ (wallet[r] # NoUser => q.server = endpoint[r])
  BY Zenon, SMT, SendFacts
<1>3. \A q \in Flight(r) : q \in RpcCalls /\ wallet[q] = wallet[r] /\ method[q] = "resolve"
  BY Zenon, SMT, <1>1, KeyFacts DEF Flight, SameFlight
<1>4. /\ callPc' = [q \in RpcCalls |-> IF q \in Flight(r) THEN "done" ELSE callPc[q]]
      /\ reply' = [q \in RpcCalls |-> IF q \in Flight(r) THEN a ELSE reply[q]]
      /\ cache' = IF a.code = OK THEN [cache EXCEPT ![Key(r)] = a] ELSE cache
  BY Zenon, SMT DEF LandFlight
<1>5. /\ cache' \in [CacheKeys -> [code : {OK}, wallet : Users0, from : Servers] \cup {NoReply}]
      /\ \A k \in CacheKeys : cache'[k].from # NoServer => cache'[k].wallet = k[3]
  BY Zenon, SMT, <1>1, <1>4 DEF CallerInv, CallerTypeOK
<1>6. CallerTypeOK'
  <2>1. callPc' \in [RpcCalls -> {"new", "handle", "cache", "fetch", "joined", "send", "done"}]
    BY Zenon, SMT, <1>4 DEF CallerInv, CallerTypeOK
  <2>2. reply' \in [RpcCalls -> [code : Int, wallet : Users0, from : Servers \cup {NoServer}]]
    BY Zenon, SMT, <1>4 DEF CallerInv, CallerTypeOK
  <2> QED BY Zenon, SMT, <1>2, <1>5, <2>1, <2>2 DEF CallerInv, CallerTypeOK, input
<1>7. ASSUME NEW q \in RpcCalls PROVE Calling(q)' /\ Answered(q)'
  <2>1. CASE q \notin Flight(r)
    <3>1. q # r
      BY Zenon, SMT, <2>1 DEF Flight
    <3>2. Still(q)
      BY Zenon, SMT, <1>2, <1>4, <2>1, <3>1 DEF Still, input
    <3> QED BY Zenon, SMT, <3>2, StillInv DEF CallerInv
  <2>2. CASE q \in Flight(r)
    <3>1. callPc'[q] = "done" /\ reply'[q] = a /\ wallet[q] = wallet[r] /\ method[q] = "resolve"
      BY Zenon, SMT, <1>3, <1>4, <2>2
    <3>2. Answered(q)'
      BY Zenon, SMT, <3>1 DEF Answered, input
    <3>3. Admitted(q) /\ Calling(q)
      BY Zenon, SMT, <2>2 DEF CallerInv, Calling, Flight
    <3>4. Admitted(q)'
      <4>1. WalletOf(q)' = WalletOf(q) /\ NewQueryCode(q)' = NewQueryCode(q)
        BY Zenon, SMT DEF WalletOf, NewQueryCode, input
      <4> QED BY Zenon, SMT, <3>3, <4>1 DEF Admitted
    <3>5. Calling(q)'
      BY ZenonT(30), SMTT(60), <1>2, <3>1, <3>3, <3>4 DEF Calling, input
    <3> QED BY Zenon, SMT, <3>2, <3>5
  <2> QED BY Zenon, SMT, <2>1, <2>2
<1> QED BY Zenon, SMT, <1>5, <1>6, <1>7 DEF CallerInv

\* Attempts are counted up to the limit.
LEMMA TryFacts ==
  ASSUME NEW n \in 0 .. (CallRetries - 1), n + 1 # CallRetries
  PROVE  n + 1 \in 0 .. (CallRetries - 1)
  BY CallerAssumption

\* The next attempt of a call with a wallet goes to the same server.
LEMMA FetchInv ==
  ASSUME CallerInv, NEW r \in RpcCalls, Fetch(r)
  PROVE  CallerInv'
<1>1. callPc[r] = "fetch" /\ SendTo(r) /\ UNCHANGED <<input, wallet, backups, audited>>
  BY Zenon, SMT DEF Fetch
<1>2. /\ endpoint \in [RpcCalls -> Servers \cup {NoServer}] /\ endpoint[r] \in Servers
      /\ callTry \in [RpcCalls -> 0 .. (CallRetries - 1)]
  BY Zenon, SMT, <1>1 DEF CallerInv, CallerTypeOK, Calling, Admitted
<1>3. OK \in ErrorCodes /\ SDKError \in ErrorCodes /\ RPCFailed \in ErrorCodes /\ Panicked \in ErrorCodes
      /\ SDKError # OK /\ RPCFailed # OK /\ Panicked # OK
  BY DEF ErrorCodes, OK, SDKError, RPCFailed, Panicked
<1>4. CASE \E a \in Outcome(r) : LandFlight(r, a) /\ UNCHANGED <<endpoint, callTry>>
  <2>1. PICK a \in Outcome(r) : LandFlight(r, a) /\ UNCHANGED <<endpoint, callTry>>
    BY Zenon, SMT, <1>4
  <2>2. /\ a \in [code : Int, wallet : Users0, from : Servers \cup {NoServer}]
        /\ a.from # NoServer => a.wallet = wallet[r]
        /\ a.code = OK => a \in [code : {OK}, wallet : Users0, from : Servers]
    BY Zenon, SMT, <1>1, <2>1, OutcomeFacts
  <2> QED BY Zenon, SMT, <1>1, <1>2, <2>1, <2>2, LandFlightInv
<1>5. ASSUME NEW code \in {SDKError, RPCFailed, Panicked}, LandFlight(r, [NoReply EXCEPT !.code = code]),
             UNCHANGED callTry,
             endpoint' \in [RpcCalls -> Servers \cup {NoServer}],
             endpoint'[r] \in Servers, wallet[r] # NoUser => endpoint'[r] = endpoint[r],
             \A q \in RpcCalls \ {r} : endpoint'[q] = endpoint[q]
      PROVE  CallerInv'
  <2> DEFINE a == [NoReply EXCEPT !.code = code]
  <2>1. /\ a \in [code : Int, wallet : Users0, from : Servers \cup {NoServer}]
        /\ a.from = NoServer /\ a.code # OK
    BY Zenon, SMT, <1>3, <1>5, CodeFacts
  <2>2. LandFlight(r, a)
    BY Zenon, SMT, <1>5
  <2> HIDE DEF a
  <2> QED BY Zenon, SMT, <1>1, <1>5, <2>1, <2>2, LandFlightInv
<1>6. CASE LandFlight(r, [NoReply EXCEPT !.code = Panicked]) /\ UNCHANGED <<endpoint, callTry>>
  BY Zenon, SMT, <1>2, <1>5, <1>6
<1>7. ASSUME NEW s \in Exendpoints(r), endpoint' = [endpoint EXCEPT ![r] = s],
             IF ~LastAttempt(r)
             THEN callTry' = [callTry EXCEPT ![r] = @ + 1] /\ UNCHANGED <<callPc, reply, cache>>
             ELSE UNCHANGED callTry /\ \E code \in {SDKError, RPCFailed} :
                     LandFlight(r, [NoReply EXCEPT !.code = code])
      PROVE  CallerInv'
  <2>1. s \in Servers /\ (wallet[r] # NoUser => s = endpoint[r])
    BY Zenon, SMT, <1>2, <1>7 DEF Exendpoints, CallerInv, CallerTypeOK
  <2>2. /\ endpoint' \in [RpcCalls -> Servers \cup {NoServer}] /\ endpoint'[r] = s
        /\ \A q \in RpcCalls \ {r} : endpoint'[q] = endpoint[q]
    BY Zenon, SMT, <1>2, <1>7, <2>1
  <2>3. CASE LastAttempt(r)
    BY Zenon, SMT, <1>5, <1>7, <2>1, <2>2, <2>3
  <2>4. CASE ~LastAttempt(r)
    <3>1. callTry' = [callTry EXCEPT ![r] = callTry[r] + 1] /\ UNCHANGED <<callPc, reply, cache>>
      BY Zenon, SMT, <1>7, <2>4
    <3>2. callTry[r] + 1 \in 0 .. (CallRetries - 1)
      BY Zenon, SMT, <1>2, <2>4, TryFacts DEF LastAttempt
    <3>3. callTry' \in [RpcCalls -> 0 .. (CallRetries - 1)]
      BY Zenon, SMT, <1>2, <3>1, <3>2
    <3>4. /\ sent' \in [RpcCalls -> SUBSET Sent]
          /\ \A q \in RpcCalls \ {r} : sent'[q] = sent[q]
          /\ \A q \in sent'[r] : q.method = method[r] /\ q.wallet = wallet[r]
                                 /\ (wallet[r] # NoUser => q.server = endpoint[r])
      BY Zenon, SMT, <1>1, SendFacts
    <3>5. CallerTypeOK'
      BY Zenon, SMT, <1>1, <2>2, <3>1, <3>3, <3>4 DEF CallerInv, CallerTypeOK, input
    <3>6. \A q \in RpcCalls \ {r} : Still(q)
      BY Zenon, SMT, <1>1, <2>2, <3>1, <3>4 DEF Still, input
    <3>7. Admitted(r) /\ Calling(r)
      BY Zenon, SMT, <1>1 DEF CallerInv, Calling
    <3>8. Admitted(r)'
      <4>1. WalletOf(r)' = WalletOf(r) /\ NewQueryCode(r)' = NewQueryCode(r)
        BY Zenon, SMT, <1>1 DEF WalletOf, NewQueryCode, input
      <4> QED BY Zenon, SMT, <1>1, <2>1, <2>2, <3>7, <4>1 DEF Admitted
    <3>9. Calling(r)' /\ Answered(r)'
      BY Zenon, SMT, <1>1, <2>1, <2>2, <3>1, <3>4, <3>7, <3>8 DEF Calling, Answered, input
    <3> QED BY Zenon, SMT, <3>1, <3>5, <3>6, <3>9, OneCall
  <2> QED BY Zenon, SMT, <2>3, <2>4
<1> QED BY Zenon, SMT, <1>4, <1>6, <1>7 DEF Fetch

\* Every step keeps the invariant.
LEMMA CallerStep ==
  ASSUME CallerInv, [CallerNext]_callerVars
  PROVE  CallerInv'
<1>1. CASE UNCHANGED callerVars
  <2>1. CallerTypeOK'
    BY Zenon, SMT, <1>1 DEF callerVars, CallerInv, CallerTypeOK
  <2>2. \A q \in RpcCalls : Still(q)
    BY Zenon, SMT, <1>1 DEF callerVars, Still
  <2>3. \A q \in RpcCalls : Calling(q)' /\ Answered(q)'
    BY Zenon, SMT, <2>2, StillInv DEF CallerInv
  <2> QED BY Zenon, SMT, <1>1, <2>1, <2>3 DEF callerVars, CallerInv
<1>2. CASE CallerNext
  BY Zenon, SMT, <1>2, AuthenticateInv, TurnedAwayInv, HandleInv, SendQueryInv, CacheHitInv, CacheMissedInv, FetchInv
     DEF CallerNext, Call
<1> QED BY Zenon, SMT, <1>1, <1>2

\* The invariant holds throughout.
LEMMA CallerInvariance == CallerSpec => []CallerInv
  BY CallerInitInv, CallerStep, PTL DEF CallerSpec

\* What a call through the proxy promises, for any number of calls, users, servers
\* and retries, though cache and flights are shared: the answer is for the wallet of
\* the call; what needs a wallet is sent with the wallet of a signed-in user only,
\* and to one server, theirs if they have one; and a wallet_send the client is told
\* of is in the log (proxy.Handle, NewQuery, GetCacheKey, RandomizeEndpoint).
THEOREM CallerSafety == CallerSpec => []CallerSafe
<1>1. CallerInv => CallerSafe
  <2>1. SUFFICES ASSUME CallerInv PROVE OwnAnswer /\ SentWithWallet /\ WalletStaysHome /\ SendIsAudited
    BY Zenon, SMT DEF CallerInv, CallerSafe
  <2>2. OwnAnswer /\ SendIsAudited
    BY Zenon, SMT, <2>1 DEF CallerInv, Answered, OwnAnswer, SendIsAudited
  <2>3. ASSUME NEW r \in RpcCalls, NEW q \in sent[r]
        PROVE  /\ q.method = method[r] /\ q.wallet = wallet[r] /\ (wallet[r] # NoUser => q.server = endpoint[r])
               /\ Admitted(r)
    BY Zenon, SMT, <2>1, <2>3 DEF CallerInv, Calling
  <2>4. SentWithWallet
    <3>1. SUFFICES ASSUME NEW r \in RpcCalls, NEW q \in sent[r], q.method \in Methods \ relaxedMethods
                   PROVE  q.wallet = cu[r].user /\ q.wallet # NoUser
      BY Zenon, SMT DEF SentWithWallet
    <3>2. NewQueryCode(r) = OK /\ wallet[r] = WalletOf(r) /\ q.wallet = wallet[r] /\ method[r] \notin relaxedMethods
      BY ZenonT(30), SMTT(60), <2>3, <3>1 DEF Admitted
    <3>3. MethodNotAllowed # OK /\ InvalidParams # OK /\ AuthRequired # OK /\ Internal # OK
      BY DEF MethodNotAllowed, InvalidParams, AuthRequired, Internal, OK
    <3>4. MethodAcceptsWallet(method[r]) /\ WalletOf(r) # NoUser
      BY Zenon, SMT, <3>2, <3>3 DEF NewQueryCode, MethodAcceptsWallet, MethodRequiresWallet
    <3> QED BY Zenon, SMT, <3>2, <3>4 DEF WalletOf
  <2>5. WalletStaysHome
    BY Zenon, SMT, <2>3 DEF WalletStaysHome, Admitted
  <2> QED BY Zenon, SMT, <2>2, <2>4, <2>5
<1> QED BY <1>1, CallerInvariance, PTL

-----------------------------------------------------------------------------
(* Searches.                                                               *)

\* Rounding up goes to a moment less than a window away.
LEMMA RoundUp ==
    ASSUME NEW n \in Nat
    PROVE  roundUp(n, Window) \in Nat /\ n <= roundUp(n, Window) /\ roundUp(n, Window) < n + Window
<1>1. Window \in Nat /\ Window > 0
  BY SearchAssumption
<1>2. n % Window \in 0..(Window - 1)
  BY <1>1
<1> QED
  BY <1>1, <1>2 DEF roundUp

\* The thumbnails as they are with the URLs of done replaced.
Replaced(done) ==
    [i \in DOMAIN items |-> IF items[i] \in done THEN Substitute(items[i]) ELSE items[i]]

\* The inductive invariant: the query is the client's, patched for the moment it was
\* sent, and the thumbnails are replaced as far as the resolver has got.
SearchInv ==
    /\ SearchTypeOK
    /\ searchQuery = IF askedAt >= 0 THEN Patched(searchClient, askedAt) ELSE searchClient
    /\ todo \subseteq copies /\ items \in ItemSeqs /\ thumbs = Replaced(copies \ todo)

\* A patched query keeps what the client excludes, adds the two tags, and limits the
\* release time to the end of the window.
LEMMA PatchedFacts ==
    ASSUME NEW p \in SearchClient, NEW t \in Nat
    PROVE  /\ Patched(p, t).notTags = IF p.hasSource = "true" THEN HiddenTags(p) ELSE p.notTags
           /\ Patched(p, t).releaseTime = IF p.hasSource = "true" THEN ReleasedBefore(p, t) ELSE p.releaseTime
           /\ Patched(p, t).orderBy = OrderBy(p)
BY Zenon DEF Patched, SearchClient

\* Within a window the patched query is one and the same.
LEMMA PatchedSame ==
    ASSUME NEW p, NEW t, NEW u, roundUp(t, Window) = roundUp(u, Window)
    PROVE  Patched(p, t) = Patched(p, u)
BY Zenon DEF Patched, ReleasedBefore

\* The parts of SearchTypeOK that are about the query.
LEMMA PatchedTypes ==
    ASSUME NEW p \in SearchClient, NEW t \in Nat
    PROVE  Patched(p, t).notTags \subseteq Tags /\ Patched(p, t).orderBy \in {"", "theirs", "default"}
<1>1. p.notTags \subseteq Tags /\ p.orderBy \in {"", "theirs"}
  BY Zenon DEF SearchClient
<1>2. HiddenTags(p) \subseteq Tags
  BY Zenon, <1>1, SearchAssumption DEF HiddenTags
<1>3. OrderBy(p) \in {"", "theirs", "default"}
  BY Zenon, <1>1 DEF OrderBy
<1> QED
  BY Zenon, <1>1, <1>2, <1>3, PatchedFacts

\* As many thumbnails as claims.
LEMMA ReplacedLen ==
    ASSUME items \in ItemSeqs, NEW done
    PROVE  Len(Replaced(done)) = Len(items)
<1>1. PICK n \in 0..MaxItems : items \in [1..n -> Urls]
  BY Zenon DEF ItemSeqs
<1>2. n \in Nat /\ DOMAIN items = 1..n
  BY <1>1, SearchAssumption
<1>3. Len(items) = n
  BY <1>1, <1>2
<1>4. Len(Replaced(done)) = n
  BY <1>2 DEF Replaced
<1> QED
  BY <1>3, <1>4

\* The invariant says what is promised of a state.
LEMMA SearchInvSafe ==
    ASSUME SearchInv
    PROVE  SearchTypeOK /\ HiddenStaysHidden /\ ReleaseLimit /\ ThumbsReplaced
<1>1. SearchTypeOK /\ searchClient \in SearchClient
  BY Zenon DEF SearchInv, SearchTypeOK
<1>2. askedAt \in Int /\ (askedAt >= 0 => askedAt \in Nat)
  <2>1. askedAt \in -1..SearchTime /\ SearchTime \in Nat
    BY Zenon, SearchAssumption DEF SearchInv, SearchTypeOK
  <2> QED
    BY <2>1
<1>3. HiddenStaysHidden
  <2> SUFFICES ASSUME askedAt >= 0
               PROVE  /\ searchClient.notTags \subseteq searchQuery.notTags
                      /\ searchClient.hasSource = "true" /\ searchClient.anyTags \cap {PrivateTag, Unlisted} = {} =>
                            {PrivateTag, Unlisted} \subseteq searchQuery.notTags
    BY Zenon DEF HiddenStaysHidden
  <2>1. searchQuery.notTags = IF searchClient.hasSource = "true" THEN HiddenTags(searchClient) ELSE searchClient.notTags
    BY Zenon, <1>1, <1>2, PatchedFacts DEF SearchInv
  <2> QED
    BY Zenon, <2>1 DEF HiddenTags
<1>4. ReleaseLimit
  <2> SUFFICES ASSUME NEW t \in searchQuery.releaseTime \ searchClient.releaseTime
               PROVE  askedAt <= t /\ t < askedAt + Window
    BY Zenon DEF ReleaseLimit
  <2>1. askedAt >= 0
    BY Zenon DEF SearchInv
  <2>2. searchQuery.releaseTime =
          IF searchClient.hasSource = "true" THEN ReleasedBefore(searchClient, askedAt) ELSE searchClient.releaseTime
    BY Zenon, <1>1, <1>2, <2>1, PatchedFacts DEF SearchInv
  <2>3. t = roundUp(askedAt, Window)
    BY Zenon, <2>2 DEF ReleasedBefore
  <2> QED
    BY Zenon, <1>2, <2>1, <2>3, RoundUp
<1>5. ThumbsReplaced
  <2>1. todo = {} => copies \ todo = copies
    BY Zenon
  <2> QED
    BY Zenon, <2>1 DEF SearchInv, ThumbsReplaced, Replaced
<1> QED
  BY Zenon, <1>1, <1>3, <1>4, <1>5

\* A search that begins has the invariant.
LEMMA SearchInitInv == SearchInit => SearchInv
<1> SUFFICES ASSUME SearchInit PROVE SearchInv
  OBVIOUS
<1>1. 0 \in 0..SearchTime /\ -1 \in -1..SearchTime /\ ~(-1 >= 0)
  BY SearchAssumption
<1>2. searchQuery.notTags \subseteq Tags /\ searchQuery.orderBy \in {"", "theirs", "default"}
  BY Zenon DEF SearchInit, SearchClient
<1>3. SearchTypeOK
  BY Zenon, <1>1, <1>2 DEF SearchInit, SearchTypeOK
<1>4. searchQuery = IF askedAt >= 0 THEN Patched(searchClient, askedAt) ELSE searchClient
  BY Zenon, <1>1 DEF SearchInit
<1>5. thumbs = Replaced(copies \ todo)
  <2>1. PICK n \in 0..MaxItems : items \in [1..n -> Urls]
    BY Zenon DEF SearchInit, ItemSeqs
  <2>2. items = [i \in DOMAIN items |-> items[i]]
    BY <2>1
  <2>3. copies \ todo = {} /\ thumbs = items
    BY Zenon DEF SearchInit
  <2>4. \A i \in DOMAIN items : (IF items[i] \in {} THEN Substitute(items[i]) ELSE items[i]) = items[i]
    BY Zenon
  <2> QED
    BY Zenon, <2>2, <2>3, <2>4 DEF Replaced
<1> QED
  BY Zenon, <1>3, <1>4, <1>5 DEF SearchInv, SearchInit

\* Every step keeps the invariant, and the same search within a window sends the
\* same query.
LEMMA SearchStep ==
    ASSUME SearchInv, [SearchNext]_searchVars
    PROVE  SearchInv' /\ SameWindowSameQuery
<1>1. searchClient \in SearchClient /\ searchNow \in Nat /\ searchNow \in 0..SearchTime /\ askedAt \in -1..SearchTime
  <2>1. searchClient \in SearchClient /\ searchNow \in 0..SearchTime /\ askedAt \in -1..SearchTime /\ SearchTime \in Nat
    BY Zenon, SearchAssumption DEF SearchInv, SearchTypeOK
  <2>2. searchNow \in Nat
    BY <2>1
  <2> QED
    BY Zenon, <2>1, <2>2
<1>2. CASE preflightHookClaimSearch
  <2>1. UNCHANGED <<searchNow, searchClient, items, thumbs, copies, todo>>
    BY Zenon, <1>2 DEF preflightHookClaimSearch
  <2>2. searchQuery' = Patched(searchClient, searchNow) /\ askedAt' = searchNow
    BY Zenon, <1>2 DEF preflightHookClaimSearch
  <2>3. searchNow >= 0 /\ searchNow \in -1..SearchTime
    BY <1>1
  <2>4. SearchTypeOK'
    BY Zenon, <1>1, <2>1, <2>2, <2>3, PatchedTypes DEF SearchInv, SearchTypeOK
  <2>5. SearchInv'
    BY Zenon, <2>1, <2>2, <2>3, <2>4 DEF SearchInv, Replaced
  <2>6. SameWindowSameQuery
    BY Zenon, <2>2, PatchedSame DEF SameWindowSameQuery, SearchInv
  <2> QED
    BY <2>5, <2>6
<1>3. CASE ReplaceAssetUrls
  <2>1. UNCHANGED <<searchNow, searchClient, searchQuery, askedAt, items, copies>>
    BY Zenon, <1>3 DEF ReplaceAssetUrls
  <2>2. PICK url \in todo : thumbs' = SetPaths(url) /\ todo' = todo \ {url}
    BY Zenon, <1>3 DEF ReplaceAssetUrls
  <2>3. url \in copies /\ todo' \subseteq copies
    BY Zenon, <2>2 DEF SearchInv
  <2>4. thumbs' = [i \in DOMAIN items |-> IF items[i] \in copies \ todo' THEN Substitute(items[i]) ELSE items[i]]
    <3>1. \A i \in DOMAIN items :
             (IF items[i] = url THEN Substitute(url) ELSE thumbs[i])
             = (IF items[i] \in copies \ todo' THEN Substitute(items[i]) ELSE items[i])
      BY Zenon, <2>2, <2>3 DEF SearchInv, Replaced
    <3> QED
      BY Zenon, <2>2, <3>1 DEF SetPaths
  <2>5. thumbs' = Replaced(copies \ todo)'
    BY Zenon, <2>1, <2>4 DEF Replaced
  <2>6. Len(thumbs') = Len(items)
    <3>1. thumbs' = Replaced(copies \ todo')
      BY Zenon, <2>4 DEF Replaced
    <3> QED
      BY Zenon, <3>1, ReplacedLen DEF SearchInv
  <2>7. SearchTypeOK'
    BY Zenon, <2>1, <2>6 DEF SearchInv, SearchTypeOK
  <2> QED
    BY Zenon, <2>1, <2>3, <2>5, <2>7 DEF SearchInv, SameWindowSameQuery
<1>4. CASE ResolverFails
  <2>1. UNCHANGED <<searchNow, searchClient, searchQuery, askedAt, items, thumbs>> /\ copies' = {} /\ todo' = {} /\ todo = copies
    BY Zenon, <1>4 DEF ResolverFails
  <2>2. copies' \ todo' = {} /\ copies \ todo = {}
    BY Zenon, <2>1
  <2>3. thumbs' = Replaced(copies \ todo)'
    BY Zenon, <2>1, <2>2 DEF SearchInv, Replaced
  <2>4. SearchTypeOK'
    BY Zenon, <2>1 DEF SearchInv, SearchTypeOK
  <2> QED
    BY Zenon, <2>1, <2>3, <2>4 DEF SearchInv, SameWindowSameQuery
<1>5. CASE SearchTick
  <2>1. searchNow' \in 0..SearchTime
    BY <1>1, <1>5, SearchAssumption DEF SearchTick
  <2>2. UNCHANGED <<searchClient, searchQuery, askedAt, items, thumbs, copies, todo>>
    BY Zenon, <1>5 DEF SearchTick
  <2>3. SearchTypeOK'
    BY Zenon, <2>1, <2>2 DEF SearchInv, SearchTypeOK
  <2> QED
    BY Zenon, <2>2, <2>3 DEF SearchInv, SameWindowSameQuery, Replaced
<1>6. CASE UNCHANGED searchVars
  BY Zenon, <1>6 DEF searchVars, SearchInv, SearchTypeOK, SameWindowSameQuery, Replaced
<1> QED
  BY Zenon, <1>2, <1>3, <1>4, <1>5, <1>6 DEF SearchNext

\* Whatever the window, the tags and the URLs are: hidden claims stay hidden, the
\* limit on the release time is right and the same within a window, and every
\* thumbnail is replaced by its own copy (preflightHookClaimSearch, ReplaceAssetUrls).
THEOREM SearchSafety == SearchSpec => SearchSafe
<1>1. SearchInit => SearchInv
  BY SearchInitInv
<1>2. SearchInv /\ [SearchNext]_searchVars => SearchInv' /\ SameWindowSameQuery
  BY SearchStep
<1>3. SearchInv => SearchTypeOK /\ HiddenStaysHidden /\ ReleaseLimit /\ ThumbsReplaced
  BY SearchInvSafe
<1> QED
  BY <1>1, <1>2, <1>3, PTL DEF SearchSpec, SearchSafe

-----------------------------------------------------------------------------
(* The recorder of responses.                                              *)

\* What a writer may hold.
BodyPieces == Seq(Chunks \cup {"error"})

\* Headers, and those the proxy sets.
HeaderNames == Headers \cup {"default", "json"}

\* A response as far as it is written.
Responses == [status : Nat, header : SUBSET HeaderNames, body : BodyPieces, wrote : BOOLEAN]

\* Nothing but headers has been written.
IsBlank(w, h) == w \in Responses /\ w.status = 0 /\ w.header = h /\ w.body = <<>> /\ ~w.wrote

\* A status and a body have been written.
IsWritten(w, s, h, b) == w \in Responses /\ w.status = s /\ w.header = h /\ w.body = b /\ w.wrote

\* The recorder and net/http's writer agree on all but the headers set after the status.
Agree(r, d) ==
    \E h \in SUBSET HeaderNames : \E g \in SUBSET h :
        \/ IsBlank(r, h) /\ IsBlank(d, g)
        \/ \E s \in Codes \cup {200} : \E b \in BodyPieces : IsWritten(r, s, h, b) /\ IsWritten(d, s, g, b)

\* The inductive invariant: what the client has is the error or what was recorded.
ResponderInv ==
    /\ phase \in {"running", "returned", "panicked", "answered"}
    /\ Agree(rec, direct)
    /\ phase # "answered" => received = Empty
    /\ phase = "answered" => received = PanicResponse(Empty) \/ received = HttpDone(send(rec, Empty))

\* A response with one of its parts replaced.
LEMMA BlankHeader ==
    ASSUME NEW w, NEW h, IsBlank(w, h), NEW g \in SUBSET HeaderNames
    PROVE  IsBlank([w EXCEPT !.header = g], g)
<1>1. w \in Responses /\ w.status = 0 /\ w.body = <<>> /\ ~w.wrote
  BY Zenon DEF IsBlank
<1> DEFINE v == [w EXCEPT !.header = g]
<1>2. v \in Responses
  BY <1>1 DEF Responses
<1>3. v.status = w.status /\ v.header = g /\ v.body = w.body
  BY <1>1 DEF Responses
<1>4. v.wrote = w.wrote
  BY Zenon, <1>1 DEF Responses
<1> HIDE DEF v
<1>5. IsBlank(v, g)
  BY Zenon, <1>1, <1>2, <1>3, <1>4 DEF IsBlank
<1> QED
  BY Zenon, <1>5 DEF v

\* Writing the status.
LEMMA BlankStatus ==
    ASSUME NEW w, NEW h, IsBlank(w, h), NEW c \in Nat
    PROVE  IsWritten([w EXCEPT !.status = c, !.wrote = TRUE], c, h, <<>>)
<1>1. w \in Responses /\ w.header = h /\ w.body = <<>>
  BY Zenon DEF IsBlank
<1> DEFINE v == [w EXCEPT !.status = c, !.wrote = TRUE]
<1>2. v \in Responses
  BY Zenon, <1>1 DEF Responses
<1>3. v.status = c /\ v.header = w.header /\ v.body = w.body
  BY <1>1 DEF Responses
<1>4. v.wrote
  BY <1>1 DEF Responses
<1> HIDE DEF v
<1>5. IsWritten(v, c, h, <<>>)
  BY Zenon, <1>1, <1>2, <1>3, <1>4 DEF IsWritten
<1> QED
  BY Zenon, <1>5 DEF v

\* Setting a header after the status.
LEMMA WrittenHeader ==
    ASSUME NEW w, NEW s, NEW h, NEW b, IsWritten(w, s, h, b), NEW g \in SUBSET HeaderNames
    PROVE  IsWritten([w EXCEPT !.header = g], s, g, b)
<1>1. w \in Responses /\ w.status = s /\ w.body = b /\ w.wrote
  BY Zenon DEF IsWritten
<1> DEFINE v == [w EXCEPT !.header = g]
<1>2. v \in Responses
  BY <1>1 DEF Responses
<1>3. v.status = w.status /\ v.header = g /\ v.body = w.body
  BY <1>1 DEF Responses
<1>4. v.wrote = w.wrote
  BY Zenon, <1>1 DEF Responses
<1> HIDE DEF v
<1>5. IsWritten(v, s, g, b)
  BY Zenon, <1>1, <1>2, <1>3, <1>4 DEF IsWritten
<1> QED
  BY Zenon, <1>5 DEF v

\* Writing the body after the status.
LEMMA WrittenBody ==
    ASSUME NEW w, NEW s, NEW h, NEW b, IsWritten(w, s, h, b), NEW e \in BodyPieces
    PROVE  IsWritten([w EXCEPT !.body = e], s, h, e)
<1>1. w \in Responses /\ w.status = s /\ w.header = h /\ w.wrote
  BY Zenon DEF IsWritten
<1> DEFINE v == [w EXCEPT !.body = e]
<1>2. v \in Responses
  BY <1>1 DEF Responses
<1>3. v.status = w.status /\ v.header = w.header /\ v.body = e
  BY <1>1 DEF Responses
<1>4. v.wrote = w.wrote
  BY Zenon, <1>1 DEF Responses
<1> HIDE DEF v
<1>5. IsWritten(v, s, h, e)
  BY Zenon, <1>1, <1>2, <1>3, <1>4 DEF IsWritten
<1> QED
  BY Zenon, <1>5 DEF v

\* The calls on a response without a status.
LEMMA StatusOnBlank ==
    ASSUME NEW w, NEW h, IsBlank(w, h), NEW c \in Nat
    PROVE  IsWritten(HttpWriteHeader(w, c), c, h, <<>>) /\ IsWritten(WriteHeader(w, c), c, h, <<>>)
<1>1. ~w.wrote
  BY Zenon DEF IsBlank
<1>2. /\ HttpWriteHeader(w, c) = [w EXCEPT !.status = c, !.wrote = TRUE]
      /\ WriteHeader(w, c) = [w EXCEPT !.status = c, !.wrote = TRUE]
  BY Zenon, <1>1 DEF HttpWriteHeader, WriteHeader
<1>3. IsWritten([w EXCEPT !.status = c, !.wrote = TRUE], c, h, <<>>)
  BY Zenon, BlankStatus
<1> QED
  BY Zenon, <1>2, <1>3

\* Both writers take a header before the status.
LEMMA HeaderOnBlank ==
    ASSUME NEW w, NEW h \in SUBSET HeaderNames, IsBlank(w, h), NEW x \in HeaderNames
    PROVE  IsBlank(HttpHeader(w, x), h \cup {x}) /\ IsBlank(RecHeader(w, x), h \cup {x})
<1>1. w.header = h /\ ~w.wrote
  BY Zenon DEF IsBlank
<1>2. HttpHeader(w, x) = [w EXCEPT !.header = h \cup {x}] /\ RecHeader(w, x) = [w EXCEPT !.header = h \cup {x}]
  BY Zenon, <1>1 DEF HttpHeader, RecHeader
<1>3. h \cup {x} \in SUBSET HeaderNames
  BY Zenon
<1>4. IsBlank([w EXCEPT !.header = h \cup {x}], h \cup {x})
  BY Zenon, <1>3, BlankHeader
<1> QED
  BY Zenon, <1>2, <1>4

\* The calls on a response with a status.
LEMMA OnWritten ==
    ASSUME NEW w, NEW s, NEW h \in SUBSET HeaderNames, NEW b \in BodyPieces, IsWritten(w, s, h, b)
    PROVE  /\ \A x \in HeaderNames : HttpHeader(w, x) = w /\ IsWritten(RecHeader(w, x), s, h \cup {x}, b)
           /\ \A c : HttpWriteHeader(w, c) = w /\ WriteHeader(w, c) = w
           /\ \A e \in BodyPieces : IsWritten(HttpWrite(w, e), s, h, b \o e)
           /\ \A x \in Chunks : IsWritten(Write(w, x), s, h, b \o <<x>>)
<1>1. w.header = h /\ w.body = b /\ w.wrote
  BY Zenon DEF IsWritten
<1>2. ASSUME NEW x \in HeaderNames PROVE HttpHeader(w, x) = w /\ IsWritten(RecHeader(w, x), s, h \cup {x}, b)
  <2>1. HttpHeader(w, x) = w /\ RecHeader(w, x) = [w EXCEPT !.header = h \cup {x}]
    BY Zenon, <1>1 DEF HttpHeader, RecHeader
  <2>2. h \cup {x} \in SUBSET HeaderNames
    BY Zenon
  <2>3. IsWritten([w EXCEPT !.header = h \cup {x}], s, h \cup {x}, b)
    BY Zenon, <2>2, WrittenHeader
  <2> QED
    BY Zenon, <2>1, <2>3
<1>3. ASSUME NEW c PROVE HttpWriteHeader(w, c) = w /\ WriteHeader(w, c) = w
  BY Zenon, <1>1 DEF HttpWriteHeader, WriteHeader
<1>4. ASSUME NEW e \in BodyPieces PROVE IsWritten(HttpWrite(w, e), s, h, b \o e)
  <2>1. HttpWriteHeader(w, 200) = w
    BY Zenon, <1>3
  <2>2. HttpWrite(w, e) = [w EXCEPT !.body = b \o e]
    BY Zenon, <1>1, <2>1 DEF HttpWrite
  <2>3. b \o e \in BodyPieces
    BY DEF BodyPieces
  <2>4. IsWritten([w EXCEPT !.body = b \o e], s, h, b \o e)
    BY Zenon, <2>3, WrittenBody
  <2> QED
    BY Zenon, <2>2, <2>4
<1>5. ASSUME NEW x \in Chunks PROVE IsWritten(Write(w, x), s, h, b \o <<x>>)
  <2>1. WriteHeader(w, 200) = w
    BY Zenon, <1>3
  <2>2. b \o <<x>> \in BodyPieces /\ Append(b, x) = b \o <<x>>
    BY DEF BodyPieces
  <2>3. Write(w, x) = [w EXCEPT !.body = b \o <<x>>]
    BY Zenon, <1>1, <2>1, <2>2 DEF Write
  <2>4. IsWritten([w EXCEPT !.body = b \o <<x>>], s, h, b \o <<x>>)
    BY Zenon, <2>2, WrittenBody
  <2> QED
    BY Zenon, <2>3, <2>4
<1> QED
  BY Zenon, <1>2, <1>3, <1>4, <1>5

\* A body without a status.
LEMMA BodyOnBlank ==
    ASSUME NEW w, NEW h \in SUBSET HeaderNames, IsBlank(w, h), NEW x \in Chunks
    PROVE  IsWritten(HttpWrite(w, <<x>>), 200, h, <<x>>) /\ IsWritten(Write(w, x), 200, h, <<x>>)
<1>1. <<x>> \in BodyPieces /\ <<>> \o <<x>> = <<x>> /\ Append(<<>>, x) = <<x>>
  BY DEF BodyPieces
<1>2. 200 \in Nat
  OBVIOUS
<1>3. PICK u : u = HttpWriteHeader(w, 200)
  BY Zenon
<1>4. IsWritten(u, 200, h, <<>>)
  BY Zenon, <1>2, <1>3, StatusOnBlank
<1>5. u.body = <<>>
  BY Zenon, <1>4 DEF IsWritten
<1>6. HttpWrite(w, <<x>>) = [u EXCEPT !.body = <<x>>]
  BY Zenon, <1>1, <1>3, <1>5 DEF HttpWrite
<1>7. PICK v : v = WriteHeader(w, 200)
  BY Zenon
<1>8. IsWritten(v, 200, h, <<>>)
  BY Zenon, <1>2, <1>7, StatusOnBlank
<1>9. v.body = <<>>
  BY Zenon, <1>8 DEF IsWritten
<1>10. Write(w, x) = [v EXCEPT !.body = <<x>>]
  BY Zenon, <1>1, <1>7, <1>9 DEF Write
<1>11. IsWritten([u EXCEPT !.body = <<x>>], 200, h, <<x>>)
  BY Zenon, <1>1, <1>4, WrittenBody
<1>12. IsWritten([v EXCEPT !.body = <<x>>], 200, h, <<x>>)
  BY Zenon, <1>1, <1>8, WrittenBody
<1> QED
  BY Zenon, <1>6, <1>10, <1>11, <1>12

\* Whatever the handler calls on two writers that agree, they still agree.
LEMMA CallAgrees ==
    ASSUME NEW r, NEW d, Agree(r, d)
    PROVE  /\ \A x \in Headers : Agree(RecHeader(r, x), HttpHeader(d, x))
           /\ \A c \in Codes : Agree(WriteHeader(r, c), HttpWriteHeader(d, c))
           /\ \A x \in Chunks : Agree(Write(r, x), HttpWrite(d, <<x>>))
<1>1. PICK h \in SUBSET HeaderNames : \E g \in SUBSET h :
         \/ IsBlank(r, h) /\ IsBlank(d, g)
         \/ \E s \in Codes \cup {200} : \E b \in BodyPieces : IsWritten(r, s, h, b) /\ IsWritten(d, s, g, b)
  BY Zenon DEF Agree
<1>2. PICK g \in SUBSET h :
         \/ IsBlank(r, h) /\ IsBlank(d, g)
         \/ \E s \in Codes \cup {200} : \E b \in BodyPieces : IsWritten(r, s, h, b) /\ IsWritten(d, s, g, b)
  BY Zenon, <1>1
<1>3. g \in SUBSET HeaderNames
  BY Zenon, <1>1, <1>2
<1>4. ASSUME NEW x \in Headers
      PROVE  /\ x \in HeaderNames /\ h \cup {x} \in SUBSET HeaderNames
             /\ g \in SUBSET (h \cup {x}) /\ g \cup {x} \in SUBSET (h \cup {x})
  BY Zenon, <1>1, <1>2 DEF HeaderNames
<1>5. <<>> \in BodyPieces
  BY DEF BodyPieces
<1>6. ASSUME NEW x \in Chunks, NEW b \in BodyPieces PROVE <<x>> \in BodyPieces /\ b \o <<x>> \in BodyPieces
  BY DEF BodyPieces
<1>7. CASE IsBlank(r, h) /\ IsBlank(d, g)
  <2>1. ASSUME NEW x \in Headers PROVE Agree(RecHeader(r, x), HttpHeader(d, x))
    <3>1. IsBlank(RecHeader(r, x), h \cup {x}) /\ IsBlank(HttpHeader(d, x), g \cup {x})
      BY Zenon, <1>1, <1>3, <1>4, <1>7, HeaderOnBlank
    <3> QED
      BY Zenon, <1>4, <3>1 DEF Agree
  <2>2. ASSUME NEW c \in Codes PROVE Agree(WriteHeader(r, c), HttpWriteHeader(d, c))
    <3>1. c \in Nat
      BY Zenon, ResponderConstants
    <3>2. IsWritten(WriteHeader(r, c), c, h, <<>>) /\ IsWritten(HttpWriteHeader(d, c), c, g, <<>>)
      BY Zenon, <1>1, <1>3, <1>7, <3>1, StatusOnBlank
    <3> QED
      BY Zenon, <1>1, <1>2, <1>5, <3>2 DEF Agree
  <2>3. ASSUME NEW x \in Chunks PROVE Agree(Write(r, x), HttpWrite(d, <<x>>))
    <3>1. IsWritten(Write(r, x), 200, h, <<x>>) /\ IsWritten(HttpWrite(d, <<x>>), 200, g, <<x>>)
      BY Zenon, <1>1, <1>3, <1>7, BodyOnBlank
    <3> QED
      BY Zenon, <1>1, <1>2, <1>5, <1>6, <3>1 DEF Agree
  <2> QED
    BY Zenon, <2>1, <2>2, <2>3
<1>8. ASSUME NEW s \in Codes \cup {200}, NEW b \in BodyPieces, IsWritten(r, s, h, b), IsWritten(d, s, g, b)
      PROVE  /\ \A x \in Headers : Agree(RecHeader(r, x), HttpHeader(d, x))
             /\ \A c \in Codes : Agree(WriteHeader(r, c), HttpWriteHeader(d, c))
             /\ \A x \in Chunks : Agree(Write(r, x), HttpWrite(d, <<x>>))
  <2>1. ASSUME NEW x \in Headers PROVE Agree(RecHeader(r, x), HttpHeader(d, x))
    <3>1. IsWritten(RecHeader(r, x), s, h \cup {x}, b) /\ HttpHeader(d, x) = d
      BY Zenon, <1>1, <1>3, <1>4, <1>8, OnWritten
    <3>2. Agree(RecHeader(r, x), d)
      BY Zenon, <1>4, <1>8, <3>1 DEF Agree
    <3> QED
      BY Zenon, <3>1, <3>2
  <2>2. ASSUME NEW c \in Codes PROVE Agree(WriteHeader(r, c), HttpWriteHeader(d, c))
    <3>1. WriteHeader(r, c) = r /\ HttpWriteHeader(d, c) = d
      BY Zenon, <1>1, <1>3, <1>8, OnWritten
    <3> QED
      BY Zenon, <3>1
  <2>3. ASSUME NEW x \in Chunks PROVE Agree(Write(r, x), HttpWrite(d, <<x>>))
    <3>1. IsWritten(Write(r, x), s, h, b \o <<x>>) /\ IsWritten(HttpWrite(d, <<x>>), s, g, b \o <<x>>)
      BY Zenon, <1>1, <1>3, <1>6, <1>8, OnWritten
    <3> QED
      BY Zenon, <1>1, <1>2, <1>6, <3>1 DEF Agree
  <2> QED
    BY Zenon, <2>1, <2>2, <2>3
<1> QED
  BY Zenon, <1>2, <1>7, <1>8

\* The client's writer before anything is sent, and with the headers.
LEMMA EmptyIs == IsBlank(Empty, {}) /\ \A g \in SUBSET HeaderNames : IsBlank([Empty EXCEPT !.header = @ \cup g], g)
<1>1. <<>> \in BodyPieces /\ {} \in SUBSET HeaderNames /\ 0 \in Nat /\ FALSE \in BOOLEAN
  BY DEF BodyPieces
<1>2. Empty \in Responses
  BY Zenon, <1>1 DEF Empty, Responses
<1>3. Empty.status = 0 /\ Empty.header = {} /\ Empty.body = <<>>
  BY DEF Empty
<1>4. ~Empty.wrote
  BY DEF Empty
<1>5. IsBlank(Empty, {})
  BY Zenon, <1>2, <1>3, <1>4 DEF IsBlank
<1>6. ASSUME NEW g \in SUBSET HeaderNames PROVE IsBlank([Empty EXCEPT !.header = @ \cup g], g)
  <2>1. Empty.header \cup g = g
    BY Zenon, <1>3
  <2>2. [Empty EXCEPT !.header = @ \cup g] = [Empty EXCEPT !.header = g]
    BY Zenon, <2>1
  <2> QED
    BY Zenon, <1>5, <2>2, BlankHeader
<1> QED
  BY Zenon, <1>5, <1>6

\* send gives the client what was recorded.
LEMMA SentIs ==
    ASSUME NEW r, NEW h \in SUBSET HeaderNames
    PROVE  /\ IsBlank(r, h) => IsWritten(HttpDone(send(r, Empty)), 200, h, <<>>)
           /\ \A s \in Codes \cup {200}, b \in BodyPieces :
                 IsWritten(r, s, h, b) => IsWritten(HttpDone(send(r, Empty)), s, h, b)
<1>1. PICK w : w = [Empty EXCEPT !.header = @ \cup r.header]
  BY Zenon
<1>2. ASSUME r.header = h PROVE IsBlank(w, h)
  BY Zenon, <1>1, <1>2, EmptyIs
<1>3. ~(0 > 0) /\ 200 \in Nat /\ \A s \in Codes \cup {200} : s \in Nat /\ s > 0
  BY ResponderConstants
<1>4. ASSUME IsBlank(r, h) PROVE IsWritten(HttpDone(send(r, Empty)), 200, h, <<>>)
  <2>1. r.status = 0 /\ r.header = h /\ r.body = <<>>
    BY Zenon, <1>4 DEF IsBlank
  <2>2. send(r, Empty) = w
    BY Zenon, <1>1, <1>3, <2>1 DEF send
  <2> QED
    BY <1>2, <1>3, <2>1, <2>2, StatusOnBlank DEF HttpDone
<1>5. ASSUME NEW s \in Codes \cup {200}, NEW b \in BodyPieces, IsWritten(r, s, h, b)
      PROVE  IsWritten(HttpDone(send(r, Empty)), s, h, b)
  <2>1. r.status = s /\ r.header = h /\ r.body = b
    BY Zenon, <1>5 DEF IsWritten
  <2>2. PICK u : u = HttpWriteHeader(w, s)
    BY Zenon
  <2>3. IsWritten(u, s, h, <<>>)
    <3>1. s \in Nat /\ IsBlank(w, h)
      BY Zenon, <1>2, <1>3, <2>1
    <3>2. IsWritten(HttpWriteHeader(w, s), s, h, <<>>)
      BY Zenon, <3>1, StatusOnBlank
    <3> QED
      BY Zenon, <2>2, <3>2
  <2>4. PICK v : v = IF b # <<>> THEN HttpWrite(u, b) ELSE u
    BY Zenon
  <2>5. send(r, Empty) = v
    BY Zenon, <1>1, <1>3, <2>1, <2>2, <2>4 DEF send
  <2>6. IsWritten(v, s, h, b)
    <3>1. CASE b = <<>>
      BY Zenon, <2>3, <2>4, <3>1
    <3>2. CASE b # <<>>
      <4>1. <<>> \o b = b /\ <<>> \in BodyPieces
        BY DEF BodyPieces
      <4>2. IsWritten(HttpWrite(u, b), s, h, <<>> \o b)
        BY Zenon, <2>3, <4>1, OnWritten
      <4> QED
        BY Zenon, <2>4, <3>2, <4>1, <4>2
    <3> QED
      BY Zenon, <3>1, <3>2
  <2>7. HttpDone(v) = v
    BY Zenon, <2>6, OnWritten DEF HttpDone
  <2> QED
    BY Zenon, <2>5, <2>6, <2>7
<1> QED
  BY Zenon, <1>4, <1>5

\* What is sent of two writers that agree, after the handler has returned.
LEMMA SentAgrees ==
    ASSUME NEW r, NEW d, Agree(r, d)
    PROVE  \E h, s, b : \E g \in SUBSET h : IsWritten(HttpDone(send(r, Empty)), s, h, b) /\ IsWritten(HttpDone(d), s, g, b)
<1>1. PICK h \in SUBSET HeaderNames : \E g \in SUBSET h :
         \/ IsBlank(r, h) /\ IsBlank(d, g)
         \/ \E s \in Codes \cup {200} : \E b \in BodyPieces : IsWritten(r, s, h, b) /\ IsWritten(d, s, g, b)
  BY Zenon DEF Agree
<1>2. PICK g \in SUBSET h :
         \/ IsBlank(r, h) /\ IsBlank(d, g)
         \/ \E s \in Codes \cup {200} : \E b \in BodyPieces : IsWritten(r, s, h, b) /\ IsWritten(d, s, g, b)
  BY Zenon, <1>1
<1>3. g \in SUBSET HeaderNames
  BY Zenon, <1>1, <1>2
<1>4. CASE IsBlank(r, h) /\ IsBlank(d, g)
  <2>1. 200 \in Nat
    OBVIOUS
  <2>2. IsWritten(HttpDone(send(r, Empty)), 200, h, <<>>)
    BY Zenon, <1>1, <1>4, SentIs
  <2>3. IsWritten(HttpDone(d), 200, g, <<>>)
    BY Zenon, <1>3, <1>4, <2>1, StatusOnBlank DEF HttpDone
  <2> QED
    BY Zenon, <1>2, <2>2, <2>3
<1>5. ASSUME NEW s \in Codes \cup {200}, NEW b \in BodyPieces, IsWritten(r, s, h, b), IsWritten(d, s, g, b)
      PROVE  IsWritten(HttpDone(send(r, Empty)), s, h, b) /\ IsWritten(HttpDone(d), s, g, b)
  <2>1. IsWritten(HttpDone(send(r, Empty)), s, h, b)
    BY Zenon, <1>1, <1>5, SentIs
  <2>2. HttpDone(d) = d
    BY Zenon, <1>3, <1>5, OnWritten DEF HttpDone
  <2> QED
    BY Zenon, <1>5, <2>1, <2>2
<1> QED
  BY Zenon, <1>2, <1>4, <1>5

\* The error response.
LEMMA PanicIs == IsWritten(PanicResponse(Empty), 500, {"json"}, <<"error">>)
<1>1. PICK h, s : h = HttpHeader(Empty, "json") /\ s = HttpWriteHeader(h, 500)
  BY Zenon
<1>2. "json" \in HeaderNames /\ {} \in SUBSET HeaderNames /\ {"json"} \in SUBSET HeaderNames /\ {} \cup {"json"} = {"json"}
  BY Zenon DEF HeaderNames
<1>3. IsBlank(h, {"json"})
  <2>1. IsBlank(HttpHeader(Empty, "json"), {} \cup {"json"})
    BY Zenon, <1>2, EmptyIs, HeaderOnBlank
  <2> QED
    BY Zenon, <1>1, <1>2, <2>1
<1>4. IsWritten(s, 500, {"json"}, <<>>)
  <2>1. 500 \in Nat
    OBVIOUS
  <2>2. IsWritten(HttpWriteHeader(h, 500), 500, {"json"}, <<>>)
    BY <1>3, <2>1, StatusOnBlank
  <2> QED
    BY Zenon, <1>1, <2>2
<1>5. <<>> \in BodyPieces /\ <<"error">> \in BodyPieces /\ <<>> \o <<"error">> = <<"error">>
  BY DEF BodyPieces
<1>6. IsWritten(HttpWrite(s, <<"error">>), 500, {"json"}, <<>> \o <<"error">>)
  <2>1. PICK k, g, e : k = 500 /\ g = {"json"} /\ e = <<"error">>
    BY Zenon
  <2>2. g \in SUBSET HeaderNames /\ e \in BodyPieces /\ <<>> \in BodyPieces /\ IsWritten(s, k, g, <<>>)
    BY Zenon, <1>2, <1>4, <1>5, <2>1
  <2>3. IsWritten(HttpWrite(s, e), k, g, <<>> \o e)
    BY Zenon, <2>2, OnWritten
  <2> QED
    BY Zenon, <2>1, <2>3
<1>7. PanicResponse(Empty) = HttpWrite(s, <<"error">>)
  BY Zenon, <1>1 DEF PanicResponse
<1>8. IsWritten(HttpWrite(s, <<"error">>), 500, {"json"}, <<"error">>)
  BY Zenon, <1>5, <1>6
<1> QED
  BY Zenon, <1>7, <1>8

\* A recorder starts with the default headers, like the client's writer.
LEMMA ResponderInitInv == ASSUME ResponderInit PROVE ResponderInv
<1>1. {"default"} \in SUBSET HeaderNames /\ {"default"} \in SUBSET {"default"}
  BY Zenon DEF HeaderNames
<1>2. IsBlank([Empty EXCEPT !.header = {"default"}], {"default"})
  BY Zenon, <1>1, EmptyIs, BlankHeader
<1>4. Agree(rec, direct)
  BY Zenon, <1>1, <1>2 DEF ResponderInit, Agree
<1>5. phase = "running" /\ received = Empty
  BY Zenon DEF ResponderInit
<1>6. phase # "answered"
  BY Zenon, <1>5
<1> QED
  BY Zenon, <1>4, <1>5, <1>6 DEF ResponderInv

\* Every call of the handler, its return, its panic and the answer preserve ResponderInv.
LEMMA ResponderStep ==
    ASSUME ResponderInv, [ResponderNext]_responderVars
    PROVE  ResponderInv'
<1>0. phase \in {"running", "returned", "panicked", "answered"} /\ Agree(rec, direct)
  BY Zenon DEF ResponderInv
<1>1. ASSUME NEW d, NEW r, Both(d, r), Agree(r, d) PROVE ResponderInv'
  <2>1. phase = "running" /\ phase' = phase /\ received' = received /\ rec' = r /\ direct' = d
    BY Zenon, <1>1 DEF Both
  <2>2. phase' # "answered" /\ phase # "answered"
    BY Zenon, <2>1
  <2>3. received' = Empty
    BY Zenon, <2>1, <2>2 DEF ResponderInv
  <2> QED
    BY Zenon, <1>0, <1>1, <2>1, <2>2, <2>3 DEF ResponderInv
<1>2. CASE CallHeader
  BY Zenon, <1>0, <1>1, <1>2, CallAgrees DEF CallHeader
<1>3. CASE CallWriteHeader
  BY Zenon, <1>0, <1>1, <1>3, CallAgrees DEF CallWriteHeader
<1>4. CASE CallWrite
  BY Zenon, <1>0, <1>1, <1>4, CallAgrees DEF CallWrite
<1>5. CASE HandlerReturn \/ Panic
  <2>1. phase = "running" /\ phase' \in {"returned", "panicked"} /\ UNCHANGED <<direct, rec, received>>
    BY Zenon, <1>5 DEF HandlerReturn, Panic
  <2>2. phase' # "answered" /\ phase # "answered"
    BY Zenon, <2>1
  <2> QED
    BY Zenon, <2>1, <2>2 DEF ResponderInv
<1>6. CASE SendRecorded
  <2>1. phase = "returned" /\ phase' = "answered" /\ received' = HttpDone(send(rec, received)) /\ UNCHANGED <<direct, rec>>
    BY Zenon, <1>6 DEF SendRecorded
  <2>2. phase # "answered"
    BY Zenon, <2>1
  <2>3. received' = HttpDone(send(rec', Empty))
    BY Zenon, <2>1, <2>2 DEF ResponderInv
  <2> QED
    BY Zenon, <1>0, <2>1, <2>3 DEF ResponderInv
<1>7. CASE SendError
  <2>1. phase = "panicked" /\ phase' = "answered" /\ received' = PanicResponse(received) /\ UNCHANGED <<direct, rec>>
    BY Zenon, <1>7 DEF SendError
  <2>2. phase # "answered"
    BY Zenon, <2>1
  <2>3. received' = PanicResponse(Empty)
    BY Zenon, <2>1, <2>2 DEF ResponderInv
  <2> QED
    BY Zenon, <1>0, <2>1, <2>3 DEF ResponderInv
<1>8. CASE UNCHANGED responderVars
  BY Zenon, <1>8 DEF responderVars, ResponderInv
<1> QED
  BY Zenon, <1>2, <1>3, <1>4, <1>5, <1>6, <1>7, <1>8 DEF ResponderNext

\* For every handler, any sequence of calls on the writer that ends in a return or a
\* panic: a handler that returns cannot tell the recorder of ErrorLoggingMiddleware
\* (internal/monitor/middleware.go) from net/http's own writer, and after a panic the
\* client gets the error response alone.
THEOREM ResponderSafety == ResponderSpec => ResponderSafe
<1>1. ResponderInit => ResponderInv
  BY Zenon, ResponderInitInv
<1>2. ResponderInv /\ [ResponderNext]_responderVars => ResponderInv'
  BY Zenon, ResponderStep
<1>3. ASSUME ResponderInv PROVE ResponderTypeOK /\ SameAsDirect
  <2>1. ResponderTypeOK
    <3>1. rec.status \in Codes \cup {0, 200} /\ (rec.body # <<>> => rec.wrote)
      BY Zenon, <1>3 DEF ResponderInv, Agree, IsBlank, IsWritten
    <3> QED
      BY Zenon, <1>3, <3>1 DEF ResponderInv, ResponderTypeOK
  <2>2. ASSUME phase = "answered" /\ received.body # <<"error">> PROVE received = HttpDone(send(rec, Empty))
    <3>1. PanicResponse(Empty).body = <<"error">>
      BY Zenon, PanicIs DEF IsWritten
    <3> QED
      BY Zenon, <1>3, <2>2, <3>1 DEF ResponderInv
  <2>3. phase = "returned" => phase # "answered"
    BY Zenon
  <2>4. LET c == HttpDone(send(rec, Empty))
            d == HttpDone(direct)
        IN  c.status = d.status /\ c.body = d.body /\ d.header \subseteq c.header
    <3>1. PICK h, s, b : \E g \in SUBSET h : IsWritten(HttpDone(send(rec, Empty)), s, h, b) /\ IsWritten(HttpDone(direct), s, g, b)
      BY Zenon, <1>3, SentAgrees DEF ResponderInv
    <3> QED
      BY Zenon, <3>1 DEF IsWritten
  <2> QED
    BY Zenon, <2>1, <2>2, <2>3, <2>4 DEF SameAsDirect
<1>4. ASSUME ResponderInv, [ResponderNext]_responderVars PROVE PanicIsWhole
  <2> SUFFICES ASSUME phase = "panicked", phase' = "answered"
               PROVE  received'.status = 500 /\ received'.body = <<"error">> /\ received'.header = {"json"}
    BY Zenon DEF PanicIsWhole
  <2>1. phase # "running" /\ phase # "returned" /\ phase # "answered" /\ phase' # phase
    BY Zenon
  <2>2. SendError
    BY Zenon, <1>4, <2>1 DEF ResponderNext, CallHeader, CallWriteHeader, CallWrite, Both, HandlerReturn, Panic, SendRecorded, responderVars
  <2>3. received' = PanicResponse(Empty)
    BY Zenon, <1>4, <2>1, <2>2 DEF SendError, ResponderInv
  <2> QED
    BY Zenon, <2>3, PanicIs DEF IsWritten
<1>5. ResponderInv /\ ResponderInv' /\ [ResponderNext]_responderVars =>
          [(ResponderTypeOK /\ SameAsDirect)' /\ PanicIsWhole]_responderVars
  <2>1. ResponderInv' => (ResponderTypeOK /\ SameAsDirect)'
    BY <1>3, PTL
  <2> QED
    BY Zenon, <1>4, <2>1
<1> QED
  BY <1>1, <1>2, <1>5, PTL DEF ResponderSpec, ResponderSafe
=============================================================================
