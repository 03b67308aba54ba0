--------------------------- MODULE ApiServerProofs ---------------------------
(***************************************************************************)
(* Proofs about handlers of the API server: the limiter of the admin       *)
(* endpoints, and publishing v1 and v2; and about the queue that services  *)
(* share (QueueLife), for any number of requests, addresses, forms, users  *)
(* and tasks, and any limits and retries.                                  *)
(*                                                                         *)
(* The limiter (AdminGate): the wrong tokens of a client and what is left  *)
(* in its limiter make up an account that time pays into (Account).  It    *)
(* bounds from above what a client may try and from below what it is       *)
(* refused, also where cleanup forgets the limiter.                        *)
(*                                                                         *)
(* v1 (PublishForm): a form keeps the account of its tries, of their       *)
(* directories and of their requests (Trying).                             *)
(*                                                                         *)
(* v2 (PublishTus): the lock does not help, since it may expire; what      *)
(* makes one call of many requests is that the file can be renamed once    *)
(* (Past).                                                                 *)
(*                                                                         *)
(* The queue (QueueLife): a task that may run again has an attempt left,   *)
(* and until the server is shut it has failed only where its handler did   *)
(* (Tried); workers hold no more tasks than there are workers (InHandInv). *)
(***************************************************************************)
EXTENDS AdminGate, PublishForm, PublishTus, QueueLife, FiniteSetTheorems, TLAPS

-----------------------------------------------------------------------------
(* The limiter of the admin endpoints.                                     *)

\* The smaller of two numbers.
LEMMA MinOfTwo ==
    ASSUME NEW a \in Int, NEW b \in Int
    PROVE  Min({a, b}) = IF a <= b THEN a ELSE b
<1>1. \A x, y : x \in {a, b} /\ (\A z \in {a, b} : x <= z) /\ y \in {a, b} /\ (\A z \in {a, b} : y <= z) => x = y
  OBVIOUS
<1>2. \E x \in {a, b} : \A z \in {a, b} : x <= z
  OBVIOUS
<1>3. Min({a, b}) \in {a, b} /\ \A z \in {a, b} : Min({a, b}) <= z
  BY Zenon, SMT, <1>2 DEF Min
<1> QED
  BY <1>3

\* The greatest of a set of positions.
LEMMA MaxIs ==
    ASSUME NEW S \in SUBSET Int, NEW m \in S, \A x \in S : x <= m
    PROVE  Max(S) = m
<1>1. m \in S /\ \A y \in S : m >= y
  BY Zenon, SMT
<1>2. Max(S) \in S /\ \A y \in S : Max(S) >= y
  BY Zenon, SMT, <1>1 DEF Max
<1>3. Max(S) \in Int /\ m \in Int /\ Max(S) <= m /\ Max(S) >= m
  BY Zenon, SMT, <1>2
<1> QED
  BY <1>3

\* Sequences of one entry or none.
LEMMA OneOrNone ==
    ASSUME NEW S, NEW s, s = <<>> \/ \E a \in S : s = <<a>>
    PROVE  s \in Seq(S) /\ Len(s) \in 0..1
<1>1. ASSUME NEW a \in S PROVE <<a>> \in Seq(S) /\ Len(<<a>>) = 1
  OBVIOUS
<1>2. <<>> \in Seq(S) /\ Len(<<>>) = 0
  OBVIOUS
<1>3. s \in Seq(S) /\ (Len(s) = 0 \/ Len(s) = 1)
  BY Zenon, SMT, <1>1, <1>2
<1> QED
  BY <1>3

\* Whichever way a request of a client comes in, it is known by the client's address.
LEMMA Addressed ==
    ASSUME NEW c \in Clients, NEW h \in Arrivals(c)
    PROVE  ForRequest(h) = c
<1>0. c # NoAddr /\ c # Unparsed /\ ~IsPrivateSubnet(c)
  BY Zenon, SMT, AddressAssumption
<1>1. ASSUME NEW addrs, NEW m \in DOMAIN addrs, DOMAIN addrs \subseteq Int, addrs[m] = c,
             \A i \in DOMAIN addrs : i > m => IsPrivateSubnet(addrs[i])
      PROVE  LastPublic(addrs) = c
  <2> DEFINE good == {i \in DOMAIN addrs : addrs[i] # Unparsed /\ ~IsPrivateSubnet(addrs[i])}
  <2>1. m \in good /\ good \subseteq Int
    BY Zenon, SMT, <1>0, <1>1
  <2>2. \A i \in good : i <= m
    <3> SUFFICES ASSUME NEW i \in good PROVE i <= m
      BY Zenon, SMT
    <3>1. i \in Int /\ m \in Int /\ ~(i > m)
      BY Zenon, SMT, <1>1
    <3> QED
      BY <3>1
  <2>3. Max(good) = m
    BY Zenon, SMT, <2>1, <2>2, MaxIs
  <2> QED
    BY Zenon, SMT, <1>1, <2>1, <2>3 DEF LastPublic
<1>2. LastPublic(<<>>) = NoAddr
  BY DEF LastPublic
<1>3. LastPublic(<<c>>) = c
  <2>1. DOMAIN <<c>> = 1..1 /\ <<c>>[1] = c
    OBVIOUS
  <2> QED
    BY <1>1, <2>1
<1>4. ASSUME NEW addrs \in Forwarded(c) PROVE LastPublic(addrs) = c
  <2>1. PICK mine \in OwnHeaders, hop \in Hops : addrs = mine \o <<c>> \o hop
    BY Zenon, SMT DEF Forwarded
  <2>2. mine = <<>> \/ \E a \in Clients \cup {Unparsed} : mine = <<a>>
    BY Zenon, SMT DEF OwnHeaders
  <2>3. hop = <<>> \/ \E p \in Proxies : hop = <<p>>
    BY Zenon, SMT DEF Hops
  <2>4. mine \in Seq(Clients \cup {Unparsed}) /\ Len(mine) \in 0..1
    BY Zenon, SMT, <2>2, OneOrNone
  <2>5. hop \in Seq(Proxies) /\ Len(hop) \in 0..1
    BY Zenon, SMT, <2>3, OneOrNone
  <2>6. DOMAIN addrs = 1..(Len(mine) + 1 + Len(hop))
    BY <2>1, <2>4, <2>5
  <2>7. Len(mine) + 1 \in DOMAIN addrs /\ DOMAIN addrs \subseteq Int
    BY <2>4, <2>5, <2>6
  <2>8. addrs[Len(mine) + 1] = c
    BY <2>1, <2>4, <2>5
  <2>9. \A i \in DOMAIN addrs : i > Len(mine) + 1 => addrs[i] \in Proxies
    BY <2>1, <2>4, <2>5, <2>6
  <2>10. \A i \in DOMAIN addrs : i > Len(mine) + 1 => IsPrivateSubnet(addrs[i])
    BY Zenon, SMT, <2>9, AddressAssumption
  <2> QED
    BY Zenon, SMT, <1>1, <2>7, <2>8, <2>10
<1>5. \/ h.cf = NoAddr /\ h.forwarded \in Forwarded(c)
      \/ h.cf = c
      \/ h.cf = NoAddr /\ h.forwarded = <<>> /\ h.real = <<c>>
      \/ h.cf = NoAddr /\ h.forwarded = <<>> /\ h.real = <<>> /\ h.remote = c
  BY Zenon, SMT DEF Arrivals
<1> QED
  BY Zenon, SMT, <1>0, <1>2, <1>3, <1>4, <1>5 DEF ForRequest

\* A full limiter, in the time it takes to fill.
Full == Refill * Burst

\* What is left in the limiter of a client, or would be if it had one.
Left(c) == IF ips[c] = NoLimiter THEN Full ELSE CreditNow(ips[c])

\* What the wrong tokens of a client have cost since a moment.
Cost(c, from) == Cardinality(Tries(c, "wrong", from, gateNow)) * Refill

\* A request that has got its limiter holds the one of its client, and calls Allow
\* before cleanup may forget the client.
AttemptInv(r) ==
    /\ gateReq[r].at <= gateNow
    /\ gateReq[r].pc # "answered" => gateAnswer[r] = "none"
    /\ gateReq[r].pc = "idle" => \A a \in Known : ips[a] # r
    /\ gateReq[r].pc = "got" =>
          /\ gateReq[r].client \in Clients
          /\ gateReq[r].lim = ips[gateReq[r].client] /\ gateReq[r].lim # NoLimiter
          /\ gateReq[r].at <= lastSeen[gateReq[r].client] /\ gateNow - gateReq[r].at <= MaxStall

\* A limiter was last used soon after its address was last seen.
EntryInv(a) ==
    /\ lastSeen[a] <= gateNow
    /\ ips[a] # NoLimiter =>
          0 <= updated[ips[a]] /\ updated[ips[a]] <= gateNow /\ updated[ips[a]] <= lastSeen[a] + MaxStall

\* The account of a client since a moment: what it has spent and what is left is at
\* most what it had and has got since, and at least that, or a full limiter.
Account(c, from) ==
    /\ Cost(c, from) + Left(c) <= Full + gateNow - from
    /\ Cost(c, from) + Left(c) >= Full \/ Cost(c, from) + Left(c) >= gateNow - from

\* What a request may be.
GateRequests ==
    [pc : {"idle", "got", "answered"}, client : Clients \cup {NoAddr}, lim : Limiters \cup {NoLimiter}, at : Nat]

\* The inductive invariant.
GateInv ==
    /\ GateTypeOK /\ gateReq \in [Attempts -> GateRequests]
    /\ \A r \in Attempts : AttemptInv(r)
    /\ \A a \in Known : EntryInv(a)
    /\ \A c \in Clients, from \in Int : from <= gateNow => Account(c, from)
    /\ RateHolds /\ LimitedForOwnTries

\* The numbers.
LEMMA GateNumbers ==
    /\ Refill \in Nat /\ Refill > 0 /\ Burst \in Nat /\ Burst > 0 /\ Full \in Nat
    /\ Expire \in Nat /\ MaxStall \in Nat /\ GateTime \in Nat
    /\ Full + MaxStall <= Expire + 1 /\ MaxStall <= Expire
    /\ NoLimiter \notin Attempts /\ NoAddr \notin Clients
<1>1. Refill \in Nat /\ Refill > 0 /\ Burst \in Nat /\ Burst > 0
  BY AdminGateAssumption
<1>2. Full \in Nat /\ Full > 0
  BY <1>1 DEF Full
<1>3. Expire \in Nat /\ MaxStall \in Nat /\ Full + MaxStall <= Expire + 1 /\ GateTime \in Nat
  BY Zenon, SMT, AdminGateAssumption DEF Full
<1>4. MaxStall <= Expire
  BY <1>2, <1>3
<1>5. NoLimiter \notin Attempts /\ NoAddr \notin Clients
  BY Zenon, SMT, AdminGateAssumption, AddressAssumption DEF NoLimiter
<1> QED
  BY Zenon, SMT, <1>1, <1>2, <1>3, <1>4, <1>5

\* Multiples of the cost of a token.
LEMMA OneMore ==
    ASSUME NEW n \in Nat
    PROVE  n * Refill \in Nat /\ (n + 1) * Refill = n * Refill + Refill
BY GateNumbers

\* Where there is not room for one more, the burst has been used.
LEMMA Enough ==
    ASSUME NEW n \in Nat, n * Refill + Refill > Full
    PROVE  n >= Burst
<1>1. SUFFICES ASSUME n < Burst PROVE FALSE
  BY GateNumbers
<1>2. PICK k \in Nat : Burst = n + 1 + k
  <2>1. Burst - n - 1 \in Nat /\ Burst = n + 1 + (Burst - n - 1)
    BY <1>1, GateNumbers
  <2> QED
    BY Zenon, SMT, <2>1
<1>3. Full = n * Refill + Refill + k * Refill /\ k * Refill \in Nat
  BY <1>2, GateNumbers DEF Full
<1> QED
  BY <1>3, OneMore, GateNumbers

\* The tries of a client can be counted.
LEMMA TriesCount ==
    ASSUME NEW c, NEW what, NEW from, NEW to
    PROVE  /\ Tries(c, what, from, to) \subseteq Attempts
           /\ IsFiniteSet(Tries(c, what, from, to))
           /\ Cardinality(Tries(c, what, from, to)) \in Nat
<1>1. Tries(c, what, from, to) \subseteq Attempts
  BY Zenon, SMT DEF Tries
<1>2. IsFiniteSet(Tries(c, what, from, to))
  BY Zenon, SMT, <1>1, AdminGateAssumption, FS_Subset
<1> QED
  BY Zenon, SMT, <1>1, <1>2, FS_CardinalityType

\* The cost of a client's tries is a number.
LEMMA CostType == ASSUME NEW c, NEW from PROVE Cost(c, from) \in Nat
BY Zenon, SMT, TriesCount, OneMore DEF Cost

\* What is left of a limiter.
LEMMA LeftIs ==
    ASSUME GateInv, NEW a \in Known
    PROVE  /\ Left(a) \in Nat /\ Left(a) <= Full
           /\ ips[a] = NoLimiter => Left(a) = Full
           /\ ips[a] # NoLimiter =>
                 /\ ips[a] \in Attempts /\ credit[ips[a]] \in Nat /\ updated[ips[a]] \in Nat /\ updated[ips[a]] <= gateNow
                 /\ Left(a) = CreditNow(ips[a])
                 /\ CreditNow(ips[a]) = IF Full <= credit[ips[a]] + gateNow - updated[ips[a]] THEN Full
                                        ELSE credit[ips[a]] + gateNow - updated[ips[a]]
<1>1. CASE ips[a] = NoLimiter
  BY <1>1, GateNumbers DEF Left
<1>2. CASE ips[a] # NoLimiter
  <2> DEFINE l == ips[a]
  <2>1. l \in Attempts
    BY Zenon, SMT, <1>2 DEF GateInv, GateTypeOK, Limiters
  <2>2. credit[l] \in 0..Full /\ updated[l] \in -1..GateTime /\ gateNow \in 0..GateTime
    BY Zenon, SMT, <2>1 DEF GateInv, GateTypeOK, Limiters, Full
  <2>3. 0 <= updated[l] /\ updated[l] <= gateNow
    BY Zenon, SMT, <1>2 DEF GateInv, EntryInv
  <2>4. credit[l] \in Nat /\ updated[l] \in Nat /\ gateNow \in Nat
    BY <2>2, <2>3, GateNumbers
  <2>5. CreditNow(l) = Min({Full, credit[l] + gateNow - updated[l]})
    BY Zenon, SMT DEF CreditNow, Full
  <2>6. Full \in Int /\ credit[l] + gateNow - updated[l] \in Int
    BY <2>4, GateNumbers
  <2>7. CreditNow(l) = IF Full <= credit[l] + gateNow - updated[l] THEN Full ELSE credit[l] + gateNow - updated[l]
    BY Zenon, SMT, <2>5, <2>6, MinOfTwo
  <2>8. Left(a) = CreditNow(l)
    BY Zenon, SMT, <1>2 DEF Left
  <2> HIDE DEF l
  <2>9. CreditNow(l) \in Nat /\ CreditNow(l) <= Full
    BY <2>3, <2>4, <2>7, GateNumbers
  <2> QED
    BY Zenon, SMT, <1>2, <2>1, <2>3, <2>4, <2>7, <2>8, <2>9 DEF l
<1> QED
  BY Zenon, SMT, <1>1, <1>2

\* A step that answers nobody, or without a look at the limiter, leaves the tries.
Quiet ==
    \A q \in Attempts :
        \/ gateAnswer'[q] = gateAnswer[q] /\ (gateAnswer[q] # "none" => gateReq'[q] = gateReq[q])
        \/ gateAnswer[q] = "none" /\ gateAnswer'[q] \in {"served", "refused"}

\* Such a step changes no set of wrong or limited tries.
LEMMA QuietTries ==
    ASSUME Quiet, NEW c, NEW what \in {"wrong", "limited"}, NEW from, NEW to
    PROVE  Tries(c, what, from, to)' = Tries(c, what, from, to)
<1>1. what # "none" /\ what \notin {"served", "refused"}
  BY Zenon, SMT
<1>2. ASSUME NEW q \in Attempts
      PROVE  gateAnswer'[q] = what /\ gateReq'[q].client = c /\ gateReq'[q].at \in from..to
             <=> gateAnswer[q] = what /\ gateReq[q].client = c /\ gateReq[q].at \in from..to
  BY Zenon, SMT, <1>1 DEF Quiet
<1> QED
  BY Zenon, SMT, <1>2 DEF Tries

\* Answered is what Allow does to the answers: request r is charged now.
Answered(r, c, what) ==
    /\ gateAnswer[r] = "none" /\ gateAnswer'[r] = what
    /\ gateReq'[r].client = c /\ gateReq'[r].at = gateNow
    /\ \A q \in Attempts : q # r => gateAnswer'[q] = gateAnswer[q] /\ gateReq'[q] = gateReq[q]

\* The answer is counted where its client, status and moment belong, and nowhere else.
LEMMA AnsweredTries ==
    ASSUME NEW r \in Attempts, NEW d, NEW status, Answered(r, d, status),
           NEW c, NEW what \in {"wrong", "limited"}, NEW from, NEW to
    PROVE  /\ r \notin Tries(c, what, from, to)
           /\ c = d /\ what = status /\ gateNow \in from..to =>
                 Tries(c, what, from, to)' = Tries(c, what, from, to) \cup {r}
           /\ ~(c = d /\ what = status /\ gateNow \in from..to) =>
                 Tries(c, what, from, to)' = Tries(c, what, from, to)
<1>1. what # "none"
  BY Zenon, SMT
<1>2. r \notin Tries(c, what, from, to)
  BY Zenon, SMT, <1>1 DEF Answered, Tries
<1>3. ASSUME NEW q \in Attempts, q # r
      PROVE  gateAnswer'[q] = what /\ gateReq'[q].client = c /\ gateReq'[q].at \in from..to
             <=> gateAnswer[q] = what /\ gateReq[q].client = c /\ gateReq[q].at \in from..to
  BY Zenon, SMT, <1>3 DEF Answered
<1>4. gateAnswer'[r] = what /\ gateReq'[r].client = c /\ gateReq'[r].at \in from..to
      <=> c = d /\ what = status /\ gateNow \in from..to
  BY Zenon, SMT DEF Answered
<1> QED
  BY Zenon, SMT, <1>2, <1>3, <1>4 DEF Tries

\* RateHolds and LimitedForOwnTries come from the accounts, and what they say of the
\* past stays.
LEMMA RateStep ==
    ASSUME GateInv, gateNow \in Nat, gateNow' = gateNow,
           \A c \in Clients, from \in Int : from <= gateNow => Cost(c, from)' <= Full + gateNow - from,
           \A c \in Clients, from, to \in 0..gateNow :
               to < gateNow => Tries(c, "wrong", from, to)' = Tries(c, "wrong", from, to)
    PROVE  RateHolds'
<1> SUFFICES ASSUME NEW c \in Clients, NEW from \in 0..gateNow, NEW to \in 0..gateNow, from <= to
             PROVE  Cardinality(Tries(c, "wrong", from, to)') * Refill <= Burst * Refill + to - from
  BY Zenon, SMT DEF RateHolds
<1>0. from \in Int /\ to \in Int /\ from <= gateNow /\ to <= gateNow
  OBVIOUS
<1>1. CASE to < gateNow
  BY Zenon, SMT, <1>1 DEF RateHolds, GateInv
<1>2. CASE to = gateNow
  <2>1. Cost(c, from)' = Cardinality(Tries(c, "wrong", from, to)') * Refill
    BY Zenon, SMT, <1>2 DEF Cost, Tries
  <2>2. Cardinality(Tries(c, "wrong", from, to)') * Refill <= Full + to - from
    BY Zenon, SMT, <1>0, <1>2, <2>1
  <2>3. Full = Burst * Refill
    BY GateNumbers DEF Full
  <2> QED
    BY Zenon, SMT, <2>2, <2>3
<1> QED
  BY <1>0, <1>1, <1>2

\* A quiet step keeps the accounts of the clients whose limiters keep what they have.
LEMMA QuietGate ==
    ASSUME GateInv, Quiet, gateNow' = gateNow, GateTypeOK', (gateReq \in [Attempts -> GateRequests])',
           (\A r \in Attempts : AttemptInv(r))', (\A a \in Known : EntryInv(a))',
           \A c \in Clients : Left(c)' = Left(c)
    PROVE  GateInv'
<1>0. PICK n \in Nat : n = gateNow
  <2>1. gateNow \in 0..GateTime
    BY Zenon, SMT DEF GateInv, GateTypeOK
  <2>2. gateNow \in Nat
    BY <2>1, GateNumbers
  <2> QED
    BY Zenon, SMT, <2>2
<1>1. ASSUME NEW c, NEW from PROVE Cost(c, from)' = Cost(c, from)
  <2>1. Tries(c, "wrong", from, n)' = Tries(c, "wrong", from, n)
    BY Zenon, SMT, QuietTries
  <2>2. Cost(c, from) = Cardinality(Tries(c, "wrong", from, n)) * Refill
    BY Zenon, SMT, <1>0 DEF Cost
  <2>3. Cost(c, from)' = Cardinality(Tries(c, "wrong", from, n)') * Refill
    BY Zenon, SMT, <1>0 DEF Cost, Tries
  <2> QED
    BY Zenon, SMT, <2>1, <2>2, <2>3
<1>2. ASSUME NEW c \in Clients, NEW from \in Int, from <= gateNow' PROVE Account(c, from)'
  BY Zenon, SMT, <1>1, <1>2 DEF Account, GateInv
<1>3. RateHolds'
  <2> SUFFICES ASSUME NEW c \in Clients, NEW from \in 0..gateNow, NEW to \in 0..gateNow, from <= to
               PROVE  Cardinality(Tries(c, "wrong", from, to)') * Refill <= Burst * Refill + to - from
    BY Zenon, SMT DEF RateHolds
  <2>1. Tries(c, "wrong", from, to)' = Tries(c, "wrong", from, to)
    BY Zenon, SMT, QuietTries
  <2> QED
    BY Zenon, SMT, <2>1 DEF RateHolds, GateInv
<1>4. LimitedForOwnTries'
  <2> SUFFICES ASSUME NEW r \in Attempts, gateAnswer'[r] = "limited"
               PROVE  Cardinality(Tries(gateReq[r].client, "wrong", gateReq[r].at - Refill * Burst, gateReq[r].at)') >= Burst
    BY Zenon, SMT DEF LimitedForOwnTries
  <2>1. gateAnswer[r] = "limited" /\ gateReq'[r] = gateReq[r]
    BY Zenon, SMT DEF Quiet
  <2>2. PICK q : q = gateReq[r]
    BY Zenon, SMT
  <2>3. Tries(q.client, "wrong", q.at - Refill * Burst, q.at)' = Tries(q.client, "wrong", q.at - Refill * Burst, q.at)
    BY Zenon, SMT, QuietTries
  <2>4. Tries(gateReq[r].client, "wrong", gateReq[r].at - Refill * Burst, gateReq[r].at)' =
        Tries(q.client, "wrong", q.at - Refill * Burst, q.at)'
    BY Zenon, SMT, <2>1, <2>2 DEF Tries
  <2> QED
    BY Zenon, SMT, <2>1, <2>2, <2>3, <2>4 DEF GateInv, LimitedForOwnTries
<1> QED
  BY Zenon, SMT, <1>2, <1>3, <1>4 DEF GateInv

\* A tick: a limiter that is not full has one more, and so may the client spend one more.
LEMMA TickInv == ASSUME GateInv, GateTick PROVE GateInv'
<1>0. /\ gateNow' = gateNow + 1 /\ gateNow < GateTime
      /\ UNCHANGED <<gateReq, ips, lastSeen, credit, updated, gateAnswer>>
      /\ \A r \in Attempts : gateReq[r].pc = "got" => gateNow - gateReq[r].at < MaxStall
  BY Zenon, SMT DEF GateTick
<1>1. gateNow \in Nat /\ gateNow' \in Nat /\ gateNow' \in 0..GateTime
  <2>1. gateNow \in 0..GateTime
    BY Zenon, SMT DEF GateInv, GateTypeOK
  <2> QED
    BY <1>0, <2>1, GateNumbers
<1>2. GateTypeOK' /\ (gateReq \in [Attempts -> GateRequests])'
  BY Zenon, SMT, <1>0, <1>1 DEF GateInv, GateTypeOK
<1>3. ASSUME NEW r \in Attempts PROVE AttemptInv(r)'
  <2>1. gateReq[r] \in GateRequests /\ AttemptInv(r)
    BY Zenon, SMT DEF GateInv
  <2>2. gateReq[r].at \in Nat /\ gateReq[r].at <= gateNow
    BY Zenon, SMT, <2>1 DEF GateRequests, AttemptInv
  <2>3. gateReq[r].at <= gateNow' /\ (gateReq[r].pc = "got" => gateNow' - gateReq[r].at <= MaxStall)
    BY <1>0, <1>1, <2>2, GateNumbers
  <2> QED
    BY Zenon, SMT, <1>0, <2>1, <2>3 DEF AttemptInv
<1>4. ASSUME NEW a \in Known PROVE EntryInv(a)'
  <2>1. EntryInv(a) /\ lastSeen[a] \in 0..GateTime
    BY Zenon, SMT DEF GateInv, GateTypeOK
  <2>2. lastSeen[a] <= gateNow'
    BY <1>0, <1>1, <2>1, GateNumbers DEF EntryInv
  <2>3. ips[a] # NoLimiter => updated[ips[a]] <= gateNow'
    <3>1. SUFFICES ASSUME ips[a] # NoLimiter PROVE updated[ips[a]] <= gateNow'
      OBVIOUS
    <3>2. updated[ips[a]] \in Nat /\ updated[ips[a]] <= gateNow
      BY Zenon, SMT, <3>1, LeftIs
    <3> QED
      BY <1>0, <1>1, <3>2
  <2> QED
    BY Zenon, SMT, <1>0, <2>1, <2>2, <2>3 DEF EntryInv
<1>5. ASSUME NEW c \in Clients
      PROVE  /\ Left(c) \in Nat /\ Left(c) <= Full
             /\ Left(c)' = IF Left(c) = Full THEN Full ELSE Left(c) + 1
  <2>0. c \in Known
    BY Zenon, SMT DEF Known
  <2>1. Left(c) \in Nat /\ Left(c) <= Full
    BY Zenon, SMT, <2>0, LeftIs
  <2>2. CASE ips[c] = NoLimiter
    BY Zenon, SMT, <1>0, <2>1, <2>2 DEF Left
  <2>3. CASE ips[c] # NoLimiter
    <3>1. PICK l, d, u : l = ips[c] /\ d = credit[l] /\ u = updated[l]
      BY Zenon, SMT
    <3>2. d \in Nat /\ u \in Nat /\ u <= gateNow /\ Left(c) = IF Full <= d + gateNow - u THEN Full ELSE d + gateNow - u
      BY Zenon, SMT, <2>0, <2>3, <3>1, LeftIs
    <3>3. Left(c)' = Min({Full, d + gateNow' - u})
      BY Zenon, SMT, <1>0, <2>3, <3>1 DEF Left, CreditNow, Full
    <3>4. Full \in Int /\ d + gateNow' - u \in Int
      BY <1>1, <3>2, GateNumbers
    <3>5. Left(c)' = IF Full <= d + gateNow' - u THEN Full ELSE d + gateNow' - u
      BY Zenon, SMT, <3>3, <3>4, MinOfTwo
    <3> QED
      BY <1>0, <1>1, <2>1, <3>2, <3>5, GateNumbers
  <2> QED
    BY Zenon, SMT, <2>2, <2>3
<1>6. ASSUME NEW c, NEW from PROVE Cost(c, from)' = Cost(c, from)
  <2>1. PICK n \in Nat : n = gateNow
    BY Zenon, SMT, <1>1
  <2>2. \A r \in Attempts : gateReq[r].at \in from..n <=> gateReq[r].at \in from..(n + 1)
    <3> SUFFICES ASSUME NEW r \in Attempts PROVE gateReq[r].at \in from..n <=> gateReq[r].at \in from..(n + 1)
      BY Zenon, SMT
    <3>1. gateReq[r].at \in Nat /\ gateReq[r].at <= n
      BY Zenon, SMT, <2>1 DEF GateInv, GateRequests, AttemptInv
    <3> QED
      BY <3>1
  <2>3. Tries(c, "wrong", from, n) = Tries(c, "wrong", from, n + 1)
    BY Zenon, SMT, <2>2 DEF Tries
  <2>4. Cost(c, from)' = Cardinality(Tries(c, "wrong", from, n + 1)) * Refill
    BY Zenon, SMT, <1>0, <2>1 DEF Cost, Tries
  <2> QED
    BY Zenon, SMT, <2>1, <2>3, <2>4 DEF Cost
<1>7. ASSUME NEW c \in Clients, NEW from \in Int, from > gateNow PROVE Cost(c, from) = 0
  <2>1. \A r \in Attempts : gateReq[r].at \notin from..gateNow
    BY <1>1, <1>7
  <2>2. Tries(c, "wrong", from, gateNow) = {}
    BY Zenon, SMT, <2>1 DEF Tries
  <2>3. Cardinality(Tries(c, "wrong", from, gateNow)) = 0
    BY Zenon, SMT, <2>2, FS_EmptySet
  <2> QED
    BY <2>3, GateNumbers DEF Cost
<1>8. ASSUME NEW c \in Clients, NEW from \in Int, from <= gateNow' PROVE Account(c, from)'
  <2>1. Cost(c, from) \in Nat /\ Cost(c, from)' = Cost(c, from)
    BY Zenon, SMT, <1>6, CostType
  <2>2. CASE from <= gateNow
    <3>1. /\ Cost(c, from) + Left(c) <= Full + gateNow - from
          /\ Cost(c, from) + Left(c) >= Full \/ Cost(c, from) + Left(c) >= gateNow - from
      BY Zenon, SMT, <2>2 DEF GateInv, Account
    <3>2. PICK k, x, y : k = Cost(c, from) /\ x = Left(c) /\ y = Left(c)'
      BY Zenon, SMT
    <3>3. /\ k + y <= Full + gateNow' - from
          /\ k + y >= Full \/ k + y >= gateNow' - from
      BY <1>0, <1>1, <1>5, <2>1, <3>1, <3>2, GateNumbers
    <3> QED
      BY Zenon, SMT, <2>1, <3>2, <3>3 DEF Account
  <2>3. CASE from > gateNow
    <3>1. from = gateNow' /\ gateNow' - from = 0
      BY <1>0, <1>1, <1>8, <2>3
    <3>2. Cost(c, from)' = 0
      BY Zenon, SMT, <1>7, <2>1, <2>3
    <3>3. PICK y : y = Left(c)'
      BY Zenon, SMT
    <3>4. y \in Nat /\ y <= Full
      BY <1>5, <3>3, GateNumbers
    <3>5. Full \in Nat
      BY Zenon, SMT, GateNumbers
    <3>6. 0 + y <= Full + from - from /\ 0 + y >= from - from
      BY <3>4, <3>5
    <3> QED
      BY Zenon, SMT, <3>1, <3>2, <3>3, <3>6 DEF Account
  <2> QED
    BY <1>1, <2>2, <2>3
<1>9. RateHolds'
  <2> SUFFICES ASSUME NEW c \in Clients, NEW from \in 0..gateNow', NEW to \in 0..gateNow', from <= to
               PROVE  Cardinality(Tries(c, "wrong", from, to)') * Refill <= Burst * Refill + to - from
    BY Zenon, SMT DEF RateHolds
  <2>0. from \in Int /\ to \in Int /\ from <= gateNow'
    BY <1>1
  <2>1. Tries(c, "wrong", from, to)' = Tries(c, "wrong", from, to)
    BY Zenon, SMT, <1>0 DEF Tries
  <2>2. CASE to <= gateNow
    <3>1. from \in 0..gateNow /\ to \in 0..gateNow
      BY <1>1, <2>2
    <3> QED
      BY Zenon, SMT, <2>1, <3>1 DEF GateInv, RateHolds
  <2>3. CASE to = gateNow'
    <3>1. Account(c, from)'
      BY Zenon, SMT, <1>8, <2>0
    <3>2. Cost(c, from)' = Cardinality(Tries(c, "wrong", from, to)') * Refill
      BY Zenon, SMT, <2>3 DEF Cost, Tries
    <3>3. PICK k, y : k = Cost(c, from)' /\ y = Left(c)'
      BY Zenon, SMT
    <3>4. k \in Nat /\ k + y <= Full + gateNow' - from
      BY Zenon, SMT, <1>6, <3>1, <3>3, CostType DEF Account
    <3>5. y \in Nat
      BY <1>5, <3>3, GateNumbers
    <3>6. k <= Full + to - from /\ Full = Burst * Refill
      <4>1. Full = Burst * Refill
        BY GateNumbers DEF Full
      <4>2. k <= Full + to - from
        <5>1. Full \in Nat
          BY Zenon, SMT, GateNumbers
        <5>2. k + y <= Full + to - from
          BY Zenon, SMT, <2>3, <3>4
        <5> QED
          BY <2>0, <3>4, <3>5, <5>1, <5>2
      <4> QED
        BY Zenon, SMT, <4>1, <4>2
    <3> QED
      BY Zenon, SMT, <3>2, <3>3, <3>6
  <2> QED
    BY <1>0, <1>1, <2>0, <2>2, <2>3
<1>10. LimitedForOwnTries'
  BY Zenon, SMT, <1>0 DEF GateInv, LimitedForOwnTries, Tries
<1> QED
  BY Zenon, SMT, <1>2, <1>3, <1>4, <1>8, <1>9, <1>10 DEF GateInv

\* Allow: the limiter pays what the client is charged.
LEMMA AllowInv == ASSUME GateInv, NEW r \in Attempts, Allow(r) PROVE GateInv'
<1>0. PICK n, c, l, x : n = gateNow /\ c = gateReq[r].client /\ l = gateReq[r].lim /\ x = CreditNow(l)
  BY Zenon, SMT
<1>1. /\ gateReq[r] \in GateRequests /\ gateReq[r].pc = "got" /\ c \in Clients /\ c \in Known /\ ips[c] = l /\ l # NoLimiter
      /\ l \in Attempts /\ gateReq[r].at <= lastSeen[c] /\ n - gateReq[r].at <= MaxStall /\ gateAnswer[r] = "none"
  <2>1. AttemptInv(r) /\ gateReq[r] \in GateRequests /\ gateReq[r].pc = "got"
    BY Zenon, SMT DEF GateInv, Allow
  <2>2. gateReq[r].pc # "answered"
    BY Zenon, SMT, <2>1
  <2>3. c \in Clients /\ ips[c] = l /\ l # NoLimiter /\ gateReq[r].at <= lastSeen[c] /\ n - gateReq[r].at <= MaxStall /\ gateAnswer[r] = "none"
    BY Zenon, SMT, <1>0, <2>1, <2>2 DEF AttemptInv
  <2>4. c \in Known
    BY Zenon, SMT, <2>3 DEF Known
  <2> QED
    BY Zenon, SMT, <2>1, <2>3, <2>4, LeftIs
<1>2. n \in Nat /\ n \in 0..GateTime
  <2>1. n \in 0..GateTime
    BY Zenon, SMT, <1>0 DEF GateInv, GateTypeOK
  <2> QED
    BY <2>1, GateNumbers
<1>3. x = Left(c) /\ x \in Nat /\ x <= Full
  BY Zenon, SMT, <1>0, <1>1, LeftIs
<1>4. PICK left, status :
         /\ left = x - IF x >= Refill THEN Refill ELSE 0
         /\ status = IF x >= Refill THEN "wrong" ELSE "limited"
  BY Zenon, SMT
<1>5. left \in Nat /\ left <= Full /\ left \in 0..Full
  BY <1>3, <1>4, GateNumbers
<1>6. /\ updated' = [updated EXCEPT ![l] = n] /\ credit' = [credit EXCEPT ![l] = left]
      /\ gateReq' = [gateReq EXCEPT ![r] = [pc |-> "answered", client |-> c, lim |-> NoLimiter, at |-> n]]
      /\ gateAnswer' = [gateAnswer EXCEPT ![r] = status]
      /\ UNCHANGED <<gateNow, ips, lastSeen>>
  BY Zenon, SMT, <1>0, <1>4 DEF Allow, GateAnswer
<1>7. status \in {"wrong", "limited"}
  BY Zenon, SMT, <1>4
<1>8. /\ gateAnswer'[r] = status /\ gateReq'[r].pc = "answered" /\ gateReq'[r].client = c /\ gateReq'[r].at = n
  <2>1. gateReq'[r] = [pc |-> "answered", client |-> c, lim |-> NoLimiter, at |-> n] /\ gateAnswer'[r] = status
    BY Zenon, SMT, <1>6 DEF GateInv, GateTypeOK
  <2> QED
    BY <2>1
<1>81. \A q \in Attempts : q # r => gateAnswer'[q] = gateAnswer[q] /\ gateReq'[q] = gateReq[q]
  BY Zenon, SMT, <1>6 DEF GateInv, GateTypeOK
<1>82. updated'[l] = n /\ credit'[l] = left
  BY Zenon, SMT, <1>1, <1>6 DEF GateInv, GateTypeOK, Limiters
<1>83. \A k \in Attempts : k # l => updated'[k] = updated[k] /\ credit'[k] = credit[k]
  BY Zenon, SMT, <1>1, <1>6 DEF GateInv, GateTypeOK, Limiters
<1>9. ASSUME NEW d, NEW from, NEW to
      PROVE  /\ r \notin Tries(d, "wrong", from, to)
             /\ d = c /\ "wrong" = status /\ gateNow \in from..to =>
                   Tries(d, "wrong", from, to)' = Tries(d, "wrong", from, to) \cup {r}
             /\ ~(d = c /\ "wrong" = status /\ gateNow \in from..to) =>
                   Tries(d, "wrong", from, to)' = Tries(d, "wrong", from, to)
  <2>1. Answered(r, c, status)
    BY Zenon, SMT, <1>0, <1>1, <1>8, <1>81 DEF Answered
  <2>2. "wrong" \in {"wrong", "limited"}
    BY Zenon, SMT
  <2> HIDE DEF Answered, Tries
  <2> QED
    BY <2>1, <2>2, AnsweredTries
<1>10. (gateReq \in [Attempts -> GateRequests])'
  <2>1. [pc |-> "answered", client |-> c, lim |-> NoLimiter, at |-> n] \in GateRequests
    BY Zenon, SMT, <1>1, <1>2 DEF GateRequests
  <2> QED
    BY Zenon, SMT, <1>6, <2>1 DEF GateInv
<1>11. GateTypeOK'
  <2>1. credit' \in [Limiters -> 0..Refill * Burst]
    BY Zenon, SMT, <1>5, <1>6 DEF GateInv, GateTypeOK, Full
  <2>2. updated' \in [Limiters -> -1..GateTime]
    <3>1. n \in -1..GateTime
      BY <1>2
    <3> QED
      BY Zenon, SMT, <1>6, <3>1 DEF GateInv, GateTypeOK
  <2>3. gateAnswer' \in [Attempts -> {"none", "served", "refused", "wrong", "limited"}]
    <3>1. status \in {"none", "served", "refused", "wrong", "limited"}
      BY Zenon, SMT, <1>7
    <3> QED
      BY Zenon, SMT, <1>6, <3>1 DEF GateInv, GateTypeOK
  <2>4. \A q \in Attempts : /\ gateReq'[q].pc \in {"idle", "got", "answered"}
                            /\ gateReq'[q].client \in Clients \cup {NoAddr} /\ gateReq'[q].lim \in Limiters \cup {NoLimiter}
    BY Zenon, SMT, <1>10 DEF GateRequests
  <2> QED
    BY Zenon, SMT, <1>6, <2>1, <2>2, <2>3, <2>4 DEF GateInv, GateTypeOK
<1>12. ASSUME NEW q \in Attempts PROVE AttemptInv(q)'
  <2>1. CASE q = r
    <3>1. n <= n
      BY <1>2
    <3>2. gateReq'[r].pc = "answered" /\ gateReq'[r].at = n
      BY Zenon, SMT, <1>8, <2>1
    <3>3. gateReq'[r].pc # "idle" /\ gateReq'[r].pc # "got"
      BY Zenon, SMT, <3>2
    <3> QED
      BY Zenon, SMT, <1>0, <1>6, <2>1, <3>1, <3>2, <3>3 DEF AttemptInv
  <2>2. CASE q # r
    <3>1. AttemptInv(q)
      BY Zenon, SMT DEF GateInv
    <3>2. gateReq'[q] = gateReq[q] /\ gateAnswer'[q] = gateAnswer[q] /\ gateNow' = gateNow /\ ips' = ips /\ lastSeen' = lastSeen
      BY Zenon, SMT, <1>6, <1>81, <2>2
    <3> QED
      BY Zenon, SMT, <3>1, <3>2 DEF AttemptInv
  <2> QED
    BY Zenon, SMT, <2>1, <2>2
<1>13. ASSUME NEW a \in Known, ips[a] = l PROVE a = c
  BY Zenon, SMT, <1>1, <1>13 DEF GateInv, GateTypeOK
<1>14. ASSUME NEW a \in Known PROVE EntryInv(a)'
  <2>1. CASE ips[a] = l
    <3>1. lastSeen[c] \in 0..GateTime /\ gateReq[r].at \in Nat /\ lastSeen[c] <= gateNow
      BY Zenon, SMT, <1>1 DEF GateInv, GateTypeOK, GateRequests, EntryInv
    <3>2. 0 <= n /\ n <= n /\ n <= lastSeen[c] + MaxStall
      BY <1>1, <1>2, <3>1, GateNumbers
    <3> QED
      BY Zenon, SMT, <1>0, <1>6, <1>82, <1>13, <2>1, <3>1, <3>2 DEF EntryInv
  <2>2. CASE ips[a] # l
    <3>1. ips[a] # NoLimiter => ips[a] \in Attempts
      BY Zenon, SMT, LeftIs
    <3> QED
      BY Zenon, SMT, <1>6, <1>83, <2>2, <3>1 DEF GateInv, EntryInv
  <2> QED
    BY Zenon, SMT, <2>1, <2>2
<1>15. ASSUME NEW d \in Clients, d # c PROVE Left(d)' = Left(d)
  <2>1. ips[d] # l /\ d \in Known
    BY Zenon, SMT, <1>13, <1>15 DEF Known
  <2>2. ips[d] # NoLimiter => ips[d] \in Attempts
    BY Zenon, SMT, <2>1, LeftIs
  <2> QED
    <3>1. CASE ips[d] = NoLimiter
      BY Zenon, SMT, <1>6, <3>1 DEF Left
    <3>2. CASE ips[d] # NoLimiter
      <4>1. updated'[ips[d]] = updated[ips[d]] /\ credit'[ips[d]] = credit[ips[d]]
        BY Zenon, SMT, <1>83, <2>1, <2>2, <3>2
      <4>2. CreditNow(ips[d])' = CreditNow(ips[d]) /\ ips' = ips
        BY Zenon, SMT, <1>6, <4>1 DEF CreditNow
      <4> QED
        BY Zenon, SMT, <4>2 DEF Left
    <3> QED
      BY Zenon, SMT, <3>1, <3>2
<1>16. Left(c)' = left
  <2>1. Left(c)' = Min({Full, left + n - n})
    BY Zenon, SMT, <1>0, <1>1, <1>6, <1>82 DEF Left, CreditNow, Full
  <2>2. left + n - n = left /\ left \in Int /\ Full \in Int
    BY <1>2, <1>5, GateNumbers
  <2>3. Left(c)' = IF Full <= left THEN Full ELSE left
    BY Zenon, SMT, <2>1, <2>2, MinOfTwo
  <2>4. Full <= left => left = Full
    BY <1>5, GateNumbers
  <2> QED
    BY Zenon, SMT, <2>3, <2>4
<1>17. ASSUME NEW d, NEW from
       PROVE  Cost(d, from)' = Cardinality(Tries(d, "wrong", from, n)') * Refill
              /\ Cost(d, from) = Cardinality(Tries(d, "wrong", from, n)) * Refill
  BY Zenon, SMT, <1>0, <1>6 DEF Cost, Tries
<1>18. ASSUME NEW d \in Clients, NEW from \in Int, from <= n
       PROVE  /\ Cost(d, from) \in Nat
              /\ Cost(d, from)' = IF d = c /\ status = "wrong" THEN Cost(d, from) + Refill ELSE Cost(d, from)
  <2>0. Cost(d, from) \in Nat
    BY Zenon, SMT, CostType
  <2>1. CASE d = c /\ status = "wrong"
    <3>1. n \in from..n
      BY <1>2, <1>18
    <3>2. /\ r \notin Tries(d, "wrong", from, n)
          /\ Tries(d, "wrong", from, n)' = Tries(d, "wrong", from, n) \cup {r}
      BY Zenon, SMT, <1>0, <1>9, <2>1, <3>1
    <3>3. Cardinality(Tries(d, "wrong", from, n)') = Cardinality(Tries(d, "wrong", from, n)) + 1
      BY Zenon, SMT, <3>2, TriesCount, FS_AddElement
    <3> QED
      <4>1. PICK k : k = Cardinality(Tries(d, "wrong", from, n))
        BY Zenon, SMT
      <4>2. k \in Nat
        BY Zenon, SMT, <4>1, TriesCount
      <4>3. (k + 1) * Refill = k * Refill + Refill
        BY Zenon, SMT, <4>2, OneMore
      <4> QED
        BY Zenon, SMT, <1>17, <2>0, <2>1, <3>3, <4>1, <4>3
  <2>2. CASE ~(d = c /\ status = "wrong")
    <3>1. Tries(d, "wrong", from, n)' = Tries(d, "wrong", from, n)
      BY Zenon, SMT, <1>9, <2>2
    <3> QED
      BY Zenon, SMT, <1>17, <2>0, <2>2, <3>1
  <2> QED
    BY Zenon, SMT, <2>1, <2>2
<1>19. ASSUME NEW d \in Clients, NEW from \in Int, from <= n
       PROVE  /\ Cost(d, from)' + Left(d)' = Cost(d, from) + Left(d)
              /\ Cost(d, from)' \in Nat /\ Left(d)' \in Nat
  <2>1. Left(d) \in Nat
    BY Zenon, SMT, LeftIs DEF Known
  <2>2. CASE d # c
    BY Zenon, SMT, <1>15, <1>18, <1>19, <2>1, <2>2
  <2>3. CASE d = c /\ x >= Refill
    <3>1. status = "wrong" /\ left = x - Refill
      BY Zenon, SMT, <1>4, <2>3
    <3>2. PICK k : k = Cost(d, from)
      BY Zenon, SMT
    <3>3. k \in Nat /\ Cost(d, from)' = k + Refill /\ Left(d)' = x - Refill /\ Left(d) = x
      BY Zenon, SMT, <1>3, <1>16, <1>18, <1>19, <2>3, <3>1, <3>2
    <3>4. k + Refill + (x - Refill) = k + x /\ k + Refill \in Nat /\ x - Refill \in Nat
      BY <1>3, <2>3, <3>3, GateNumbers
    <3> QED
      BY Zenon, SMT, <3>2, <3>3, <3>4
  <2>4. CASE d = c /\ ~(x >= Refill)
    <3>1. status = "limited" /\ left = x - 0
      BY Zenon, SMT, <1>4, <2>4
    <3>2. left = x /\ status # "wrong"
      BY <1>3, <3>1
    <3> QED
      BY Zenon, SMT, <1>3, <1>16, <1>18, <1>19, <2>1, <2>4, <3>2
  <2> QED
    BY Zenon, SMT, <2>2, <2>3, <2>4
<1>20. ASSUME NEW d \in Clients, NEW from \in Int, from <= gateNow' PROVE Account(d, from)'
  BY Zenon, SMT, <1>0, <1>6, <1>19, <1>20 DEF GateInv, Account
<1>21. RateHolds'
  <2>1. ASSUME NEW d \in Clients, NEW from \in Int, from <= gateNow PROVE Cost(d, from)' <= Full + gateNow - from
    <3>1. PICK k, y : k = Cost(d, from)' /\ y = Left(d)'
      BY Zenon, SMT
    <3>2. k \in Nat /\ y \in Nat /\ k + y <= Full + n - from
      BY Zenon, SMT, <1>0, <1>6, <1>19, <1>20, <2>1, <3>1 DEF Account
    <3>3. k <= Full + n - from
      BY <1>2, <3>2, GateNumbers
    <3> QED
      BY Zenon, SMT, <1>0, <3>1, <3>3
  <2>2. ASSUME NEW d \in Clients, NEW from \in 0..gateNow, NEW to \in 0..gateNow, to < gateNow
        PROVE  Tries(d, "wrong", from, to)' = Tries(d, "wrong", from, to)
    <3>1. gateNow \notin from..to
      BY <1>0, <1>2, <2>2
    <3> QED
      BY Zenon, SMT, <1>9, <3>1
  <2> QED
    BY Zenon, SMT, <1>0, <1>2, <1>6, <2>1, <2>2, RateStep
<1>22. LimitedForOwnTries'
  <2> SUFFICES ASSUME NEW q \in Attempts, gateAnswer'[q] = "limited"
               PROVE  Cardinality(Tries(gateReq[q].client, "wrong", gateReq[q].at - Refill * Burst, gateReq[q].at)') >= Burst
    BY Zenon, SMT DEF LimitedForOwnTries
  <2>1. PICK p : p = gateReq'[q]
    BY Zenon, SMT
  <2> DEFINE T == Tries(p.client, "wrong", p.at - Full, p.at)
  <2>2. Tries(gateReq[q].client, "wrong", gateReq[q].at - Refill * Burst, gateReq[q].at)' = T'
    BY Zenon, SMT, <2>1 DEF Tries, Full
  <2>3. CASE q = r
    <3>0. status = "limited"
      BY Zenon, SMT, <1>8, <2>3
    <3>1. p.client = c /\ p.at = n /\ status = "limited" /\ status # "wrong"
      BY Zenon, SMT, <1>8, <2>1, <2>3, <3>0
    <3>2. T' = Tries(c, "wrong", n - Full, n)
      <4>1. T' = Tries(c, "wrong", n - Full, n)'
        BY Zenon, SMT, <3>1 DEF Tries
      <4> QED
        BY Zenon, SMT, <1>9, <3>1, <4>1
    <3>3. ~(x >= Refill) /\ x \in Int
      <4>1. "limited" # "wrong"
        BY Zenon, SMT
      <4> QED
        BY <1>3, <1>4, <3>1, <4>1
    <3>4. PICK k \in Nat : k = Cardinality(Tries(c, "wrong", n - Full, n))
      BY Zenon, SMT, TriesCount
    <3>5. n - Full \in Int /\ n - Full <= n /\ n - (n - Full) = Full
      BY <1>2, GateNumbers
    <3>6. Account(c, n - Full)
      BY Zenon, SMT, <1>0, <1>1, <3>5 DEF GateInv
    <3>7. k * Refill + x >= Full
      BY Zenon, SMT, <1>0, <1>3, <1>17, <3>4, <3>5, <3>6 DEF Account
    <3>8. k * Refill \in Nat
      BY Zenon, SMT, OneMore
    <3>9. k * Refill + Refill > Full
      BY <1>3, <3>3, <3>7, <3>8, GateNumbers
    <3>10. k >= Burst
      BY Zenon, SMT, <3>9, Enough
    <3> QED
      BY Zenon, SMT, <2>2, <3>2, <3>4, <3>10
  <2>4. CASE q # r
    <3>1. gateAnswer[q] = "limited" /\ p = gateReq[q]
      BY Zenon, SMT, <1>81, <2>1, <2>4
    <3>2. Cardinality(T) >= Burst
      BY Zenon, SMT, <3>1 DEF GateInv, LimitedForOwnTries, Full
    <3>3. T' = T \/ T' = T \cup {r}
      BY ZenonT(30), SMTT(60), <1>9
    <3>4. T \subseteq T' /\ IsFiniteSet(T) /\ IsFiniteSet(T') /\ Cardinality(T) \in Nat
      <4>1. T \subseteq T' /\ T' \subseteq Attempts
        BY Zenon, SMT, <3>3, TriesCount
      <4>2. IsFiniteSet(T')
        BY Zenon, SMT, <4>1, AdminGateAssumption, FS_Subset
      <4> QED
        BY Zenon, SMT, <4>1, <4>2, TriesCount
    <3>5. Cardinality(T) <= Cardinality(T') /\ Cardinality(T') \in Nat
      BY Zenon, SMT, <3>4, FS_Subset, FS_CardinalityType
    <3>6. Cardinality(T') >= Burst
      BY <3>2, <3>4, <3>5, GateNumbers
    <3> QED
      BY Zenon, SMT, <2>2, <3>6
  <2> QED
    BY Zenon, SMT, <2>3, <2>4
<1> QED
  BY Zenon, SMT, <1>10, <1>11, <1>12, <1>14, <1>20, <1>21, <1>22 DEF GateInv

\* Nobody has tried anything, and every limiter would be full.
LEMMA GateInitInv == ASSUME GateInit PROVE GateInv
<1>1. GateTypeOK
  <2>1. 0 \in 0..GateTime /\ 0 \in 0..Refill * Burst /\ -1 \in -1..GateTime
    BY GateNumbers DEF Full
  <2>2. ASSUME NEW r \in Attempts
        PROVE  /\ gateReq[r].pc \in {"idle", "got", "answered"}
               /\ gateReq[r].client \in Clients \cup {NoAddr} /\ gateReq[r].lim \in Limiters \cup {NoLimiter}
    BY Zenon, SMT DEF GateInit
  <2>3. \A a \in Known : ips[a] = NoLimiter
    BY Zenon, SMT DEF GateInit
  <2>4. /\ ips \in [Known -> Limiters \cup {NoLimiter}] /\ lastSeen \in [Known -> 0..GateTime]
        /\ credit \in [Limiters -> 0..Refill * Burst] /\ updated \in [Limiters -> -1..GateTime]
        /\ gateAnswer \in [Attempts -> {"none", "served", "refused", "wrong", "limited"}]
    BY Zenon, SMT, <2>1 DEF GateInit
  <2> QED
    BY Zenon, SMT, <2>1, <2>2, <2>3, <2>4 DEF GateTypeOK, GateInit
<1>2. gateReq \in [Attempts -> GateRequests]
  <2>1. 0 \in Nat
    OBVIOUS
  <2> QED
    BY Zenon, SMT, <2>1 DEF GateInit, GateRequests
<1>3. ASSUME NEW r \in Attempts PROVE AttemptInv(r)
  <2>1. r # NoLimiter
    BY Zenon, SMT, GateNumbers
  <2>2. gateReq[r].pc = "idle" /\ gateReq[r].at = 0
    BY Zenon, SMT DEF GateInit
  <2>3. gateReq[r].pc # "got"
    BY Zenon, SMT, <2>2
  <2>4. gateAnswer[r] = "none" /\ gateNow = 0 /\ \A a \in Known : ips[a] = NoLimiter
    BY Zenon, SMT DEF GateInit
  <2>5. 0 <= 0
    OBVIOUS
  <2> QED
    BY Zenon, SMT, <2>1, <2>2, <2>3, <2>4, <2>5 DEF AttemptInv
<1>4. ASSUME NEW a \in Known PROVE EntryInv(a)
  <2>1. lastSeen[a] = 0 /\ gateNow = 0 /\ ips[a] = NoLimiter
    BY Zenon, SMT DEF GateInit
  <2>2. 0 <= 0
    OBVIOUS
  <2> QED
    BY Zenon, SMT, <2>1, <2>2 DEF EntryInv
<1>5. ASSUME NEW c, NEW from, NEW to PROVE Cardinality(Tries(c, "wrong", from, to)) = 0
  <2>1. \A r \in Attempts : gateAnswer[r] # "wrong"
    BY Zenon, SMT DEF GateInit
  <2>2. Tries(c, "wrong", from, to) = {}
    BY Zenon, SMT, <2>1 DEF Tries
  <2> QED
    BY Zenon, SMT, <2>2, FS_EmptySet
<1>6. ASSUME NEW c \in Clients, NEW from \in Int, from <= gateNow PROVE Account(c, from)
  <2>1. gateNow = 0 /\ ips[c] = NoLimiter
    BY Zenon, SMT DEF GateInit, Known
  <2>2. Left(c) = Full
    BY Zenon, SMT, <2>1 DEF Left
  <2>3. Cost(c, from) = 0 * Refill
    BY Zenon, SMT, <1>5 DEF Cost
  <2>4. 0 * Refill + Full <= Full + 0 - from /\ 0 * Refill + Full >= Full
    BY <1>6, <2>1, GateNumbers
  <2> QED
    BY Zenon, SMT, <2>1, <2>2, <2>3, <2>4 DEF Account
<1>7. RateHolds
  <2> SUFFICES ASSUME NEW c \in Clients, NEW from \in 0..gateNow, NEW to \in 0..gateNow, from <= to
               PROVE  Cardinality(Tries(c, "wrong", from, to)) * Refill <= Burst * Refill + to - from
    BY Zenon, SMT DEF RateHolds
  <2>1. 0 * Refill = 0 /\ Burst * Refill = Full
    BY GateNumbers DEF Full
  <2>2. from \in Int /\ to \in Int
    OBVIOUS
  <2>3. 0 <= Full + to - from
    BY <2>2, GateNumbers
  <2> QED
    BY Zenon, SMT, <1>5, <2>1, <2>3
<1>8. LimitedForOwnTries
  BY Zenon, SMT DEF LimitedForOwnTries, GateInit
<1> QED
  BY Zenon, SMT, <1>1, <1>2, <1>3, <1>4, <1>6, <1>7, <1>8 DEF GateInv

\* A request that is let through or refused without a look at the limiter.
LEMMA PlainInv == ASSUME GateInv, NEW r \in Attempts, Plain(r) PROVE GateInv'
<1>0. PICK n : n = gateNow
  BY Zenon, SMT
<1>1. PICK status \in {"served", "refused"} : GateAnswer(r, NoAddr, status)
  BY Zenon, SMT DEF Plain
<1>2. /\ gateReq' = [gateReq EXCEPT ![r] = [pc |-> "answered", client |-> NoAddr, lim |-> NoLimiter, at |-> n]]
      /\ gateAnswer' = [gateAnswer EXCEPT ![r] = status]
      /\ UNCHANGED <<gateNow, ips, lastSeen, credit, updated>>
  BY Zenon, SMT, <1>0, <1>1 DEF GateAnswer, Plain
<1>3. n \in Nat /\ n <= n
  <2>1. n \in 0..GateTime
    BY Zenon, SMT, <1>0 DEF GateInv, GateTypeOK
  <2> QED
    BY <2>1, GateNumbers
<1>4. gateReq[r].pc = "idle" /\ gateAnswer[r] = "none"
  <2>1. gateReq[r].pc = "idle"
    BY Zenon, SMT DEF Plain, Next1
  <2>2. gateReq[r].pc # "answered"
    BY Zenon, SMT, <2>1
  <2> QED
    BY Zenon, SMT, <2>1, <2>2 DEF GateInv, AttemptInv
<1>5. (gateReq \in [Attempts -> GateRequests])'
  <2>1. [pc |-> "answered", client |-> NoAddr, lim |-> NoLimiter, at |-> n] \in GateRequests
    BY Zenon, SMT, <1>3 DEF GateRequests
  <2> QED
    BY Zenon, SMT, <1>2, <2>1 DEF GateInv
<1>6. \A q \in Attempts : q # r => gateAnswer'[q] = gateAnswer[q] /\ gateReq'[q] = gateReq[q]
  BY Zenon, SMT, <1>2 DEF GateInv, GateTypeOK
<1>7. gateAnswer'[r] = status /\ gateReq'[r].pc = "answered" /\ gateReq'[r].at = n
  <2>1. gateReq'[r] = [pc |-> "answered", client |-> NoAddr, lim |-> NoLimiter, at |-> n] /\ gateAnswer'[r] = status
    BY Zenon, SMT, <1>2 DEF GateInv, GateTypeOK
  <2> QED
    BY <2>1
<1>8. GateTypeOK'
  <2>1. gateAnswer' \in [Attempts -> {"none", "served", "refused", "wrong", "limited"}]
    BY Zenon, SMT, <1>2 DEF GateInv, GateTypeOK
  <2>2. \A q \in Attempts : /\ gateReq'[q].pc \in {"idle", "got", "answered"}
                            /\ gateReq'[q].client \in Clients \cup {NoAddr} /\ gateReq'[q].lim \in Limiters \cup {NoLimiter}
    BY Zenon, SMT, <1>5 DEF GateRequests
  <2> QED
    BY ZenonT(30), SMTT(60), <1>2, <2>1, <2>2 DEF GateInv, GateTypeOK
<1>9. ASSUME NEW q \in Attempts PROVE AttemptInv(q)'
  <2>1. CASE q = r
    <3>1. gateReq'[r].pc # "idle" /\ gateReq'[r].pc # "got"
      BY Zenon, SMT, <1>7
    <3> QED
      BY Zenon, SMT, <1>0, <1>2, <1>3, <1>7, <2>1, <3>1 DEF AttemptInv
  <2>2. CASE q # r
    <3>1. AttemptInv(q)
      BY Zenon, SMT DEF GateInv
    <3>2. gateReq'[q] = gateReq[q] /\ gateAnswer'[q] = gateAnswer[q] /\ gateNow' = gateNow /\ ips' = ips /\ lastSeen' = lastSeen
      BY Zenon, SMT, <1>2, <1>6, <2>2
    <3> QED
      BY Zenon, SMT, <3>1, <3>2 DEF AttemptInv
  <2> QED
    BY Zenon, SMT, <2>1, <2>2
<1>10. ASSUME NEW a \in Known PROVE EntryInv(a)'
  BY Zenon, SMT, <1>2 DEF GateInv, EntryInv
<1>11. Quiet
  BY Zenon, SMT, <1>1, <1>4, <1>6, <1>7 DEF Quiet
<1>12. \A c \in Clients : Left(c)' = Left(c)
  BY Zenon, SMT, <1>2 DEF Left, CreditNow
<1> QED
  BY Zenon, SMT, <1>2, <1>5, <1>8, <1>9, <1>10, <1>11, <1>12, QuietGate

\* GetLimiter: a limiter that is made is full, as the client's would be, and belongs to
\* nobody else.
LEMMA WrongInv == ASSUME GateInv, NEW r \in Attempts, Wrong(r) PROVE GateInv'
<1>0. PICK n : n = gateNow
  BY Zenon, SMT
<1>1. PICK c \in Clients : \E h \in Arrivals(c) :
         /\ GetLimiter(ForRequest(h), r)
         /\ gateReq' = [gateReq EXCEPT ![r] = [pc |-> "got", client |-> c, lim |-> ips'[ForRequest(h)], at |-> gateNow]]
  BY Zenon, SMT DEF Wrong
<1>2. /\ GetLimiter(c, r) /\ gateReq' = [gateReq EXCEPT ![r] = [pc |-> "got", client |-> c, lim |-> ips'[c], at |-> n]]
      /\ UNCHANGED <<gateNow, gateAnswer>>
  BY Zenon, SMT, <1>0, <1>1, Addressed DEF Wrong
<1>3. n \in Nat /\ n \in 0..GateTime /\ n \in -1..GateTime /\ c \in Known
  <2>1. n \in 0..GateTime
    BY Zenon, SMT, <1>0 DEF GateInv, GateTypeOK
  <2>2. n \in Nat /\ n \in -1..GateTime
    BY <2>1, GateNumbers
  <2> QED
    BY Zenon, SMT, <2>1, <2>2 DEF Known
<1>4. gateReq[r].pc = "idle" /\ gateAnswer[r] = "none" /\ \A a \in Known : ips[a] # r
  <2>1. gateReq[r].pc = "idle"
    BY Zenon, SMT DEF Wrong, Next1
  <2>2. gateReq[r].pc # "answered"
    BY Zenon, SMT, <2>1
  <2> QED
    BY Zenon, SMT, <2>1, <2>2 DEF GateInv, AttemptInv
<1>5. /\ lastSeen' = [lastSeen EXCEPT ![c] = n] /\ lastSeen'[c] = n
      /\ \A a \in Known : a # c => lastSeen'[a] = lastSeen[a]
  BY Zenon, SMT, <1>0, <1>2, <1>3 DEF GetLimiter, GateInv, GateTypeOK
<1>6. r # NoLimiter
  BY Zenon, SMT, GateNumbers
<1>7. /\ ips' \in [Known -> Limiters \cup {NoLimiter}]
      /\ credit' \in [Limiters -> 0..Refill * Burst] /\ updated' \in [Limiters -> -1..GateTime]
      /\ ips'[c] # NoLimiter /\ (ips[c] # NoLimiter => ips'[c] = ips[c]) /\ (ips[c] = NoLimiter => ips'[c] = r)
      /\ \A a \in Known : a # c => ips'[a] = ips[a]
      /\ \A l \in Attempts : l # r => credit'[l] = credit[l] /\ updated'[l] = updated[l]
      /\ ips[c] = NoLimiter => credit'[r] = Full /\ updated'[r] = n
  <2>1. CASE ips[c] # NoLimiter
    BY Zenon, SMT, <1>2, <2>1 DEF GetLimiter, GateInv, GateTypeOK
  <2>2. CASE ips[c] = NoLimiter
    <3>1. /\ ips' = [ips EXCEPT ![c] = r] /\ credit' = [credit EXCEPT ![r] = Full]
          /\ updated' = [updated EXCEPT ![r] = n]
      BY Zenon, SMT, <1>0, <1>2, <2>2 DEF GetLimiter, Full
    <3>2. Full \in 0..Refill * Burst
      BY GateNumbers DEF Full
    <3>3. /\ ips' \in [Known -> Limiters \cup {NoLimiter}] /\ ips'[c] = r
          /\ \A a \in Known : a # c => ips'[a] = ips[a]
      BY Zenon, SMT, <1>3, <3>1 DEF GateInv, GateTypeOK, Limiters
    <3>4. /\ credit' \in [Limiters -> 0..Refill * Burst] /\ credit'[r] = Full
          /\ \A l \in Attempts : l # r => credit'[l] = credit[l]
      BY Zenon, SMT, <3>1, <3>2 DEF GateInv, GateTypeOK, Limiters
    <3>5. /\ updated' \in [Limiters -> -1..GateTime] /\ updated'[r] = n
          /\ \A l \in Attempts : l # r => updated'[l] = updated[l]
      BY Zenon, SMT, <1>3, <3>1 DEF GateInv, GateTypeOK, Limiters
    <3> QED
      BY Zenon, SMT, <1>6, <2>2, <3>3, <3>4, <3>5
  <2> QED
    BY Zenon, SMT, <2>1, <2>2
<1>8. PICK k : k = ips'[c]
  BY Zenon, SMT
<1>9. k \in Attempts /\ k # NoLimiter
  BY Zenon, SMT, <1>3, <1>7, <1>8 DEF Limiters
<1>10. (gateReq \in [Attempts -> GateRequests])'
  <2>1. [pc |-> "got", client |-> c, lim |-> k, at |-> n] \in GateRequests
    BY Zenon, SMT, <1>1, <1>3, <1>9 DEF GateRequests, Limiters
  <2> QED
    BY Zenon, SMT, <1>2, <1>8, <2>1 DEF GateInv
<1>11. \A q \in Attempts : q # r => gateReq'[q] = gateReq[q]
  BY Zenon, SMT, <1>2 DEF GateInv
<1>12. gateReq'[r].pc = "got" /\ gateReq'[r].client = c /\ gateReq'[r].lim = k /\ gateReq'[r].at = n
  <2>1. gateReq'[r] = [pc |-> "got", client |-> c, lim |-> k, at |-> n]
    BY Zenon, SMT, <1>2, <1>8 DEF GateInv
  <2> QED
    BY <2>1
<1>13. GateTypeOK'
  <2>1. lastSeen' \in [Known -> 0..GateTime]
    BY Zenon, SMT, <1>3, <1>5 DEF GateInv, GateTypeOK
  <2>2. \A q \in Attempts : /\ gateReq'[q].pc \in {"idle", "got", "answered"}
                            /\ gateReq'[q].client \in Clients \cup {NoAddr} /\ gateReq'[q].lim \in Limiters \cup {NoLimiter}
    BY Zenon, SMT, <1>10 DEF GateRequests
  <2>3. ASSUME NEW a \in Known, NEW b \in Known, a # b, ips'[a] # NoLimiter PROVE ips'[a] # ips'[b]
    <3>1. \A x, y \in Known : x # y /\ ips[x] # NoLimiter => ips[x] # ips[y]
      BY Zenon, SMT DEF GateInv, GateTypeOK
    <3>2. CASE a = c
      BY Zenon, SMT, <1>4, <1>7, <2>3, <3>1, <3>2
    <3>3. CASE b = c
      BY ZenonT(30), SMTT(60), <1>4, <1>7, <2>3, <3>1, <3>3
    <3>4. CASE a # c /\ b # c
      BY ZenonT(30), SMTT(60), <1>7, <2>3, <3>1, <3>4
    <3> QED
      BY Zenon, SMT, <3>2, <3>3, <3>4
  <2>4. gateNow' \in 0..GateTime /\ gateAnswer' \in [Attempts -> {"none", "served", "refused", "wrong", "limited"}]
    BY Zenon, SMT, <1>2 DEF GateInv, GateTypeOK
  <2> QED
    BY Zenon, SMT, <1>7, <2>1, <2>2, <2>3, <2>4 DEF GateTypeOK
<1>14. ASSUME NEW q \in Attempts PROVE AttemptInv(q)'
  <2>1. CASE q = r
    <3>1. n <= n /\ n - n <= MaxStall
      BY <1>3, GateNumbers
    <3>2. gateReq'[r].pc # "idle"
      BY Zenon, SMT, <1>12
    <3>3. gateAnswer'[r] = "none" /\ gateNow' = n /\ gateReq'[r].at <= gateNow' /\ gateNow' - gateReq'[r].at <= MaxStall
      BY Zenon, SMT, <1>0, <1>2, <1>4, <1>12, <3>1
    <3>4. /\ gateReq'[r].client \in Clients /\ gateReq'[r].lim = ips'[gateReq'[r].client] /\ gateReq'[r].lim # NoLimiter
          /\ gateReq'[r].at <= lastSeen'[gateReq'[r].client]
      BY Zenon, SMT, <1>5, <1>8, <1>9, <1>12, <3>1
    <3> QED
      BY Zenon, SMT, <2>1, <3>2, <3>3, <3>4 DEF AttemptInv
  <2>2. CASE q # r
    <3>1. AttemptInv(q) /\ gateReq'[q] = gateReq[q] /\ gateAnswer'[q] = gateAnswer[q] /\ gateNow' = gateNow
      BY Zenon, SMT, <1>2, <1>11, <2>2 DEF GateInv
    <3>2. ASSUME gateReq[q].pc = "idle", NEW a \in Known PROVE ips'[a] # q
      <4>1. ips[a] # q /\ ips[c] # q
        BY Zenon, SMT, <1>3, <3>1, <3>2 DEF AttemptInv
      <4> QED
        BY Zenon, SMT, <1>7, <2>2, <4>1
    <3>3. ASSUME gateReq[q].pc = "got"
          PROVE  gateReq[q].lim = ips'[gateReq[q].client] /\ gateReq[q].at <= lastSeen'[gateReq[q].client]
      <4>1. PICK d : d = gateReq[q].client
        BY Zenon, SMT
      <4>2. d \in Clients /\ d \in Known /\ gateReq[q].lim = ips[d] /\ ips[d] # NoLimiter
            /\ gateReq[q].at <= lastSeen[d] /\ gateReq[q].at <= n
        BY Zenon, SMT, <1>0, <3>1, <3>3, <4>1 DEF AttemptInv, Known
      <4> QED
        BY ZenonT(30), SMTT(60), <1>5, <1>7, <4>1, <4>2
    <3> QED
      BY Zenon, SMT, <3>1, <3>2, <3>3 DEF AttemptInv
  <2> QED
    BY Zenon, SMT, <2>1, <2>2
<1>15. ASSUME NEW a \in Known PROVE EntryInv(a)'
  <2>0. EntryInv(a) /\ (ips[a] # NoLimiter => ips[a] \in Attempts /\ ips[a] # r /\ updated'[ips[a]] = updated[ips[a]])
    BY Zenon, SMT, <1>4, <1>7, LeftIs DEF GateInv
  <2>1. CASE a # c
    BY Zenon, SMT, <1>2, <1>5, <1>7, <2>0, <2>1 DEF EntryInv
  <2>2. CASE a = c
    <3>1. PICK u : u = updated'[k]
      BY Zenon, SMT
    <3>2. u \in Nat /\ u <= n
      <4>1. CASE ips[c] = NoLimiter
        BY <1>3, <1>7, <1>8, <3>1, <4>1
      <4>2. CASE ips[c] # NoLimiter
        <5>1. k = ips[c] /\ u = updated[k]
          BY Zenon, SMT, <1>7, <1>8, <2>0, <2>2, <3>1, <4>2
        <5> QED
          BY Zenon, SMT, <1>0, <1>3, <4>2, <5>1, LeftIs
      <4> QED
        BY Zenon, SMT, <4>1, <4>2
    <3>3. n <= n /\ 0 <= u /\ u <= n + MaxStall
      BY <1>3, <3>2, GateNumbers
    <3> QED
      BY Zenon, SMT, <1>0, <1>2, <1>5, <1>8, <2>2, <3>1, <3>2, <3>3 DEF EntryInv
  <2> QED
    BY Zenon, SMT, <2>1, <2>2
<1>16. Quiet
  <2>1. \A q \in Attempts : gateAnswer'[q] = gateAnswer[q] /\ (gateAnswer[q] # "none" => gateReq'[q] = gateReq[q])
    BY Zenon, SMT, <1>2, <1>4, <1>11
  <2> QED
    BY Zenon, SMT, <2>1 DEF Quiet
<1>17. ASSUME NEW d \in Clients PROVE Left(d)' = Left(d)
  <2>0. d \in Known
    BY Zenon, SMT DEF Known
  <2>1. CASE ips[d] # NoLimiter
    <3>1. PICK l : l = ips[d]
      BY Zenon, SMT
    <3>2. ips'[d] = l /\ l \in Attempts /\ l # r /\ l # NoLimiter
      BY Zenon, SMT, <1>4, <1>7, <2>0, <2>1, <3>1, LeftIs
    <3>3. credit'[l] = credit[l] /\ updated'[l] = updated[l] /\ gateNow' = gateNow
      BY Zenon, SMT, <1>2, <1>7, <3>2
    <3>4. CreditNow(l)' = CreditNow(l)
      BY Zenon, SMT, <3>3 DEF CreditNow
    <3>5. Left(d)' = CreditNow(l)'
      BY Zenon, SMT, <3>2 DEF Left, CreditNow
    <3> QED
      BY Zenon, SMT, <2>1, <3>1, <3>4, <3>5 DEF Left
  <2>2. CASE ips[d] = NoLimiter /\ d # c
    BY Zenon, SMT, <1>7, <2>0, <2>2 DEF Left
  <2>3. CASE ips[d] = NoLimiter /\ d = c
    <3>1. Left(d)' = Min({Full, Full + n - n})
      BY Zenon, SMT, <1>0, <1>2, <1>6, <1>7, <2>3 DEF Left, CreditNow, Full
    <3>2. Full + n - n = Full /\ Full \in Int
      BY <1>3, GateNumbers
    <3>3. Left(d)' = Full
      BY Zenon, SMT, <3>1, <3>2, MinOfTwo
    <3> QED
      BY Zenon, SMT, <2>3, <3>3 DEF Left
  <2> QED
    BY Zenon, SMT, <2>1, <2>2, <2>3
<1> QED
  BY Zenon, SMT, <1>2, <1>10, <1>13, <1>14, <1>15, <1>16, <1>17, QuietGate

\* cleanup: what it forgets is full, and nobody is about to use it.
LEMMA ForgetInv == ASSUME GateInv, cleanup PROVE GateInv'
<1>0. PICK n : n = gateNow
  BY Zenon, SMT
<1>1. n \in Nat /\ 0 \in 0..GateTime
  <2>1. n \in 0..GateTime
    BY Zenon, SMT, <1>0 DEF GateInv, GateTypeOK
  <2> QED
    BY <2>1, GateNumbers
<1>2. UNCHANGED <<gateNow, gateReq, credit, updated, gateAnswer>>
  BY Zenon, SMT DEF cleanup
<1>3. /\ ips' = [a \in Known |-> IF a \in {b \in Known : lastSeen[b] < n - Expire} THEN NoLimiter ELSE ips[a]]
      /\ lastSeen' = [a \in Known |-> IF a \in {b \in Known : lastSeen[b] < n - Expire} THEN 0 ELSE lastSeen[a]]
  BY Zenon, SMT, <1>0 DEF cleanup, GateDrop
<1>4. ASSUME NEW a \in Known, lastSeen[a] < n - Expire PROVE ips'[a] = NoLimiter /\ lastSeen'[a] = 0
  BY Zenon, SMT, <1>3, <1>4
<1>5. ASSUME NEW a \in Known, ~(lastSeen[a] < n - Expire) PROVE ips'[a] = ips[a] /\ lastSeen'[a] = lastSeen[a]
  BY Zenon, SMT, <1>3, <1>5
<1>6. GateTypeOK'
  <2>1. ips' \in [Known -> Limiters \cup {NoLimiter}]
    BY Zenon, SMT, <1>3 DEF GateInv, GateTypeOK
  <2>2. lastSeen' \in [Known -> 0..GateTime]
    BY Zenon, SMT, <1>1, <1>3 DEF GateInv, GateTypeOK
  <2>3. ASSUME NEW a \in Known, NEW b \in Known, a # b, ips'[a] # NoLimiter PROVE ips'[a] # ips'[b]
    <3>1. ips'[a] = ips[a] /\ (ips'[b] = ips[b] \/ ips'[b] = NoLimiter)
      BY Zenon, SMT, <1>4, <1>5, <2>3
    <3> QED
      BY Zenon, SMT, <2>3, <3>1 DEF GateInv, GateTypeOK
  <2> QED
    BY Zenon, SMT, <1>2, <2>1, <2>2, <2>3 DEF GateInv, GateTypeOK
<1>7. ASSUME NEW q \in Attempts PROVE AttemptInv(q)'
  <2>0. AttemptInv(q) /\ gateReq' = gateReq /\ gateAnswer' = gateAnswer /\ gateNow' = gateNow
    BY Zenon, SMT, <1>2 DEF GateInv
  <2>1. ASSUME gateReq[q].pc = "idle", NEW a \in Known PROVE ips'[a] # q
    <3>1. ips[a] # q /\ q # NoLimiter
      BY Zenon, SMT, <2>0, <2>1, GateNumbers DEF AttemptInv
    <3> QED
      BY Zenon, SMT, <1>4, <1>5, <3>1
  <2>2. ASSUME gateReq[q].pc = "got"
        PROVE  ips'[gateReq[q].client] = ips[gateReq[q].client] /\ lastSeen'[gateReq[q].client] = lastSeen[gateReq[q].client]
    <3>1. PICK d, at : d = gateReq[q].client /\ at = gateReq[q].at
      BY Zenon, SMT
    <3>2. d \in Known /\ at <= lastSeen[d] /\ n - at <= MaxStall
      BY Zenon, SMT, <1>0, <2>0, <2>2, <3>1 DEF AttemptInv, Known
    <3>3. at \in Nat
      BY Zenon, SMT, <3>1 DEF GateInv, GateRequests
    <3>4. lastSeen[d] \in 0..GateTime
      BY Zenon, SMT, <3>2 DEF GateInv, GateTypeOK
    <3>5. ~(lastSeen[d] < n - Expire)
      BY <1>1, <3>2, <3>3, <3>4, GateNumbers
    <3> QED
      BY Zenon, SMT, <1>5, <3>1, <3>2, <3>5
  <2> QED
    BY Zenon, SMT, <2>0, <2>1, <2>2 DEF AttemptInv
<1>8. ASSUME NEW a \in Known PROVE EntryInv(a)'
  <2>1. 0 <= n
    BY <1>1
  <2>2. CASE lastSeen[a] < n - Expire
    BY Zenon, SMT, <1>0, <1>2, <1>4, <2>1, <2>2 DEF EntryInv
  <2>3. CASE ~(lastSeen[a] < n - Expire)
    BY Zenon, SMT, <1>2, <1>5, <2>3 DEF EntryInv, GateInv
  <2> QED
    BY Zenon, SMT, <2>2, <2>3
<1>9. Quiet
  BY Zenon, SMT, <1>2 DEF Quiet
<1>10. ASSUME NEW d \in Clients PROVE Left(d)' = Left(d)
  <2>0. d \in Known
    BY Zenon, SMT DEF Known
  <2>1. CASE ~(lastSeen[d] < n - Expire)
    BY Zenon, SMT, <1>2, <1>5, <2>0, <2>1 DEF Left, CreditNow
  <2>2. CASE lastSeen[d] < n - Expire
    <3>1. Left(d)' = Full
      BY Zenon, SMT, <1>4, <2>0, <2>2 DEF Left
    <3>2. CASE ips[d] # NoLimiter
      <4>1. PICK u, x, s : u = updated[ips[d]] /\ x = credit[ips[d]] /\ s = lastSeen[d]
        BY Zenon, SMT
      <4>2. u \in Nat /\ x \in Nat /\ u <= n /\ Left(d) = IF Full <= x + n - u THEN Full ELSE x + n - u
        BY Zenon, SMT, <1>0, <2>0, <3>2, <4>1, LeftIs
      <4>3. u <= s + MaxStall /\ s \in 0..GateTime /\ s < n - Expire
        BY Zenon, SMT, <2>0, <2>2, <3>2, <4>1 DEF GateInv, GateTypeOK, EntryInv
      <4>4. Full <= x + n - u
        BY <1>1, <4>2, <4>3, GateNumbers
      <4> QED
        BY Zenon, SMT, <3>1, <4>2, <4>4
    <3>3. CASE ips[d] = NoLimiter
      BY Zenon, SMT, <3>1, <3>3 DEF Left
    <3> QED
      BY Zenon, SMT, <3>2, <3>3
  <2> QED
    BY Zenon, SMT, <2>1, <2>2
<1> QED
  BY Zenon, SMT, <1>2, <1>6, <1>7, <1>8, <1>9, <1>10, QuietGate DEF GateInv

\* A client of the admin API (internal/admin over pkg/iprate) tries wrong tokens at the
\* rate of its limiter and no faster, whichever way its requests come in, although cleanup
\* forgets addresses, and is told "too many attempts" for its own tries only: for any
\* clients, proxies, rate, burst and expiry that leave a forgotten limiter full.
THEOREM GateSafety == GateSpec => []GateSafe
<1>1. GateInit => GateInv
  BY Zenon, SMT, GateInitInv
<1>2. GateInv /\ [GateNext]_gateVars => GateInv'
  <2> SUFFICES ASSUME GateInv, [GateNext]_gateVars PROVE GateInv'
    BY Zenon, SMT
  <2>1. ASSUME NEW r \in Attempts, Plain(r) PROVE GateInv'
    BY Zenon, SMT, <2>1, PlainInv
  <2>2. ASSUME NEW r \in Attempts, Wrong(r) PROVE GateInv'
    BY Zenon, SMT, <2>2, WrongInv
  <2>3. ASSUME NEW r \in Attempts, Allow(r) PROVE GateInv'
    BY Zenon, SMT, <2>3, AllowInv
  <2>4. CASE cleanup
    BY Zenon, SMT, <2>4, ForgetInv
  <2>5. CASE GateTick
    BY Zenon, SMT, <2>5, TickInv
  <2>6. CASE UNCHANGED gateVars
    <3>1. UNCHANGED <<gateNow, gateReq, ips, lastSeen, credit, updated, gateAnswer>>
      BY Zenon, SMT, <2>6 DEF gateVars
    <3>2. Quiet
      BY Zenon, SMT, <3>1 DEF Quiet
    <3>3. GateTypeOK' /\ (gateReq \in [Attempts -> GateRequests])'
      BY Zenon, SMT, <3>1 DEF GateInv, GateTypeOK
    <3>4. ASSUME NEW r \in Attempts PROVE AttemptInv(r)'
      BY Zenon, SMT, <3>1 DEF GateInv, AttemptInv
    <3>5. ASSUME NEW a \in Known PROVE EntryInv(a)'
      BY Zenon, SMT, <3>1 DEF GateInv, EntryInv
    <3>6. \A c \in Clients : Left(c)' = Left(c)
      BY Zenon, SMT, <3>1 DEF Left, CreditNow
    <3> QED
      BY Zenon, SMT, <3>1, <3>2, <3>3, <3>4, <3>5, <3>6, QuietGate
  <2> QED
    BY Zenon, SMT, <2>1, <2>2, <2>3, <2>4, <2>5, <2>6 DEF GateNext
<1>3. GateInv => GateSafe
  BY Zenon, SMT DEF GateInv, GateSafe
<1> QED
  BY <1>1, <1>2, <1>3, PTL DEF GateSpec

-----------------------------------------------------------------------------
(* Publishing v1.                                                          *)

\* The requests that n fetches may send, and that a request has not failed yet.
Budget(n) == n * (defaultRetryMax + 1)
Good(r) == answer[r] \in {"ok", "sdk error"}

\* A form has the directories of the tries before this one, and its own once the
\* file is there; the tries before have used up at most their share of requests.
Trying(r) ==
    /\ formAt[r] # "done" =>
          tries[r] <= fetchTryLimit /\ dirs[r] \subseteq 1..tries[r] /\ asked[r] <= Budget(tries[r])
    /\ formAt[r] \in {"start", "get", "copy", "save"} => dirs[r] \subseteq 1..(tries[r] - 1)
    /\ formAt[r] \in {"check", "decode", "call"} => formFile[r] = "whole" /\ tries[r] \in dirs[r]
    /\ Good(r) => formAt[r] \in {"cleanup", "done"}
    /\ Good(r) /\ formAt[r] = "done" => dirs[r] \subseteq 1..(tries[r] - 1)
    /\ formAt[r] = "start" => asked[r] <= Budget(tries[r] - 1)
    /\ formAt[r] = "get" => attempts[r] <= defaultRetryMax /\ asked[r] <= Budget(tries[r] - 1) + attempts[r]
    /\ asked[r] <= Budget(fetchTryLimit)

FormInv == FormTypeOK /\ \A r \in Forms : Trying(r)

\* The budget of one more fetch.
LEMMA BudgetFacts ==
  ASSUME NEW n \in Nat
  PROVE  /\ Budget(n) \in Nat /\ Budget(n + 1) = Budget(n) + defaultRetryMax + 1
         /\ \A m \in Nat : n <= m => Budget(n) <= Budget(m)
<1> DEFINE k == defaultRetryMax + 1
<1>1. k \in Nat
  BY FormAssumption
<1>2. ASSUME NEW m \in Nat, n <= m PROVE n * k <= m * k
  <2> HIDE DEF k
  <2>1. m - n \in Nat /\ m = n + (m - n)
    BY <1>2
  <2>2. (m - n) * k \in Nat /\ n * k \in Nat
    BY <1>1, <2>1
  <2>3. (n + (m - n)) * k = n * k + (m - n) * k
    BY <1>1, <2>1
  <2>4. n * k + (m - n) * k >= n * k
    BY <2>2
  <2> QED BY Zenon, SMT, <2>1, <2>3, <2>4
<1>3. n * k \in Nat /\ (n + 1) * k = n * k + k
  BY <1>1
<1> QED BY <1>1, <1>2, <1>3, FormAssumption DEF Budget

LEMMA FormInitInv == FormInit => FormInv
<1> SUFFICES ASSUME FormInit PROVE FormInv
  OBVIOUS
<1>1. 1 \in 1..(fetchTryLimit + 1) /\ 0 \in 0..(defaultRetryMax + 1) /\ 0 \in Nat /\ 1 <= fetchTryLimit
  BY FormAssumption
<1>2. FormTypeOK
  BY Zenon, SMT, <1>1 DEF FormInit, FormTypeOK, FormPlaces, Answers
<1>3. 0 <= Budget(1) /\ 0 <= Budget(1 - 1) /\ 0 <= Budget(fetchTryLimit)
  BY BudgetFacts, FormAssumption
<1>4. ASSUME NEW r \in Forms PROVE Trying(r)
  BY Zenon, SMT, <1>1, <1>3 DEF FormInit, Trying, Good
<1> QED BY Zenon, SMT, <1>2, <1>4 DEF FormInv

\* The arithmetic of a form: n tries, c requests in all and k of this fetch.
LEMMA Numbers ==
  ASSUME NEW n \in 1..(fetchTryLimit + 1), NEW c \in Nat, NEW k \in 0..(defaultRetryMax + 1)
  PROVE  /\ 0 \in 0..(defaultRetryMax + 1) /\ 0 <= defaultRetryMax
         /\ c <= Budget(n - 1) => c <= Budget(n - 1) + 0
         /\ n <= fetchTryLimit =>
               /\ n + 1 \in 1..(fetchTryLimit + 1) /\ (n + 1) - 1 = n
               /\ n + 1 > fetchTryLimit \/ n + 1 <= fetchTryLimit
               /\ c <= Budget(n) => c <= Budget(fetchTryLimit) /\ c <= Budget(n + 1)
         /\ k <= defaultRetryMax /\ c <= Budget(n - 1) + k =>
               c + 1 \in Nat /\ c + 1 <= Budget(n) /\ c + 1 <= Budget(n - 1) + (k + 1)
         /\ k < defaultRetryMax => k + 1 \in 0..(defaultRetryMax + 1) /\ k + 1 <= defaultRetryMax
<1>1. n \in Nat /\ n - 1 \in Nat /\ (n - 1) + 1 = n /\ n + 1 \in Nat /\ fetchTryLimit \in Nat /\ defaultRetryMax \in Nat
  BY FormAssumption
<1>2. /\ Budget(n - 1) \in Nat /\ Budget(n) \in Nat /\ Budget(fetchTryLimit) \in Nat
      /\ Budget(n) = Budget(n - 1) + defaultRetryMax + 1 /\ Budget(n + 1) = Budget(n) + defaultRetryMax + 1
      /\ n <= fetchTryLimit => Budget(n) <= Budget(fetchTryLimit)
  <2>1. Budget((n - 1) + 1) = Budget(n - 1) + defaultRetryMax + 1
    BY Zenon, SMT, <1>1, BudgetFacts
  <2> QED BY Zenon, SMT, <1>1, <2>1, BudgetFacts
<1> QED BY <1>1, <1>2

\* The directories of n tries, with and without the one of this try.
LEMMA Sets ==
  ASSUME NEW n \in 1..(fetchTryLimit + 1), NEW d \in SUBSET (1..fetchTryLimit), n <= fetchTryLimit, d \subseteq 1..n
  PROVE  /\ d \cup {n} \in SUBSET (1..fetchTryLimit) /\ d \ {n} \in SUBSET (1..fetchTryLimit)
         /\ d \cup {n} \subseteq 1..n /\ d \ {n} \subseteq 1..(n - 1) /\ d \subseteq 1..(n + 1)
  BY FormAssumption

\* The values of a form.
LEMMA FormRanges ==
  ASSUME FormInv, NEW r \in Forms
  PROVE  /\ tries[r] \in 1..(fetchTryLimit + 1) /\ attempts[r] \in 0..(defaultRetryMax + 1) /\ asked[r] \in Nat
         /\ dirs[r] \in SUBSET (1..fetchTryLimit) /\ formFile[r] \in {"none", "partial", "whole"}
         /\ answer[r] \in Answers /\ formAt[r] \in FormPlaces
         /\ remote \in [Forms -> BOOLEAN] /\ formAt \in [Forms -> FormPlaces] /\ tries \in [Forms -> 1..(fetchTryLimit + 1)]
         /\ attempts \in [Forms -> 0..(defaultRetryMax + 1)] /\ asked \in [Forms -> Nat]
         /\ dirs \in [Forms -> SUBSET (1..fetchTryLimit)] /\ formFile \in [Forms -> {"none", "partial", "whole"}]
         /\ answer \in [Forms -> Answers] /\ Trying(r)
  BY Zenon, SMT DEF FormInv, FormTypeOK

\* A step of one form leaves the others alone.
LEMMA OneForm ==
  ASSUME FormInv, NEW r \in Forms, FormTypeOK', Trying(r)',
         \A q \in Forms : q # r =>
            /\ formAt'[q] = formAt[q] /\ tries'[q] = tries[q] /\ attempts'[q] = attempts[q] /\ asked'[q] = asked[q]
            /\ dirs'[q] = dirs[q] /\ formFile'[q] = formFile[q] /\ answer'[q] = answer[q]
  PROVE  FormInv'
<1>1. ASSUME NEW q \in Forms, q # r PROVE Trying(q)'
  BY ZenonT(30), SMTT(60), <1>1 DEF Trying, Good, FormInv
<1> QED BY Zenon, SMT, <1>1 DEF FormInv

LEMMA FormQuietSteps ==
  ASSUME FormInv, NEW r \in Forms,
         Refuse(r) \/ StartFetch(r) \/ TimedOut(r) \/ InTime(r) \/ FormDecode(r) \/ FormCall(r)
  PROVE  FormInv'
<1>1. /\ remote \in [Forms -> BOOLEAN] /\ formAt \in [Forms -> FormPlaces] /\ tries \in [Forms -> 1..(fetchTryLimit + 1)]
      /\ attempts \in [Forms -> 0..(defaultRetryMax + 1)] /\ asked \in [Forms -> Nat]
      /\ dirs \in [Forms -> SUBSET (1..fetchTryLimit)] /\ formFile \in [Forms -> {"none", "partial", "whole"}]
      /\ answer \in [Forms -> Answers] /\ Trying(r)
  BY Zenon, SMT, FormRanges
<1>2. /\ 0 \in 0..(defaultRetryMax + 1) /\ 0 <= defaultRetryMax
      /\ asked[r] <= Budget(tries[r] - 1) => asked[r] <= Budget(tries[r] - 1) + 0
  BY Zenon, SMT, FormRanges, Numbers
<1>3. UNCHANGED <<remote, tries, asked, dirs, formFile>>
  BY Zenon, SMT DEF Refuse, StartFetch, TimedOut, InTime, FormDecode, FormCall
<1>4. PICK p \in FormPlaces : formAt' = [formAt EXCEPT ![r] = p]
  BY Zenon, SMT DEF Refuse, StartFetch, TimedOut, InTime, FormDecode, FormCall, FormGoTo, FormPlaces
<1>5. PICK k \in 0..(defaultRetryMax + 1) : attempts' = [attempts EXCEPT ![r] = k] /\ (p = "get" => k = 0)
  <2>1. CASE StartFetch(r)
    BY Zenon, SMT, <1>2, <2>1 DEF StartFetch
  <2>2. CASE ~StartFetch(r)
    <3>1. attempts' = attempts /\ attempts = [attempts EXCEPT ![r] = attempts[r]] /\ attempts[r] \in 0..(defaultRetryMax + 1)
      BY Zenon, SMT, <1>1, <2>2 DEF Refuse, TimedOut, InTime, FormDecode, FormCall
    <3>2. p # "get"
      BY Zenon, SMT, <1>1, <1>4, <2>2 DEF Refuse, TimedOut, InTime, FormDecode, FormCall, FormGoTo
    <3> QED BY Zenon, SMT, <3>1, <3>2
  <2> QED BY Zenon, SMT, <2>1, <2>2
<1>6. PICK a \in Answers : answer' = [answer EXCEPT ![r] = a] /\ (a \in {"ok", "sdk error"} => p = "cleanup" \/ a = answer[r])
  <2>1. CASE answer' = answer
    <3>1. answer = [answer EXCEPT ![r] = answer[r]] /\ answer[r] \in Answers
      BY Zenon, SMT, <1>1
    <3> QED BY Zenon, SMT, <2>1, <3>1
  <2>2. CASE FormCall(r)
    BY Zenon, SMT, <1>1, <1>4, <2>2 DEF FormCall, FormGoTo, SetAnswer
  <2>3. CASE answer' = [answer EXCEPT ![r] = "error"]
    BY Zenon, SMT, <2>3 DEF Answers
  <2> QED BY Zenon, SMT, <2>1, <2>2, <2>3 DEF Refuse, StartFetch, TimedOut, InTime, FormDecode, SetAnswer
<1>7. /\ formAt[r] # "done" /\ formAt[r] # "cleanup" /\ p # "start" /\ p # "copy"
      /\ p \in {"get", "save"} => formAt[r] = "start"
      /\ p \in {"check", "decode", "call"} => formAt[r] \in {"check", "decode"}
  BY ZenonT(30), SMTT(60), <1>1, <1>4 DEF Refuse, StartFetch, TimedOut, InTime, FormDecode, FormCall, FormGoTo
<1>8. FormTypeOK'
  BY Zenon, SMT, <1>1, <1>3, <1>4, <1>5, <1>6 DEF FormTypeOK
<1>9. formAt'[r] = p /\ attempts'[r] = k /\ answer'[r] = a
  BY Zenon, SMT, <1>1, <1>4, <1>5, <1>6
<1>10. Trying(r)'
  BY Zenon, SMT, <1>1, <1>2, <1>3, <1>5, <1>6, <1>7, <1>9 DEF Trying, Good
<1> QED BY Zenon, SMT, <1>1, <1>3, <1>4, <1>5, <1>6, <1>8, <1>10, OneForm

\* A fetch has failed: its requests are within its share, and the next try begins
\* with what its directory and the earlier ones have left.
LEMMA RefetchInv ==
  ASSUME FormInv, NEW r \in Forms, formAt[r] \in {"get", "copy"}, Refetch(r),
         UNCHANGED <<remote, attempts, formFile>>,
         NEW c \in Nat, c <= Budget(tries[r]), asked' = [asked EXCEPT ![r] = c],
         NEW d \in SUBSET (1..fetchTryLimit), d \subseteq 1..tries[r], dirs' = [dirs EXCEPT ![r] = d]
  PROVE  FormInv'
<1> DEFINE n == tries[r]
<1>1. /\ remote \in [Forms -> BOOLEAN] /\ formAt \in [Forms -> FormPlaces] /\ tries \in [Forms -> 1..(fetchTryLimit + 1)]
      /\ attempts \in [Forms -> 0..(defaultRetryMax + 1)] /\ asked \in [Forms -> Nat]
      /\ dirs \in [Forms -> SUBSET (1..fetchTryLimit)] /\ formFile \in [Forms -> {"none", "partial", "whole"}]
      /\ answer \in [Forms -> Answers] /\ Trying(r) /\ n \in 1..(fetchTryLimit + 1) /\ attempts[r] \in 0..(defaultRetryMax + 1)
  BY Zenon, SMT, FormRanges
<1>2. n <= fetchTryLimit /\ ~Good(r)
  BY Zenon, SMT, <1>1 DEF Trying
<1>3. tries' = [tries EXCEPT ![r] = n + 1]
  BY Zenon, SMT DEF Refetch
<1> HIDE DEF n
<1>4. /\ n + 1 \in 1..(fetchTryLimit + 1) /\ (n + 1) - 1 = n
      /\ n + 1 > fetchTryLimit \/ n + 1 <= fetchTryLimit
      /\ c <= Budget(fetchTryLimit) /\ c <= Budget(n + 1)
  BY Zenon, SMT, <1>1, <1>2, Numbers DEF n
<1>5. d \subseteq 1..(n + 1)
  BY Zenon, SMT, <1>1, <1>2, Sets DEF n
<1>6. PICK p \in {"start", "done"} : formAt' = [formAt EXCEPT ![r] = p] /\ (p = "start" => n + 1 <= fetchTryLimit)
  BY Zenon, SMT, <1>4 DEF Refetch, FormGoTo, n
<1>7. PICK a \in Answers : answer' = [answer EXCEPT ![r] = a] /\ a \notin {"ok", "sdk error"}
  <2>1. CASE answer' = answer
    <3>1. answer = [answer EXCEPT ![r] = answer[r]] /\ answer[r] \in Answers
      BY Zenon, SMT, <1>1
    <3> QED BY Zenon, SMT, <1>2, <2>1, <3>1 DEF Good
  <2>2. CASE answer' = [answer EXCEPT ![r] = "error"]
    BY Zenon, SMT, <2>2 DEF Answers
  <2> QED BY Zenon, SMT, <2>1, <2>2 DEF Refetch, SetAnswer
<1>8. FormTypeOK'
  BY Zenon, SMT, <1>1, <1>3, <1>4, <1>6, <1>7 DEF FormTypeOK, FormPlaces
<1>9. formAt'[r] = p /\ tries'[r] = n + 1 /\ asked'[r] = c /\ dirs'[r] = d /\ answer'[r] = a
  BY Zenon, SMT, <1>1, <1>3, <1>6, <1>7
<1>10. Trying(r)'
  BY Zenon, SMT, <1>4, <1>5, <1>6, <1>7, <1>9 DEF Trying, Good, n
<1> QED BY Zenon, SMT, <1>1, <1>3, <1>6, <1>7, <1>8, <1>10, OneForm

\* One HTTP request.
LEMMA FormGetInv ==
  ASSUME FormInv, NEW r \in Forms, FormGet(r) \/ BadURL(r)
  PROVE  FormInv'
<1> DEFINE n == tries[r]
           c == asked[r]
           k == attempts[r]
<1>1. /\ remote \in [Forms -> BOOLEAN] /\ formAt \in [Forms -> FormPlaces] /\ tries \in [Forms -> 1..(fetchTryLimit + 1)]
      /\ attempts \in [Forms -> 0..(defaultRetryMax + 1)] /\ asked \in [Forms -> Nat]
      /\ dirs \in [Forms -> SUBSET (1..fetchTryLimit)] /\ formFile \in [Forms -> {"none", "partial", "whole"}]
      /\ answer \in [Forms -> Answers] /\ Trying(r) /\ formAt[r] = "get"
      /\ n \in 1..(fetchTryLimit + 1) /\ c \in Nat /\ k \in 0..(defaultRetryMax + 1) /\ dirs[r] \in SUBSET (1..fetchTryLimit)
  BY Zenon, SMT, FormRanges DEF FormGet, BadURL
<1>2. /\ n <= fetchTryLimit /\ k <= defaultRetryMax /\ c <= Budget(n - 1) + k /\ c <= Budget(n)
      /\ dirs[r] \subseteq 1..(n - 1) /\ dirs[r] \subseteq 1..n /\ ~Good(r)
  BY Zenon, SMT, <1>1 DEF Trying
<1>3. /\ c + 1 \in Nat /\ c + 1 <= Budget(n) /\ c + 1 <= Budget(n - 1) + (k + 1)
      /\ k < defaultRetryMax => k + 1 \in 0..(defaultRetryMax + 1) /\ k + 1 <= defaultRetryMax
  BY Zenon, SMT, <1>1, <1>2, Numbers
<1>4. c + 1 <= Budget(fetchTryLimit)
  <2>1. ASSUME NEW b \in Nat, b <= Budget(n) PROVE b <= Budget(fetchTryLimit)
    BY Zenon, SMT, <1>1, <1>2, <2>1, Numbers
  <2> QED BY Zenon, SMT, <1>3, <2>1
<1>5. dirs = [dirs EXCEPT ![r] = dirs[r]] /\ asked = [asked EXCEPT ![r] = c]
  BY Zenon, SMT, <1>1
<1>6. CASE BadURL(r)
  <2>1. Refetch(r) /\ UNCHANGED <<remote, attempts, formFile>> /\ asked' = [asked EXCEPT ![r] = c] /\ dirs' = [dirs EXCEPT ![r] = dirs[r]]
    BY Zenon, SMT, <1>5, <1>6 DEF BadURL
  <2> QED BY Zenon, SMT, <1>1, <1>2, <2>1, RefetchInv
<1>7. CASE FormGet(r)
  <2>1. asked' = [asked EXCEPT ![r] = c + 1] /\ UNCHANGED <<remote, dirs, formFile>>
    BY Zenon, SMT, <1>7 DEF FormGet
  <2>2. CASE Refetch(r) /\ UNCHANGED attempts
    <3>1. dirs' = [dirs EXCEPT ![r] = dirs[r]]
      BY Zenon, SMT, <1>5, <2>1
    <3> QED BY Zenon, SMT, <1>1, <1>2, <1>3, <2>1, <2>2, <3>1, RefetchInv
  <2>3. CASE k < defaultRetryMax /\ attempts' = [attempts EXCEPT ![r] = k + 1] /\ UNCHANGED <<formAt, tries, answer>>
    <3>1. FormTypeOK'
      BY Zenon, SMT, <1>1, <1>3, <2>1, <2>3 DEF FormTypeOK
    <3>2. attempts'[r] = k + 1 /\ asked'[r] = c + 1
      BY Zenon, SMT, <1>1, <2>1, <2>3
    <3>3. Trying(r)'
      BY ZenonT(30), SMTT(60), <1>1, <1>2, <1>3, <1>4, <2>1, <2>3, <3>2 DEF Trying, Good
    <3> QED BY Zenon, SMT, <1>1, <2>1, <2>3, <3>1, <3>3, OneForm
  <2>4. CASE FormGoTo(r, "copy") /\ UNCHANGED <<attempts, tries, answer>>
    <3>1. formAt' = [formAt EXCEPT ![r] = "copy"]
      BY Zenon, SMT, <2>4 DEF FormGoTo
    <3>2. FormTypeOK'
      BY Zenon, SMT, <1>1, <1>3, <2>1, <2>4, <3>1 DEF FormTypeOK, FormPlaces
    <3>3. formAt'[r] = "copy" /\ asked'[r] = c + 1
      BY Zenon, SMT, <1>1, <2>1, <3>1
    <3>4. Trying(r)'
      BY Zenon, SMT, <1>1, <1>2, <1>3, <1>4, <2>1, <2>4, <3>3 DEF Trying, Good
    <3> QED BY Zenon, SMT, <1>1, <2>1, <2>4, <3>1, <3>2, <3>4, OneForm
  <2> QED BY Zenon, SMT, <1>7, <2>2, <2>3, <2>4 DEF FormGet
<1> QED BY Zenon, SMT, <1>6, <1>7

\* The file is stored, or not, in the directory of this try; or removed with it.
LEMMA FileInv ==
  ASSUME FormInv, NEW r \in Forms, CopyFails(r) \/ Copy(r) \/ SaveFile(r) \/ RemoveFile(r)
  PROVE  FormInv'
<1> DEFINE n == tries[r]
           d == dirs[r] \cup {n}
           e == dirs[r] \ {n}
<1>1. /\ remote \in [Forms -> BOOLEAN] /\ formAt \in [Forms -> FormPlaces] /\ tries \in [Forms -> 1..(fetchTryLimit + 1)]
      /\ attempts \in [Forms -> 0..(defaultRetryMax + 1)] /\ asked \in [Forms -> Nat]
      /\ dirs \in [Forms -> SUBSET (1..fetchTryLimit)] /\ formFile \in [Forms -> {"none", "partial", "whole"}]
      /\ answer \in [Forms -> Answers] /\ Trying(r) /\ formAt[r] \in {"copy", "save", "cleanup"}
      /\ n \in 1..(fetchTryLimit + 1) /\ asked[r] \in Nat /\ dirs[r] \in SUBSET (1..fetchTryLimit)
  BY Zenon, SMT, FormRanges DEF CopyFails, Copy, SaveFile, RemoveFile
<1>2. /\ n <= fetchTryLimit /\ dirs[r] \subseteq 1..n /\ asked[r] <= Budget(n)
      /\ asked[r] <= Budget(fetchTryLimit) /\ (formAt[r] # "cleanup" => ~Good(r))
  BY Zenon, SMT, <1>1 DEF Trying
<1>3. /\ d \in SUBSET (1..fetchTryLimit) /\ d \subseteq 1..n /\ n \in d
      /\ e \in SUBSET (1..fetchTryLimit) /\ e \subseteq 1..(n - 1)
  <2> DEFINE x == dirs[r]
  <2>1. n \in 1..(fetchTryLimit + 1) /\ x \in SUBSET (1..fetchTryLimit) /\ n <= fetchTryLimit /\ x \subseteq 1..n
    BY Zenon, SMT, <1>1, <1>2
  <2> HIDE DEF n, x
  <2>2. /\ x \cup {n} \in SUBSET (1..fetchTryLimit) /\ x \ {n} \in SUBSET (1..fetchTryLimit)
        /\ x \cup {n} \subseteq 1..n /\ x \ {n} \subseteq 1..(n - 1)
    BY Zenon, SMT, <2>1, Sets
  <2>3. n \in x \cup {n}
    OBVIOUS
  <2> QED BY Zenon, SMT, <2>2, <2>3 DEF x
<1>4. dirs = [dirs EXCEPT ![r] = dirs[r]] /\ asked = [asked EXCEPT ![r] = asked[r]]
  BY Zenon, SMT, <1>1
<1> HIDE DEF d, e
<1>5. CASE CopyFails(r)
  <2>1. PICK x \in {d, dirs[r]} : dirs' = [dirs EXCEPT ![r] = x]
    BY Zenon, SMT, <1>4, <1>5 DEF CopyFails, createFile, d
  <2>2. Refetch(r) /\ UNCHANGED <<remote, attempts, formFile>> /\ asked' = [asked EXCEPT ![r] = asked[r]] /\ formAt[r] = "copy"
    BY Zenon, SMT, <1>4, <1>5 DEF CopyFails
  <2>3. x \in SUBSET (1..fetchTryLimit) /\ x \subseteq 1..n
    BY Zenon, SMT, <1>1, <1>2, <1>3, <2>1
  <2> QED BY Zenon, SMT, <1>1, <1>2, <2>1, <2>2, <2>3, RefetchInv
<1>6. CASE Copy(r) \/ (SaveFile(r) /\ formAt'[r] = "check")
  <2>1. /\ dirs' = [dirs EXCEPT ![r] = d] /\ formFile' = [formFile EXCEPT ![r] = "whole"]
        /\ formAt' = [formAt EXCEPT ![r] = "check"] /\ UNCHANGED <<remote, tries, attempts, asked, answer>>
        /\ formAt[r] # "cleanup"
    BY Zenon, SMT, <1>1, <1>6 DEF Copy, SaveFile, createFile, SetFile, FormGoTo, d
  <2>2. FormTypeOK'
    BY Zenon, SMT, <1>1, <1>3, <2>1 DEF FormTypeOK, FormPlaces
  <2>3. dirs'[r] = d /\ formFile'[r] = "whole" /\ formAt'[r] = "check"
    BY Zenon, SMT, <1>1, <2>1
  <2>4. Trying(r)'
    BY Zenon, SMT, <1>2, <1>3, <2>1, <2>3 DEF Trying, Good
  <2> QED BY Zenon, SMT, <1>1, <2>1, <2>2, <2>4, OneForm
<1>7. CASE SaveFile(r) /\ formAt'[r] # "check"
  <2>1. /\ formAt' = [formAt EXCEPT ![r] = "done"] /\ answer' = [answer EXCEPT ![r] = "error"]
        /\ UNCHANGED <<remote, tries, attempts, asked, formFile>>
    BY Zenon, SMT, <1>1, <1>7 DEF SaveFile, FormGoTo, SetAnswer
  <2>2. PICK x \in SUBSET (1..fetchTryLimit) : dirs' = [dirs EXCEPT ![r] = x]
    BY Zenon, SMT, <1>1, <1>3, <1>4, <1>7 DEF SaveFile, createFile, d
  <2>3. FormTypeOK'
    BY Zenon, SMT, <1>1, <2>1, <2>2 DEF FormTypeOK, FormPlaces, Answers
  <2>4. formAt'[r] = "done" /\ answer'[r] = "error"
    BY Zenon, SMT, <1>1, <2>1
  <2>5. Trying(r)'
    BY Zenon, SMT, <1>2, <2>1, <2>4 DEF Trying, Good
  <2> QED BY Zenon, SMT, <1>1, <2>1, <2>2, <2>3, <2>5, OneForm
<1>8. CASE RemoveFile(r)
  <2>1. /\ dirs' = [dirs EXCEPT ![r] = e] /\ formFile' = [formFile EXCEPT ![r] = "none"]
        /\ formAt' = [formAt EXCEPT ![r] = "done"] /\ UNCHANGED <<remote, tries, attempts, asked, answer>>
    BY Zenon, SMT, <1>8 DEF RemoveFile, SetFile, FormGoTo, e
  <2>2. FormTypeOK'
    BY Zenon, SMT, <1>1, <1>3, <2>1 DEF FormTypeOK, FormPlaces
  <2>3. dirs'[r] = e /\ formAt'[r] = "done"
    BY Zenon, SMT, <1>1, <2>1
  <2>4. Trying(r)'
    BY Zenon, SMT, <1>2, <1>3, <2>1, <2>3 DEF Trying, Good
  <2> QED BY Zenon, SMT, <1>1, <2>1, <2>2, <2>4, OneForm
<1> QED BY Zenon, SMT, <1>5, <1>6, <1>7, <1>8

\* The SDK is given a whole file that is there, a remote server is asked at most
\* fetchTryLimit times (defaultRetryMax + 1) times, and what stays on the disk after
\* an answered publish is of failed fetches: Handle and fetchFile, for any number of
\* forms and any limits.
THEOREM FormSafety == FormSpec => []FormSafe
<1>1. ASSUME FormInv, [FormNext]_formVars PROVE FormInv'
  <2>1. CASE UNCHANGED formVars
    BY Zenon, SMT, <1>1, <2>1 DEF formVars, FormInv, FormTypeOK, Trying, Good
  <2> QED BY Zenon, SMT, <1>1, <2>1, FormQuietSteps, FormGetInv, FileInv DEF FormNext, Handle
<1>2. ASSUME FormInv PROVE FormSafe
  <2>1. ASSUME NEW r \in Forms, Good(r), formAt[r] = "done"
        PROVE  Cardinality(dirs[r]) < tries[r] /\ tries[r] \notin dirs[r]
    <3>1. dirs[r] \subseteq 1..(tries[r] - 1) /\ tries[r] \in Nat /\ 1 <= tries[r]
      <4>1. dirs[r] \subseteq 1..(tries[r] - 1) /\ tries[r] \in 1..(fetchTryLimit + 1)
        BY Zenon, SMT, <1>2, <2>1, FormRanges DEF Trying
      <4> QED BY <4>1, FormAssumption
    <3>2. IsFiniteSet(1..(tries[r] - 1)) /\ Cardinality(1..(tries[r] - 1)) = tries[r] - 1
      <4> DEFINE m == tries[r] - 1
      <4>1. m \in Int /\ 1 \in Int /\ (IF 1 > m THEN 0 ELSE m - 1 + 1) = m
        BY <3>1
      <4>3. m = tries[r] - 1
        OBVIOUS
      <4> HIDE DEF m
      <4>2. IsFiniteSet(1..m) /\ Cardinality(1..m) = IF 1 > m THEN 0 ELSE m - 1 + 1
        BY Zenon, SMT, <4>1, FS_Interval
      <4> QED BY Zenon, SMT, <4>1, <4>2, <4>3
    <3>3. Cardinality(dirs[r]) \in Nat /\ Cardinality(dirs[r]) <= tries[r] - 1
      BY <3>1, <3>2, FS_Subset, FS_CardinalityType
    <3> QED BY <3>1, <3>3
  <2>2. LeftoversOnlyOfFailures
    BY Zenon, SMT, <2>1 DEF LeftoversOnlyOfFailures, Good
  <2>3. CallHasFile
    BY Zenon, SMT, <1>2 DEF FormInv, Trying, CallHasFile
  <2>4. RemoteAskedBounded
    BY Zenon, SMT, <1>2 DEF FormInv, Trying, RemoteAskedBounded, Budget
  <2> QED BY Zenon, SMT, <1>2, <2>2, <2>3, <2>4 DEF FormInv, FormSafe
<1> QED BY <1>1, <1>2, FormInitInv, PTL DEF FormSpec

-----------------------------------------------------------------------------
(* Publishing v2.                                                          *)

\* The requests that have found the file and not failed, or have made the call.
Past == {r \in Requests : \/ pc[r] \in {"decode", "call", "remove", "cleanup"}
                          \/ r \in tusCalls
                          \/ reply[r] = "response"}

\* What the request that has the file knows.
Owns(r) ==
    /\ r \in Past => ~orig /\ moved \subseteq {UserOf(r)}
    /\ pc[r] \in {"decode", "call"} => UserOf(r) \in moved
    /\ pc[r] = "call" => r \in tusCalls
    /\ pc[r] \in {"remove", "cleanup"} => r \in tusAnswered
    /\ pc[r] = "cleanup" => ~tusInfo
    /\ reply[r] = "response" => moved = {} /\ ~tusInfo

TusInv ==
    /\ TusTypeOK
    /\ \A r, s \in Past : r = s
    /\ orig => moved = {}
    /\ \A r \in Requests : Owns(r)
    /\ KeptUntilAnswered

-----------------------------------------------------------------------------

\* Nobody has asked for anything yet.
LEMMA TusInitInv == TusInit => TusInv
  BY Zenon, SMT DEF TusInit, TusInv, TusTypeOK, Places, Replies, Past, Owns, KeptUntilAnswered

\* A step that takes nobody past the renaming and does not touch the files.
LEMMA QuietInv ==
  ASSUME TusInv, NEW r \in Requests,
         Authorize(r) \/ Lock(r) \/ LockFails(r) \/ Unlock(r)
  PROVE  TusInv'
<1>1. UNCHANGED <<complete, orig, moved, tusInfo, tusCalls, tusAnswered>>
  BY Zenon, SMT DEF Authorize, Lock, LockFails, Unlock
<1>2. /\ pc' \in [Requests -> Places]
      /\ pc'[r] \notin {"decode", "call", "remove", "cleanup"}
      /\ \A q \in Requests : q # r => pc'[q] = pc[q]
  BY Zenon, SMT DEF Authorize, Lock, LockFails, Unlock, Fail, TusGoTo, TusInv, TusTypeOK, Places
<1>3. /\ reply' \in [Requests -> Replies]
      /\ reply'[r] = "response" => reply[r] = "response"
      /\ \A q \in Requests : q # r => reply'[q] = reply[q]
  BY Zenon, SMT DEF Authorize, Lock, LockFails, Unlock, Fail, TusInv, TusTypeOK, Replies
<1>4. lock' \in Requests \cup {None}
  BY Zenon, SMT DEF Authorize, Lock, LockFails, Unlock, TusInv, TusTypeOK
<1>5. TusTypeOK'
  BY Zenon, SMT, <1>1, <1>2, <1>3, <1>4 DEF TusInv, TusTypeOK
<1>6. Past' \subseteq Past
  BY Zenon, SMT, <1>1, <1>2, <1>3 DEF Past
<1>7. ASSUME NEW q \in Requests PROVE Owns(q)'
  <2>1. Owns(q)
    BY Zenon, SMT DEF TusInv
  <2> QED BY Zenon, SMT, <1>1, <1>2, <1>3, <1>6, <2>1 DEF Owns
<1>8. KeptUntilAnswered'
  BY Zenon, SMT, <1>1 DEF TusInv, KeptUntilAnswered
<1> QED BY Zenon, SMT, <1>1, <1>5, <1>6, <1>7, <1>8 DEF TusInv

\* PATCH, DELETE and the expiry of the lock.
LEMMA OutsideInv ==
  ASSUME TusInv, TusPatch \/ TusDelete \/ LockExpires
  PROVE  TusInv'
<1>1. /\ UNCHANGED <<moved, pc, tusCalls, tusAnswered, reply>>
      /\ \/ orig' = orig /\ tusInfo' = tusInfo
         \/ orig /\ orig' = FALSE /\ tusInfo' = FALSE
  BY Zenon, SMT DEF TusPatch, TusDelete, LockExpires, TusUpload
<1>2. TusTypeOK'
  BY Zenon, SMT, <1>1 DEF TusPatch, TusDelete, LockExpires, TusInv, TusTypeOK
<1>3. Past' = Past
  BY Zenon, SMT, <1>1 DEF Past
<1>4. ASSUME NEW q \in Requests PROVE Owns(q)'
  <2>1. Owns(q)
    BY Zenon, SMT DEF TusInv
  <2> QED BY <1>1, <1>3, <2>1 DEF Owns
<1>5. orig => tusCalls = {}
  <2>1. ASSUME NEW c \in tusCalls, orig PROVE FALSE
    <3>1. c \in Past /\ c \in Requests
      BY Zenon, SMT DEF TusInv, TusTypeOK, Past
    <3> QED BY Zenon, SMT, <2>1, <3>1 DEF TusInv, Owns
  <2> QED BY Zenon, SMT, <2>1
<1>6. KeptUntilAnswered'
  BY Zenon, SMT, <1>1, <1>5 DEF TusInv, KeptUntilAnswered
<1> QED BY <1>1, <1>2, <1>3, <1>4, <1>6 DEF TusInv

\* The steps of the request that has found the file, or looks for it.
LEMMA RenameInv ==
  ASSUME TusInv, NEW r \in Requests, TusRename(r)
  PROVE  TusInv'
<1> USE TusAssumption
<1>1. CASE Fail(r) /\ UNCHANGED <<orig, moved>>
  <2>1. UNCHANGED <<complete, orig, moved, tusInfo, lock, tusCalls, tusAnswered>>
    BY Zenon, SMT, <1>1 DEF TusRename
  <2>2. /\ pc' \in [Requests -> Places] /\ pc'[r] = "unlock"
        /\ \A q \in Requests : q # r => pc'[q] = pc[q]
        /\ reply' \in [Requests -> Replies] /\ reply'[r] = "error"
        /\ \A q \in Requests : q # r => reply'[q] = reply[q]
    BY Zenon, SMT, <1>1 DEF Fail, TusGoTo, TusInv, TusTypeOK, Places, Replies
  <2>3. TusTypeOK'
    BY Zenon, SMT, <2>1, <2>2 DEF TusInv, TusTypeOK
  <2>4. Past' \subseteq Past
    BY Zenon, SMT, <2>1, <2>2 DEF Past
  <2>5. ASSUME NEW q \in Requests PROVE Owns(q)'
    <3>1. Owns(q)
      BY Zenon, SMT DEF TusInv
    <3> QED BY Zenon, SMT, <2>1, <2>2, <2>4, <3>1 DEF Owns
  <2> QED BY Zenon, SMT, <2>1, <2>3, <2>4, <2>5 DEF TusInv, KeptUntilAnswered
<1>2. CASE /\ orig
           /\ orig' = FALSE /\ moved' = moved \cup {UserOf(r)}
           /\ TusGoTo(r, "decode") /\ UNCHANGED reply
  <2>1. UNCHANGED <<complete, tusInfo, lock, tusCalls, tusAnswered, reply>>
    BY Zenon, SMT, <1>2 DEF TusRename
  <2>2. /\ pc' \in [Requests -> Places] /\ pc'[r] = "decode"
        /\ \A q \in Requests : q # r => pc'[q] = pc[q]
    BY Zenon, SMT, <1>2 DEF TusGoTo, TusInv, TusTypeOK, Places
  <2>3. TusTypeOK'
    BY Zenon, SMT, <1>2, <2>1, <2>2 DEF TusInv, TusTypeOK
  <2>4. Past = {}
    BY Zenon, SMT, <1>2 DEF TusInv, Owns, Past
  <2>5. Past' = {r}
    BY Zenon, SMT, <2>1, <2>2, <2>4 DEF Past
  <2>6. moved' = {UserOf(r)}
    BY Zenon, SMT, <1>2 DEF TusInv
  <2>7. ASSUME NEW q \in Requests PROVE Owns(q)'
    <3>1. q \notin Past
      BY Zenon, SMT, <2>4
    <3>2. CASE q = r
      BY Zenon, SMT, <1>2, <2>1, <2>2, <2>5, <2>6, <3>1, <3>2 DEF Owns, Past
    <3>3. CASE q # r
      BY Zenon, SMT, <1>2, <2>1, <2>2, <2>5, <2>6, <3>1, <3>3 DEF Owns, Past
    <3> QED BY Zenon, SMT, <3>2, <3>3
  <2> QED BY Zenon, SMT, <1>2, <2>3, <2>5, <2>6, <2>7 DEF TusInv, KeptUntilAnswered
<1> QED BY Zenon, SMT, <1>1, <1>2 DEF TusRename

\* The one that has the file decodes its body, calls the SDK and removes the
\* .info file.
LEMMA ForwardInv ==
  ASSUME TusInv, NEW r \in Requests, TusDecode(r) \/ Call(r) \/ TusRemoveInfo(r)
  PROVE  TusInv'
<1>1. UNCHANGED <<complete, orig, moved, lock>>
  BY Zenon, SMT DEF TusDecode, Call, TusRemoveInfo
<1>2. /\ pc' \in [Requests -> Places] /\ pc'[r] \in {"call", "remove", "cleanup", "unlock"}
      /\ \A q \in Requests : q # r => pc'[q] = pc[q]
      /\ reply' \in [Requests -> Replies] /\ reply'[r] \in {reply[r], "error"}
      /\ \A q \in Requests : q # r => reply'[q] = reply[q]
  BY Zenon, SMT DEF TusDecode, Call, TusRemoveInfo, Fail, TusGoTo, TusInv, TusTypeOK, Places, Replies
<1>3. /\ r \in Past /\ Owns(r)
      /\ \A q \in Requests : q # r => q \notin Past
  BY Zenon, SMT DEF TusDecode, Call, TusRemoveInfo, TusInv, Past
<1>4. /\ tusCalls \subseteq tusCalls' /\ tusCalls' \subseteq tusCalls \cup {r}
      /\ tusAnswered \subseteq tusAnswered' /\ tusAnswered' \subseteq tusAnswered \cup {r}
      /\ tusAnswered' \subseteq tusCalls'
      /\ pc'[r] = "call" => pc[r] = "decode" /\ r \in tusCalls'
      /\ pc'[r] \in {"remove", "cleanup"} => r \in tusAnswered'
  <2>1. CASE TusDecode(r)
    BY Zenon, SMT, <1>3, <2>1 DEF TusDecode, Fail, TusGoTo, TusInv, TusTypeOK, Owns
  <2>2. CASE Call(r)
    BY Zenon, SMT, <1>3, <2>2 DEF Call, Fail, TusGoTo, TusInv, TusTypeOK, Owns
  <2>3. CASE TusRemoveInfo(r)
    BY Zenon, SMT, <1>3, <2>3 DEF TusRemoveInfo, TusGoTo, TusInv, TusTypeOK, Owns
  <2> QED BY Zenon, SMT, <2>1, <2>2, <2>3
<1>5. /\ tusInfo' \in BOOLEAN /\ (tusInfo' => tusInfo)
      /\ pc'[r] = "cleanup" => ~tusInfo'
      /\ tusInfo' = tusInfo \/ tusAnswered' # {}
  <2>1. CASE TusDecode(r) \/ Call(r)
    BY <1>3, <2>1 DEF TusDecode, Call, Fail, TusGoTo, TusInv, TusTypeOK
  <2>2. CASE TusRemoveInfo(r)
    BY Zenon, SMT, <1>3, <2>2 DEF TusRemoveInfo, TusGoTo, TusInv, TusTypeOK, Owns
  <2> QED BY Zenon, SMT, <2>1, <2>2
<1>6. TusTypeOK'
  BY Zenon, SMT, <1>1, <1>2, <1>4, <1>5 DEF TusInv, TusTypeOK
<1>7. Past' \subseteq {r}
  BY Zenon, SMT, <1>2, <1>3, <1>4 DEF Past
<1>8. ASSUME NEW q \in Requests PROVE Owns(q)'
  <2>1. Owns(q)
    BY Zenon, SMT DEF TusInv
  <2>2. CASE q = r
    BY Zenon, SMT, <1>1, <1>2, <1>3, <1>4, <1>5, <2>1, <2>2 DEF Owns
  <2>3. CASE q # r
    BY ZenonT(30), SMTT(60), <1>1, <1>2, <1>3, <1>4, <1>5, <1>7, <2>1, <2>3 DEF Owns, Past
  <2> QED BY Zenon, SMT, <2>2, <2>3
<1>9. KeptUntilAnswered'
  <2>1. CASE pc[r] \in {"decode", "call"}
    BY Zenon, SMT, <1>1, <1>3, <2>1 DEF Owns, KeptUntilAnswered
  <2>2. CASE pc[r] = "remove"
    BY Zenon, SMT, <1>3, <1>4, <2>2 DEF Owns, KeptUntilAnswered
  <2> QED BY Zenon, SMT, <2>1, <2>2 DEF TusDecode, Call, TusRemoveInfo
<1> QED BY Zenon, SMT, <1>1, <1>6, <1>7, <1>8, <1>9 DEF TusInv

\* The directory goes last; then there is a response.
LEMMA CleanupInv ==
  ASSUME TusInv, NEW r \in Requests, Cleanup(r)
  PROVE  TusInv'
<1>1. UNCHANGED <<complete, orig, tusInfo, lock, tusCalls, tusAnswered>> /\ pc[r] = "cleanup"
  BY Zenon, SMT DEF Cleanup
<1>2. /\ pc' \in [Requests -> Places] /\ pc'[r] = "unlock"
      /\ \A q \in Requests : q # r => pc'[q] = pc[q]
      /\ reply' \in [Requests -> Replies]
      /\ \A q \in Requests : q # r => reply'[q] = reply[q]
  BY Zenon, SMT DEF Cleanup, TusGoTo, TusInv, TusTypeOK, Places, Replies
<1>3. /\ r \in Past /\ Owns(r)
      /\ \A q \in Requests : q # r => q \notin Past
  BY Zenon, SMT, <1>1 DEF TusInv, Past
<1>4. moved' = {}
  BY Zenon, SMT, <1>3 DEF Cleanup, Owns
<1>5. TusTypeOK'
  BY Zenon, SMT, <1>1, <1>2, <1>4 DEF TusInv, TusTypeOK
<1>6. Past' \subseteq {r}
  BY Zenon, SMT, <1>1, <1>2, <1>3 DEF Past
<1>7. ASSUME NEW q \in Requests PROVE Owns(q)'
  <2>1. Owns(q)
    BY Zenon, SMT DEF TusInv
  <2>2. CASE q = r
    BY Zenon, SMT, <1>1, <1>2, <1>3, <1>4, <2>1, <2>2 DEF Owns
  <2>3. CASE q # r
    BY Zenon, SMT, <1>1, <1>2, <1>3, <1>4, <1>6, <2>1, <2>3 DEF Owns, Past
  <2> QED BY Zenon, SMT, <2>2, <2>3
<1>8. KeptUntilAnswered'
  BY Zenon, SMT, <1>1, <1>3 DEF Owns, KeptUntilAnswered
<1> QED BY Zenon, SMT, <1>1, <1>4, <1>5, <1>6, <1>7, <1>8 DEF TusInv

-----------------------------------------------------------------------------

\* Every step of clients, requests and Redis preserves the invariant.
LEMMA TusStep == TusInv /\ [TusNext]_tusVars => TusInv'
<1> SUFFICES ASSUME TusInv, [TusNext]_tusVars PROVE TusInv'
  OBVIOUS
<1>1. ASSUME NEW r \in Requests, Notify(r) PROVE TusInv'
  BY Zenon, SMT, <1>1, QuietInv, RenameInv, ForwardInv, CleanupInv DEF Notify
<1>2. CASE UNCHANGED tusVars
  BY Zenon, SMT, <1>2 DEF tusVars, TusInv, TusTypeOK, Past, Owns, KeptUntilAnswered
<1> QED BY Zenon, SMT, <1>1, <1>2, OutsideInv DEF TusNext

\* TusInv holds in every reachable state.
LEMMA TusInvariance == TusSpec => []TusInv
  BY TusInitInv, TusStep, PTL DEF TusSpec

\* However many requests notify, and though the lock of the upload may expire
\* under any of them, the SDK is called at most once, no failing request destroys
\* what was uploaded, and after a response nothing is left of it (Notify, DelFile).
THEOREM TusSafety == TusSpec => []TusSafe
<1>1. TusInv => OneCallPerUpload
  <2> SUFFICES ASSUME TusInv PROVE Cardinality(tusCalls) <= 1
    BY Zenon, SMT DEF OneCallPerUpload
  <2>1. \A r, s \in tusCalls : r = s
    BY Zenon, SMT DEF TusInv, TusTypeOK, Past
  <2>2. CASE tusCalls = {}
    BY <2>2, FS_EmptySet
  <2>3. CASE tusCalls # {}
    <3>1. PICK r \in tusCalls : tusCalls = {r}
      BY Zenon, SMT, <2>1, <2>3
    <3>2. Cardinality({r}) = 1
      BY Zenon, SMT, FS_Singleton, Zenon
    <3> QED BY <3>1, <3>2
  <2> QED BY Zenon, SMT, <2>2, <2>3
<1>2. TusInv => ResponseLeavesNothing
  BY Zenon, SMT DEF TusInv, Owns, Past, ResponseLeavesNothing
<1>3. TusInv => TusSafe
  BY Zenon, SMT, <1>1, <1>2 DEF TusInv, TusSafe
<1> QED BY <1>3, TusInvariance, PTL

-----------------------------------------------------------------------------
(* The queue: its workers over starts and stops.                           *)

\* A server exists in a process that has got to Run, and nobody closes the clients
\* of a process where Shutdown is never called.
Hosted ==
    /\ server \in {"active", "closing", "closed"} => proc \in {"run", "stopping"}
    /\ shut = "never" /\ proc # "down" => clients

\* A task that may run again has an attempt left, and one that has answered is
\* marked with it.
Tried ==
    \A t \in Tasks :
        /\ job[t] \in InHand \cup {"queued"} => fails[t] <= MaxRetry
        /\ job[t] \in {"sent", "done"} => answers[t] > 0
        /\ shut = "never" => fails[t] <= own[t]

\* The types of the process and of its server.
QueueTypes ==
    /\ proc \in {"down", "built", "made", "run", "stopping"}
    /\ server \in {"nil", "new", "active", "closing", "closed"}
    /\ shut \in {"never", "idle", "clients", "server", "wait", "done"}
    /\ ticker \in {"off", "on"} /\ clients \in BOOLEAN /\ stopped \in BOOLEAN
    /\ faults \in 0..MaxFaults

\* The types of the tasks.
JobTypes ==
    /\ job \in [Tasks -> {"queued", "done", "archived"} \cup InHand]
    /\ fails \in [Tasks -> 0..MaxRetry + 1] /\ own \in [Tasks -> Nat]
    /\ answers \in [Tasks -> Nat]

\* Workers hold no more tasks than the server has workers, and none without one.
InHandInv ==
    /\ IsFiniteSet(Busy) /\ Cardinality(Busy) <= Concurrency
    /\ Busy # {} => server \in {"active", "closing"}

\* The inductive invariant.
QueueInv == QueueTypes /\ JobTypes /\ InHandInv /\ Hosted /\ Tried

\* The invariant says all that is promised.
LEMMA QueueInvSafe == QueueInv => QueueSafe
<1> SUFFICES ASSUME QueueInv PROVE QueueSafe
  OBVIOUS
<1>1. QueueTypeOK
  BY Zenon, SMT DEF QueueInv, QueueTypes, JobTypes, InHandInv, QueueTypeOK
<1>2. DoneIsAnswered
  BY Zenon, SMT DEF QueueInv, Tried, DoneIsAnswered
<1>3. StopIsNoFailure
  BY Zenon, SMT DEF QueueInv, Tried, StopIsNoFailure
<1> QED
  BY Zenon, SMT, <1>1, <1>2, <1>3 DEF QueueSafe

\* A queue that is not yet built has the invariant.
LEMMA QueueInitInv == QueueInit => QueueInv
<1> SUFFICES ASSUME QueueInit PROVE QueueInv
  OBVIOUS
<1> USE QueueLifeAssumption
<1>1. QueueTypes
  <2>1. 0 \in 0..MaxFaults
    OBVIOUS
  <2> QED
    BY Zenon, SMT, <2>1 DEF QueueInit, QueueTypes
<1>2. JobTypes
  BY DEF QueueInit, JobTypes
<1>3. Busy = {}
  BY Zenon, SMT DEF QueueInit, Busy, InHand
<1>4. InHandInv
  BY <1>3, FS_EmptySet DEF InHandInv
<1>5. Hosted
  BY Zenon, SMT DEF QueueInit, Hosted
<1>6. Tried
  BY DEF QueueInit, Tried, InHand
<1> QED
  BY Zenon, SMT, <1>1, <1>2, <1>4, <1>5, <1>6 DEF QueueInv

\* Less in hand than before is within the bound.
LEMMA FewerBusy ==
    ASSUME IsFiniteSet(Busy), Cardinality(Busy) <= Concurrency, Busy' \subseteq Busy
    PROVE  IsFiniteSet(Busy') /\ Cardinality(Busy') <= Concurrency
<1>1. IsFiniteSet(Busy') /\ Cardinality(Busy') <= Cardinality(Busy)
  BY Zenon, SMT, FS_Subset
<1>2. Cardinality(Busy) \in Nat /\ Cardinality(Busy') \in Nat
  BY Zenon, SMT, <1>1, FS_CardinalityType
<1> QED
  BY <1>1, <1>2, QueueLifeAssumption

\* Failed: a task that fails has an attempt left or is archived, and is in hand no
\* more.
LEMMA FailedFacts ==
    ASSUME QueueInv, NEW T \in SUBSET Busy, Failed(T)
    PROVE  /\ job' \in [Tasks -> {"queued", "done", "archived"} \cup InHand]
           /\ fails' \in [Tasks -> 0..MaxRetry + 1]
           /\ Busy' = Busy \ T
           /\ \A t \in Tasks :
                /\ job'[t] \in InHand \cup {"queued"} => fails'[t] <= MaxRetry
                /\ job'[t] \in {"sent", "done"} => job'[t] = job[t]
                /\ fails'[t] = IF t \in T THEN fails[t] + 1 ELSE fails[t]
<1> USE QueueLifeAssumption
<1>1. \A t \in T : t \in Tasks /\ job[t] \in InHand /\ fails[t] <= MaxRetry
  BY Zenon, SMT DEF Busy, QueueInv, Tried
<1>2. job' \in [Tasks -> {"queued", "done", "archived"} \cup InHand]
  BY Zenon, SMT DEF Failed, QueueInv, JobTypes
<1>3. fails' \in [Tasks -> 0..MaxRetry + 1]
  BY <1>1 DEF Failed, QueueInv, JobTypes
<1>4. Busy' = Busy \ T
  BY Zenon, SMT DEF Failed, Busy, InHand
<1>5. ASSUME NEW t \in Tasks
      PROVE  /\ job'[t] \in InHand \cup {"queued"} => fails'[t] <= MaxRetry
             /\ job'[t] \in {"sent", "done"} => job'[t] = job[t]
             /\ fails'[t] = IF t \in T THEN fails[t] + 1 ELSE fails[t]
  <2>1. fails[t] \in 0..MaxRetry + 1
    BY Zenon, SMT DEF QueueInv, JobTypes
  <2>2. CASE t \in T
    BY <1>1, <2>1, <2>2 DEF Failed, InHand
  <2>3. CASE t \notin T
    BY Zenon, SMT, <2>3 DEF Failed, QueueInv, Tried
  <2> QED
    BY Zenon, SMT, <2>2, <2>3
<1> QED
  BY Zenon, SMT, <1>2, <1>3, <1>4, <1>5

\* Fault: the count stays within its bound.
LEMMA FaultFacts ==
    ASSUME QueueTypes, Fault
    PROVE  faults' \in 0..MaxFaults
BY QueueLifeAssumption DEF QueueTypes, Fault

\* Gone: what is left of a process.
LEMMA GoneFacts ==
    ASSUME QueueTypes, Gone, faults' \in 0..MaxFaults
    PROVE  QueueTypes' /\ Hosted' /\ (shut' = "never" => shut = "never")
<1>1. shut' \in {"never", "idle", "clients", "server", "wait", "done"} /\ (shut' = "never" => shut = "never")
  BY Zenon, SMT DEF Gone
<1>2. QueueTypes'
  BY Zenon, SMT, <1>1 DEF Gone, QueueTypes
<1>3. Hosted'
  BY Zenon, SMT DEF Gone, Hosted
<1> QED
  BY Zenon, SMT, <1>1, <1>2, <1>3

\* The steps of the process that leave the tasks alone.
LEMMA IdleTasks ==
    ASSUME QueueInv, QueueTypes', Hosted', UNCHANGED <<job, fails, own, answers>>,
           Busy # {} => server' \in {"active", "closing"},
           shut' = "never" => shut = "never"
    PROVE  QueueInv'
<1>1. Busy' = Busy
  BY Zenon, SMT DEF Busy
<1>2. InHandInv'
  BY Zenon, SMT, <1>1 DEF QueueInv, InHandInv
<1>3. JobTypes'
  BY Zenon, SMT DEF QueueInv, JobTypes
<1>4. Tried'
  BY Zenon, SMT DEF QueueInv, Tried
<1> QED
  BY Zenon, SMT, <1>2, <1>3, <1>4 DEF QueueInv

\* A process comes up, is told to stop, or its Shutdown goes on.
LEMMA ProcessStepInv ==
    ASSUME QueueInv,
           \/ Build \/ BuildFails \/ ServeUntilShutdown \/ Run \/ QueueSignal \/ Drained
           \/ ShutStop \/ ShutClients \/ ShutServer \/ ShutReturns \/ TickerEnds
    PROVE  QueueInv'
<1> USE QueueLifeAssumption
<1>0. /\ QueueTypes /\ Hosted /\ (Busy # {} => server \in {"active", "closing"})
      /\ UNCHANGED <<job, fails, own, answers>>
  BY Zenon, SMT DEF QueueInv, InHandInv, Build, BuildFails, ServeUntilShutdown, Run, QueueSignal, Drained,
     ShutStop, ShutClients, ShutServer, ShutReturns, TickerEnds
<1>1. /\ QueueTypes' /\ Hosted' /\ (Busy # {} => server' \in {"active", "closing"})
      /\ shut' = "never" => shut = "never"
  <2>1. CASE Build
    BY Zenon, SMT, <1>0, <2>1 DEF Build, QueueTypes, Hosted
  <2>2. CASE BuildFails
    BY <1>0, <2>2 DEF BuildFails, Fault, QueueTypes, Hosted
  <2>3. CASE ServeUntilShutdown
    BY Zenon, SMT, <1>0, <2>3 DEF ServeUntilShutdown, QueueTypes, Hosted
  <2>4. CASE Run
    BY Zenon, SMT, <1>0, <2>4 DEF Run, QueueTypes, Hosted
  <2>5. CASE QueueSignal
    <3>1. faults' \in 0..MaxFaults
      BY Zenon, SMT, <1>0, <2>5, FaultFacts DEF QueueSignal
    <3>2. CASE proc = "run"
      BY <1>0, <2>5, <3>1, <3>2 DEF QueueSignal, Gone, QueueTypes, Hosted
    <3>3. CASE proc # "run"
      <4>1. Gone /\ proc \in {"built", "made"}
        BY Zenon, SMT, <2>5, <3>3 DEF QueueSignal
      <4>2. Busy = {}
        BY Zenon, SMT, <1>0, <4>1 DEF Hosted
      <4> QED
        BY Zenon, SMT, <1>0, <3>1, <4>1, <4>2, GoneFacts
    <3> QED
      BY Zenon, SMT, <3>2, <3>3
  <2>6. CASE Drained
    BY Zenon, SMT, <1>0, <2>6 DEF Drained, QueueTypes, Hosted
  <2>7. CASE ShutStop
    BY Zenon, SMT, <1>0, <2>7 DEF ShutStop, QueueTypes, Hosted
  <2>8. CASE ShutClients
    BY Zenon, SMT, <1>0, <2>8 DEF ShutClients, QueueTypes, Hosted
  <2>9. CASE ShutServer
    BY Zenon, SMT, <1>0, <2>9 DEF ShutServer, QueueTypes, Hosted
  <2>10. CASE ShutReturns
    BY Zenon, SMT, <1>0, <2>10 DEF ShutReturns, QueueTypes, Hosted
  <2>11. CASE TickerEnds
    BY Zenon, SMT, <1>0, <2>11 DEF TickerEnds, QueueTypes, Hosted
  <2> QED
    BY Zenon, SMT, <2>1, <2>2, <2>3, <2>4, <2>5, <2>6, <2>7, <2>8, <2>9, <2>10, <2>11
<1> QED
  BY Zenon, SMT, <1>0, <1>1, IdleTasks

\* A process that ends has handed back its tasks, or fails what it has in hand.
LEMMA QueueExitInv ==
    ASSUME QueueInv, QueueExit
    PROVE  QueueInv'
<1> USE QueueLifeAssumption
<1>1. QueueTypes' /\ Hosted' /\ (shut' = "never" => shut = "never")
  BY Zenon, SMT DEF QueueInv, QueueTypes, Hosted, QueueExit, Gone
<1>2. CASE server = "closed" /\ UNCHANGED <<job, fails>>
  <2>1. Busy = {} /\ UNCHANGED <<job, fails, own, answers>>
    BY Zenon, SMT, <1>2 DEF QueueInv, InHandInv, QueueExit
  <2> QED
    BY Zenon, SMT, <1>1, <2>1, IdleTasks
<1>3. CASE server = "closing" /\ shut = "wait" /\ Failed(Busy)
  <2>1. Failed(Busy) /\ shut' # "never" /\ UNCHANGED <<own, answers>>
    BY Zenon, SMT, <1>3 DEF QueueExit, Gone
  <2>2. Busy' = {} /\ InHandInv'
    BY <2>1, FailedFacts, FS_EmptySet DEF InHandInv
  <2>3. JobTypes'
    BY Zenon, SMT, <2>1, FailedFacts DEF JobTypes, QueueInv
  <2>4. Tried'
    BY Zenon, SMT, <2>1, FailedFacts DEF Tried, QueueInv
  <2> QED
    BY Zenon, SMT, <1>1, <2>2, <2>3, <2>4 DEF QueueInv
<1> QED
  BY Zenon, SMT, <1>2, <1>3 DEF QueueExit

\* A crash costs every task in hand an attempt of its own.
LEMMA QueueCrashInv ==
    ASSUME QueueInv, QueueCrash
    PROVE  QueueInv'
<1> USE QueueLifeAssumption
<1>1. QueueTypes' /\ Hosted' /\ (shut' = "never" => shut = "never")
  <2>1. faults' \in 0..MaxFaults /\ Gone
    BY Zenon, SMT, FaultFacts DEF QueueCrash, QueueInv
  <2> QED
    BY Zenon, SMT, <2>1, GoneFacts DEF QueueInv
<1>2. Failed(Busy) /\ UNCHANGED answers
  BY Zenon, SMT DEF QueueCrash
<1>3. Busy' = {} /\ InHandInv'
  BY <1>2, FailedFacts, FS_EmptySet DEF InHandInv
<1>4. own' \in [Tasks -> Nat] /\ \A t \in Tasks : own'[t] = IF t \in Busy THEN own[t] + 1 ELSE own[t]
  BY DEF QueueInv, JobTypes, QueueCrash
<1>5. JobTypes'
  BY Zenon, SMT, <1>2, <1>4, FailedFacts DEF JobTypes, QueueInv
<1>6. Tried'
  <2> SUFFICES ASSUME NEW t \in Tasks
               PROVE  /\ job'[t] \in InHand \cup {"queued"} => fails'[t] <= MaxRetry
                      /\ job'[t] \in {"sent", "done"} => answers'[t] > 0
                      /\ shut' = "never" => fails'[t] <= own'[t]
    BY Zenon, SMT DEF Tried, InHand
  <2>1. fails[t] \in Nat /\ own[t] \in Nat
    BY DEF QueueInv, JobTypes
  <2>2. /\ job'[t] \in InHand \cup {"queued"} => fails'[t] <= MaxRetry
        /\ job'[t] \in {"sent", "done"} => answers'[t] > 0
    BY Zenon, SMT, <1>2, FailedFacts DEF QueueInv, Tried
  <2>3. shut' = "never" => fails[t] <= own[t]
    BY Zenon, SMT, <1>1 DEF QueueInv, Tried
  <2>4. /\ fails'[t] = IF t \in Busy THEN fails[t] + 1 ELSE fails[t]
        /\ own'[t] = IF t \in Busy THEN own[t] + 1 ELSE own[t]
    BY Zenon, SMT, <1>2, <1>4, FailedFacts
  <2> QED
    BY <2>1, <2>2, <2>3, <2>4
<1> QED
  BY Zenon, SMT, <1>1, <1>3, <1>5, <1>6 DEF QueueInv

\* A worker takes a task when there is room.
LEMMA TakeInv ==
    ASSUME QueueInv, NEW t \in Tasks, Take(t)
    PROVE  QueueInv'
<1> USE QueueLifeAssumption
<1>1. QueueTypes' /\ Hosted'
  BY Zenon, SMT DEF QueueInv, QueueTypes, Hosted, Take
<1>2. Busy' = Busy \cup {t} /\ t \notin Busy
  BY Zenon, SMT DEF Take, Busy, InHand, QueueInv, JobTypes
<1>3. IsFiniteSet(Busy') /\ Cardinality(Busy') = Cardinality(Busy) + 1 /\ Cardinality(Busy) \in Nat
  BY Zenon, SMT, <1>2, FS_AddElement, FS_CardinalityType DEF QueueInv, InHandInv
<1>4. InHandInv'
  BY <1>3 DEF InHandInv, Take
<1>5. JobTypes'
  BY Zenon, SMT DEF QueueInv, JobTypes, Take, InHand
<1>6. Tried'
  BY Zenon, SMT DEF QueueInv, JobTypes, Tried, Take, InHand
<1> QED
  BY Zenon, SMT, <1>1, <1>4, <1>5, <1>6 DEF QueueInv

\* The steps of a worker with its task; an attempt that fails is the handler's, or
\* the clients are closed.
LEMMA WorkerStepInv ==
    ASSUME QueueInv, NEW t \in Tasks, Work(t) \/ HandlerFails(t) \/ QueueResponse(t) \/ Done(t)
    PROVE  QueueInv'
<1> USE QueueLifeAssumption
<1>1. t \in Busy /\ server \in {"active", "closing"} /\ UNCHANGED <<proc, server, shut, clients>>
  BY Zenon, SMT DEF QueueInv, InHandInv, Busy, InHand, Work, HandlerFails, QueueResponse, Done
<1>2. QueueTypes' /\ Hosted' /\ (shut = "never" => clients)
  BY <1>1 DEF QueueInv, QueueTypes, Hosted, Work, HandlerFails, QueueResponse, Done, Fault
<1>3. CASE Failed({t})
  <2>1. Failed({t}) /\ {t} \in SUBSET Busy
    BY Zenon, SMT, <1>1, <1>3
  <2>2. Busy' = Busy \ {t}
    BY Zenon, SMT, <2>1, FailedFacts
  <2>3. InHandInv'
    BY Zenon, SMT, <1>1, <2>2, FewerBusy DEF QueueInv, InHandInv
  <2>4. answers' = answers
    <3>1. job'[t] \notin {"sending", "sent", "done"}
      BY Zenon, SMT, <1>3 DEF Failed
    <3> QED
      BY Zenon, SMT, <3>1 DEF Work, HandlerFails, QueueResponse, Done, QueueInv, JobTypes
  <2>5. /\ own' \in [Tasks -> Nat]
        /\ \A q \in Tasks : own'[q] \in Nat /\ own[q] \in Nat /\ own'[q] >= own[q]
        /\ shut = "never" => own'[t] = own[t] + 1
    <3>1. CASE HandlerFails(t)
      BY <3>1 DEF HandlerFails, QueueInv, JobTypes
    <3>2. CASE ~HandlerFails(t)
      <4>1. QueueResponse(t) /\ own' = own
        BY Zenon, SMT, <1>3, <3>2 DEF Work, QueueResponse, Done, Failed, QueueInv, JobTypes
      <4>2. shut # "never"
        BY Zenon, SMT, <1>2, <1>3, <4>1 DEF QueueResponse, Failed, QueueInv, JobTypes
      <4> QED
        BY <4>1, <4>2 DEF QueueInv, JobTypes
    <3> QED
      BY Zenon, SMT, <3>1, <3>2
  <2>6. JobTypes'
    BY Zenon, SMT, <2>1, <2>4, <2>5, FailedFacts DEF JobTypes, QueueInv
  <2>7. Tried'
    <3> SUFFICES ASSUME NEW q \in Tasks
                 PROVE  /\ job'[q] \in InHand \cup {"queued"} => fails'[q] <= MaxRetry
                        /\ job'[q] \in {"sent", "done"} => answers'[q] > 0
                        /\ shut' = "never" => fails'[q] <= own'[q]
      BY Zenon, SMT DEF Tried, InHand
    <3>1. /\ job'[q] \in InHand \cup {"queued"} => fails'[q] <= MaxRetry
          /\ job'[q] \in {"sent", "done"} => answers'[q] > 0
      BY Zenon, SMT, <2>1, <2>4, FailedFacts DEF QueueInv, Tried
    <3>2. shut' = "never" => fails[q] <= own[q]
      BY Zenon, SMT, <1>1 DEF QueueInv, Tried
    <3>3. fails'[q] = (IF q = t THEN fails[q] + 1 ELSE fails[q]) /\ fails[q] \in Nat
      BY <2>1, FailedFacts DEF QueueInv, JobTypes
    <3>4. shut' = "never" => (IF q = t THEN own'[q] = own[q] + 1 ELSE own'[q] >= own[q])
      BY Zenon, SMT, <1>1, <2>5
    <3>5. ASSUME shut' = "never" PROVE fails'[q] <= own'[q]
      <4>1. PICK f, o, g, p : f = fails[q] /\ o = own[q] /\ g = fails'[q] /\ p = own'[q]
        BY Zenon
      <4>2. f \in Nat /\ o \in Nat /\ p \in Nat /\ f <= o
        BY Zenon, <2>5, <3>2, <3>3, <3>5, <4>1
      <4>3. (g = f + 1 /\ p = o + 1) \/ (g = f /\ p >= o)
        BY Zenon, <3>3, <3>4, <3>5, <4>1
      <4>4. g <= p
        BY <4>2, <4>3
      <4> QED
        BY Zenon, <4>1, <4>4
    <3> QED
      BY Zenon, SMT, <3>1, <3>5
  <2> QED
    BY Zenon, SMT, <1>2, <2>3, <2>6, <2>7 DEF QueueInv
<1>4. CASE ~Failed({t})
  <2>1. /\ UNCHANGED <<fails, own>> /\ answers' \in [Tasks -> Nat]
        /\ \E s \in {"sending", "sent", "done"} :
              /\ job' = [job EXCEPT ![t] = s]
              /\ s \in {"sent", "done"} => answers'[t] > 0
        /\ \A q \in Tasks \ {t} : answers'[q] = answers[q]
    <3>1. CASE Work(t)
      BY Zenon, SMT, <3>1 DEF Work, QueueInv, JobTypes
    <3>2. CASE QueueResponse(t)
      BY <1>4, <3>2 DEF QueueResponse, QueueInv, JobTypes
    <3>3. CASE Done(t)
      BY Zenon, SMT, <3>3 DEF Done, QueueInv, JobTypes, Tried
    <3> QED
      BY Zenon, SMT, <1>4, <3>1, <3>2, <3>3 DEF HandlerFails
  <2>2. PICK s \in {"sending", "sent", "done"} :
              job' = [job EXCEPT ![t] = s] /\ (s \in {"sent", "done"} => answers'[t] > 0)
    BY Zenon, SMT, <2>1
  <2>3. JobTypes'
    BY Zenon, SMT, <2>1, <2>2 DEF QueueInv, JobTypes, InHand
  <2>4. Busy' \subseteq Busy
    BY Zenon, SMT, <1>1, <2>2 DEF Busy, InHand, QueueInv, JobTypes
  <2>5. InHandInv'
    BY Zenon, SMT, <1>1, <2>4, FewerBusy DEF QueueInv, InHandInv
  <2>6. Tried'
    <3> SUFFICES ASSUME NEW q \in Tasks
                 PROVE  /\ job'[q] \in InHand \cup {"queued"} => fails'[q] <= MaxRetry
                        /\ job'[q] \in {"sent", "done"} => answers'[q] > 0
                        /\ shut' = "never" => fails'[q] <= own'[q]
      BY Zenon, SMT DEF Tried, InHand
    <3>1. CASE q = t
      BY Zenon, SMT, <1>1, <2>1, <2>2, <3>1 DEF QueueInv, JobTypes, Tried, Busy, InHand
    <3>2. CASE q # t
      BY Zenon, SMT, <1>1, <2>1, <2>2, <3>2 DEF QueueInv, JobTypes, Tried, InHand
    <3> QED
      BY Zenon, SMT, <3>1, <3>2
  <2> QED
    BY Zenon, SMT, <1>2, <2>3, <2>5, <2>6 DEF QueueInv
<1> QED
  BY Zenon, SMT, <1>3, <1>4

\* A server that can not wait hands its tasks back with their attempts.
LEMMA AbortedInv ==
    ASSUME QueueInv, Aborted
    PROVE  QueueInv'
<1> USE QueueLifeAssumption
<1>1. QueueTypes' /\ Hosted'
  BY Zenon, SMT DEF QueueInv, QueueTypes, Hosted, Aborted
<1>2. Busy' = {}
  BY Zenon, SMT DEF Aborted, Busy, InHand
<1>3. InHandInv'
  BY <1>2, FS_EmptySet DEF InHandInv
<1>4. JobTypes'
  BY Zenon, SMT DEF QueueInv, JobTypes, Aborted
<1>5. Tried'
  BY Zenon, SMT DEF QueueInv, Tried, Aborted, Busy
<1> QED
  BY Zenon, SMT, <1>1, <1>3, <1>4, <1>5 DEF QueueInv

\* Every step keeps the invariant.
LEMMA QueueStepInv == QueueInv /\ [QueueNext]_queueVars => QueueInv'
<1> SUFFICES ASSUME QueueInv, [QueueNext]_queueVars PROVE QueueInv'
  OBVIOUS
<1>1. CASE UNCHANGED queueVars
  <2>1. QueueTypes' /\ JobTypes' /\ Hosted' /\ Tried'
    BY ZenonT(30), SMTT(60), <1>1 DEF queueVars, QueueInv, QueueTypes, JobTypes, Hosted, Tried
  <2>2. InHandInv'
    BY Zenon, SMT, <1>1 DEF queueVars, QueueInv, InHandInv, Busy
  <2> QED
    BY Zenon, SMT, <2>1, <2>2 DEF QueueInv
<1>2. CASE \/ Build \/ BuildFails \/ ServeUntilShutdown \/ Run \/ QueueSignal \/ Drained
           \/ ShutStop \/ ShutClients \/ ShutServer \/ ShutReturns \/ TickerEnds
  BY Zenon, SMT, <1>2, ProcessStepInv
<1>3. CASE QueueExit
  BY Zenon, SMT, <1>3, QueueExitInv
<1>4. CASE QueueCrash
  BY Zenon, SMT, <1>4, QueueCrashInv
<1>5. CASE \E t \in Tasks : Take(t)
  BY Zenon, SMT, <1>5, TakeInv
<1>6. CASE \E t \in Tasks : Work(t) \/ HandlerFails(t) \/ QueueResponse(t) \/ Done(t)
  BY Zenon, SMT, <1>6, WorkerStepInv
<1>7. CASE Aborted
  BY Zenon, SMT, <1>7, AbortedInv
<1> QED
  BY Zenon, SMT, <1>1, <1>2, <1>3, <1>4, <1>5, <1>6, <1>7 DEF QueueNext

\* A task is done only once it was answered, and where nobody calls Shutdown a stop
\* costs no task an attempt (ServeUntilShutdown, Shutdown and the workers of asynq).
THEOREM QueueSafety == QueueSpec => []QueueSafe
  BY QueueInitInv, QueueStepInv, QueueInvSafe, PTL DEF QueueSpec
=============================================================================
