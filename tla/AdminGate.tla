------------------------------- MODULE AdminGate -------------------------------
(***************************************************************************)
(* Who may try the admin API, and how often: the middleware of             *)
(* internal/admin, the limiter per address of pkg/iprate and the guess of  *)
(* the client's address of internal/ip.  A request comes from a client,    *)
(* with or without a header of its own, over none or more proxies of ours; *)
(* each proxy appends the address it was called from.  Addresses are       *)
(* numbers, private ranges pairs of them, as the code compares them byte   *)
(* by byte.  One bad token costs a limiter Refill of its credit, which     *)
(* grows by one every tick.                                                *)
(***************************************************************************)
EXTENDS Integers, Sequences, FiniteSets, FiniteSetsExt

CONSTANTS
    Attempts,       \* bound: requests
    Clients,        \* public addresses
    Proxies,        \* addresses of our proxies
    PrivateRanges,  \* pairs <<start, end>>
    Unparsed,       \* what ParseIP can not parse or is no global unicast address
    Refill,         \* ticks for one token: 1 / rate
    Burst,          \* tokens a limiter holds at most
    Expire,         \* ticks after which cleanup drops an address (an hour)
    MaxStall,       \* bound: ticks between GetLimiter and Allow of a request
    GateTime        \* bound: ticks

NoAddr == -1

\* An address is forgotten only when its limiter is full again, also if the last
\* request took its time between GetLimiter and Allow: with the rate and the burst of
\* internal/admin 20 seconds and that time are far from the hour of cleanup.
ASSUME AdminGateAssumption ==
    /\ IsFiniteSet(Attempts) /\ Attempts \subseteq Nat \ {0}
    /\ Refill \in Nat \ {0} /\ Burst \in Nat \ {0}
    /\ Expire \in Nat /\ MaxStall \in Nat /\ Refill * Burst + MaxStall <= Expire + 1
    /\ GateTime \in Nat

VARIABLES
    gateNow,    \* the clock
    gateReq,    \* requests: where they are, who sent them, what they carry
    ips,        \* Limiter.ips: the limiter of an address
    lastSeen,   \* lastSeen of an address
    credit,     \* what is left in a limiter, as of updated
    updated,    \* when its credit was counted
    gateAnswer  \* answers: 200, 401 without and with a wrong token, 429

gateVars == <<gateNow, gateReq, ips, lastSeen, credit, updated, gateAnswer>>

\* A limiter is named after the request that made it.
Limiters == Attempts
NoLimiter == 0
Known == Clients \cup Proxies

\* Types of the state.  Two addresses never share a limiter.
GateTypeOK ==
    /\ gateNow \in 0..GateTime
    /\ \A r \in Attempts :
         /\ gateReq[r].pc \in {"idle", "got", "answered"}
         /\ gateReq[r].client \in Clients \cup {NoAddr} /\ gateReq[r].lim \in Limiters \cup {NoLimiter}
    /\ ips \in [Known -> Limiters \cup {NoLimiter}] /\ lastSeen \in [Known -> 0..GateTime]
    /\ credit \in [Limiters -> 0..Refill * Burst] /\ updated \in [Limiters -> -1..GateTime]
    /\ gateAnswer \in [Attempts -> {"none", "served", "refused", "wrong", "limited"}]
    /\ \A a, b \in Known : a # b /\ ips[a] # NoLimiter => ips[a] # ips[b]

GateInit ==
    /\ gateNow = 0
    /\ gateReq = [r \in Attempts |-> [pc |-> "idle", client |-> NoAddr, lim |-> NoLimiter, at |-> 0]]
    /\ ips = [a \in Known |-> NoLimiter] /\ lastSeen = [a \in Known |-> 0]
    /\ credit = [l \in Limiters |-> 0] /\ updated = [l \in Limiters |-> -1]
    /\ gateAnswer = [r \in Attempts |-> "none"]

-----------------------------------------------------------------------------
(* internal/ip *)

\* ipRange.Contains: the end is not part of the range.
RangeContains(range, a) == a >= range[1] /\ a < range[2]

IsPrivateSubnet(a) == \E range \in PrivateRanges : RangeContains(range, a)

\* Clients are outside of the private ranges, our proxies inside.
ASSUME AddressAssumption ==
    /\ \A c \in Clients : c # NoAddr /\ c # Unparsed /\ ~IsPrivateSubnet(c)
    /\ \A p \in Proxies : IsPrivateSubnet(p)

\* The last public address of a header, NoAddr if there is none.
LastPublic(addrs) ==
    LET good == {i \in DOMAIN addrs : addrs[i] # Unparsed /\ ~IsPrivateSubnet(addrs[i])}
    IN IF good = {} THEN NoAddr ELSE addrs[Max(good)]

\* ForRequest: Cloudflare's header, then X-Forwarded-For, then X-Real-Ip, then
\* the address of the connection.
ForRequest(h) ==
    IF h.cf # NoAddr THEN h.cf
    ELSE IF LastPublic(h.forwarded) # NoAddr THEN LastPublic(h.forwarded)
    ELSE IF LastPublic(h.real) # NoAddr THEN LastPublic(h.real)
    ELSE h.remote

\* What arrives: the client's own header, if any, and what one or two of our proxies
\* add to it: each the address it is called from, the first of them the client's.
\* Cloudflare and a proxy that sets X-Real-Ip are the other ways in.  Without a proxy
\* a client's header stands for itself, and there is nothing to find out.
OwnHeaders == {<<>>} \cup {<<a>> : a \in Clients \cup {Unparsed}}
Hops == {<<>>} \cup {<<p>> : p \in Proxies}
Forwarded(c) == UNION {{own \o <<c>> \o hop : hop \in Hops} : own \in OwnHeaders}

Arrivals(c) ==
    [cf : {NoAddr}, forwarded : Forwarded(c), real : {<<>>}, remote : Proxies]
    \cup [cf : {c}, forwarded : OwnHeaders, real : {<<>>}, remote : Proxies]
    \cup [cf : {NoAddr}, forwarded : {<<>>}, real : {<<c>>}, remote : Proxies]
    \cup [cf : {NoAddr}, forwarded : {<<>>}, real : {<<>>}, remote : {c}]

-----------------------------------------------------------------------------
(* pkg/iprate *)

\* GetLimiter, called by request r: the entry of an address, made full when there is
\* none.
GetLimiter(a, r) ==
    /\ lastSeen' = [lastSeen EXCEPT ![a] = gateNow]
    /\ IF ips[a] # NoLimiter THEN UNCHANGED <<ips, credit, updated>>
       ELSE /\ ips' = [ips EXCEPT ![a] = r]
            /\ credit' = [credit EXCEPT ![r] = Refill * Burst]
            /\ updated' = [updated EXCEPT ![r] = gateNow]

\* rate.Limiter: the credit at this moment.
CreditNow(l) == Min({Refill * Burst, credit[l] + gateNow - updated[l]})

GateDrop(A) ==
    /\ ips' = [a \in Known |-> IF a \in A THEN NoLimiter ELSE ips[a]]
    /\ lastSeen' = [a \in Known |-> IF a \in A THEN 0 ELSE lastSeen[a]]

\* Mutant of cleanup: an address is dropped before its limiter is full again.
cleanupEarly ==
    /\ \E a \in Known : ips[a] # NoLimiter /\ lastSeen[a] < gateNow
    /\ GateDrop({a \in Known : lastSeen[a] < gateNow})
    /\ UNCHANGED <<gateNow, gateReq, credit, updated, gateAnswer>>

\* cleanup, at any moment: every address not seen for an hour is dropped.
cleanup ==
    /\ \E a \in Known : ips[a] # NoLimiter /\ lastSeen[a] < gateNow - Expire
    /\ GateDrop({a \in Known : lastSeen[a] < gateNow - Expire})
    /\ UNCHANGED <<gateNow, gateReq, credit, updated, gateAnswer>>

-----------------------------------------------------------------------------
(* SimpleAdminAuthMiddleware *)

GateAnswer(r, c, status) ==
    /\ gateReq' = [gateReq EXCEPT ![r] = [pc |-> "answered", client |-> c, lim |-> NoLimiter, at |-> gateNow]]
    /\ gateAnswer' = [gateAnswer EXCEPT ![r] = status]

\* Requests come in the order of their numbers.
Next1(r) == gateReq[r].pc = "idle" /\ \A q \in Attempts : q < r => gateReq[q].pc # "idle"

\* The right token is let through, no token at all is refused, both without a
\* look at the limiter.
Plain(r) ==
    /\ Next1(r)
    /\ \E status \in {"served", "refused"} : GateAnswer(r, NoAddr, status)
    /\ UNCHANGED <<gateNow, ips, lastSeen, credit, updated>>

\* A wrong token: the limiter of the address.
Wrong(r) ==
    /\ Next1(r)
    /\ \E c \in Clients : \E h \in Arrivals(c) :
         /\ GetLimiter(ForRequest(h), r)
         /\ gateReq' = [gateReq EXCEPT ![r] = [pc |-> "got", client |-> c,
                                       lim |-> ips'[ForRequest(h)], at |-> gateNow]]
    /\ UNCHANGED <<gateNow, gateAnswer>>

\* Allow takes a token or refuses: the attempt is answered 401 or 429.
Allow(r) ==
    /\ gateReq[r].pc = "got"
    /\ LET l == gateReq[r].lim
           ok == CreditNow(l) >= Refill
       IN /\ updated' = [updated EXCEPT ![l] = gateNow]
          /\ credit' = [credit EXCEPT ![l] = CreditNow(l) - IF ok THEN Refill ELSE 0]
          /\ GateAnswer(r, gateReq[r].client, IF ok THEN "wrong" ELSE "limited")
    /\ UNCHANGED <<gateNow, ips, lastSeen>>

GateTick ==
    /\ gateNow < GateTime
    /\ \A r \in Attempts : gateReq[r].pc = "got" => gateNow - gateReq[r].at < MaxStall
    /\ gateNow' = gateNow + 1
    /\ UNCHANGED <<gateReq, ips, lastSeen, credit, updated, gateAnswer>>

GateNext ==
    \/ \E r \in Attempts : Plain(r) \/ Wrong(r) \/ Allow(r)
    \/ cleanup \/ GateTick

GateSpec == GateInit /\ [][GateNext]_gateVars

-----------------------------------------------------------------------------
Tries(c, what, from, to) ==
    {r \in Attempts : gateAnswer[r] = what /\ gateReq[r].client = c /\ gateReq[r].at \in from..to}

\* A client tries wrong tokens at the rate of the limiter and no faster, over
\* any stretch of time: whichever way its requests come in, however its
\* requests overlap, and although cleanup forgets addresses in between.
RateHolds ==
    \A c \in Clients, from, to \in 0..gateNow :
        from <= to => Cardinality(Tries(c, "wrong", from, to)) * Refill <= Burst * Refill + to - from

\* Nobody is refused for what others do: a client is told "too many attempts"
\* only when it has itself tried as often as its limiter allows since that
\* limiter was last full.
LimitedForOwnTries ==
    \A r \in Attempts :
        gateAnswer[r] = "limited" =>
            Cardinality(Tries(gateReq[r].client, "wrong", gateReq[r].at - Refill * Burst, gateReq[r].at)) >= Burst

\* What the limiter of the admin API promises: each line is stated above.
GateSafe ==
    /\ GateTypeOK
    /\ RateHolds
    /\ LimitedForOwnTries
=============================================================================
