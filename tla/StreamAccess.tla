------------------------------ MODULE StreamAccess ------------------------------
(***************************************************************************)
(* The `get` method of the proxy (app/query/processors.go,                 *)
(* app/query/validation.go): resolve the claim, find out whether the user  *)
(* may see it, buy it if it has a fee, and answer with a streaming URL.    *)
(* Around it internal-api (off-chain purchases, memberships, moderators)   *)
(* and the SDK (on-chain purchases).  Also the claim_search hook.          *)
(***************************************************************************)
EXTENDS Integers, Sequences, FiniteSetsExt

CONSTANTS
    Gets, Viewers, NoViewer, Claims,
    ClaimOf(_),
    TagLists,         \* the tags a claim may have, in order
    HasFee(_),        \* stream.fee.amount > 0
    Owner(_),         \* the user whose wallet holds the claim
    ReleaseTime,
    Mods, Members,    \* users internal-api knows as moderators, as members of the channels
    MayFail,          \* internal-api and the SDK may fail to answer
    MaxTime           \* bound

ASSUME StreamAssumption ==
    /\ NoViewer \notin Viewers
    /\ \A r \in Gets : ClaimOf(r) \in Claims
    /\ Mods \subseteq Viewers /\ Members \subseteq Viewers
    /\ MayFail \in BOOLEAN /\ MaxTime \in Nat

NoPurchase == [status |-> "none", type |-> "purchase", validThrough |-> 0]
Purchases == [status : {"submitted", "confirmed", "rejected"}, type : {"purchase", "rental"}, validThrough : 0..MaxTime]

VARIABLES
    now,
    tags,         \* the tags of each claim
    user,         \* who asks
    customer,     \* customer/list of internal-api: by user and claim
    onChain,      \* the purchases in the SDK wallets
    receipts,     \* those of them that resolve shows
    payments,     \* by user and claim
    getPc, signature,
    receipt,      \* whether the claim resolved last had a receipt
    shown

streamVars == <<now, tags, user, customer, onChain, receipts, payments, getPc, signature, receipt, shown>>
world == <<now, tags, user, customer, onChain, receipts, payments>>
Pairs == Viewers \X Claims
Pair(r) == <<user[r], ClaimOf(r)>>
Answers == {"none", "plain", "signed", "paid", "error"}

StreamTypeOK ==
    /\ now \in 0..MaxTime
    /\ tags \in [Claims -> TagLists] /\ user \in [Gets -> Viewers \cup {NoViewer}]
    /\ customer \in [Pairs -> Purchases \cup {NoPurchase}]
    /\ onChain \subseteq Pairs /\ receipts \subseteq onChain
    /\ payments \in [Pairs -> Nat]
    /\ getPc \in [Gets -> {"new", "access", "fee", "buy", "receipt", "done"}]
    /\ signature \in [Gets -> {"none", "valid", "invalid"}]
    /\ receipt \in [Gets -> BOOLEAN]
    /\ shown \in [Gets -> Answers]

StreamInit ==
    /\ now = 0
    /\ tags \in [Claims -> TagLists]
    /\ user \in [Gets -> Viewers \cup {NoViewer}]
    /\ customer = [p \in Pairs |-> NoPurchase]
    /\ onChain = {} /\ receipts = {}
    /\ payments = [p \in Pairs |-> 0]
    /\ getPc = [r \in Gets |-> "new"]
    /\ signature \in [Gets -> {"none", "valid", "invalid"}]
    /\ receipt = [r \in Gets |-> FALSE]
    /\ shown = [r \in Gets |-> "none"]

Go(r, where) == getPc' = [getPc EXCEPT ![r] = where] /\ UNCHANGED shown
Respond(r, a) == getPc' = [getPc EXCEPT ![r] = "done"] /\ shown' = [shown EXCEPT ![r] = a]

-----------------------------------------------------------------------------
(* resolve                                                                 *)

IsMyOutput(r) == user[r] # NoViewer /\ user[r] = Owner(ClaimOf(r))

\* No uri, no answer, no claim in it, or the claim.
Resolve(r) ==
    /\ getPc[r] = "new"
    /\ \/ Go(r, "access") /\ receipt' = [receipt EXCEPT ![r] = Pair(r) \in receipts]
       \/ MayFail /\ Respond(r, "error") /\ UNCHANGED receipt
    /\ UNCHANGED <<world, signature>>

-----------------------------------------------------------------------------
(* checkStreamAccess                                                       *)

\* Tags that decide, in the order of the claim's tags; a scheduled one only until
\* the release.
Decides(tag) ==
    \/ tag \in {"purchase", "rental", "memberonly", "unlisted"}
    \/ tag = "scheduled" /\ ReleaseTime > now

accessType(c) ==
    LET hits == {i \in 1..Len(tags[c]) : Decides(tags[c][i])}
    IN  IF hits = {} THEN "" ELSE tags[c][Min(hits)]

\* Answers of internal-api; errors are for the callers to handle.
Iapi(x) == IF MayFail THEN {x, "error"} ELSE {x}

\* isUserAMod: false if there is no client or no answer.
isUserAMod(r) == IF user[r] = NoViewer THEN {"no"} ELSE Iapi(IF user[r] \in Mods THEN "yes" ELSE "no")

\* checkCustomerListPurchase: a purchase, nil, or an error (no user, or no answer).
checkCustomerListPurchase(r) ==
    IF user[r] = NoViewer THEN {"error"}
    ELSE Iapi(IF customer[Pair(r)].status \in {"confirmed", "submitted"} THEN "valid" ELSE "nil")

\* Mutant of RentalOver: the last moment is off by one.
RentalOverLate(p) == now > p.validThrough + 1

RentalOver(p) == now > p.validThrough

membershipPerkCheck(r) ==
    IF user[r] = NoViewer THEN {"error"} ELSE Iapi(IF user[r] \in Members THEN "yes" ELSE "no")

\* Whether the user has access; the mod's answer has been "no" (or an error).
HasAccess(r, type) ==
    CASE type = "unlisted"   -> {IF signature[r] = "valid" THEN "yes" ELSE "no"}
      [] type = "scheduled"  -> {"no"}
      [] type = "purchase"   -> {IF a = "valid" THEN "yes" ELSE "no" : a \in checkCustomerListPurchase(r)}
      [] type = "rental"     -> {IF /\ a = "valid"
                                    /\ customer[Pair(r)].type = "rental"
                                    /\ ~RentalOver(customer[Pair(r)])
                                 THEN "yes" ELSE "no" : a \in checkCustomerListPurchase(r)}
      [] type = "memberonly" -> membershipPerkCheck(r)
      [] OTHER               -> {"no"}

CheckStreamAccess(r) ==
    /\ getPc[r] = "access"
    /\ LET type == accessType(ClaimOf(r)) IN
       IF type = "" THEN Go(r, "fee")
       ELSE IF IsMyOutput(r) THEN Respond(r, "signed")
       ELSE \E mod \in isUserAMod(r) :
            IF mod = "yes" THEN Respond(r, "signed")
            ELSE \E a \in HasAccess(r, type) : Respond(r, IF a = "yes" THEN "signed" ELSE "error")
    /\ UNCHANGED <<world, signature, receipt>>

-----------------------------------------------------------------------------
(* Fees                                                                    *)

\* Mutant of Fee: without a receipt the check waits for one.
FeeWaits(r) ==
    /\ getPc[r] = "fee"
    /\ IF ~HasFee(ClaimOf(r)) THEN Respond(r, "plain")
       ELSE IF IsMyOutput(r) \/ receipt[r] THEN Respond(r, "paid")
       ELSE \E a \in checkCustomerListPurchase(r) :
            IF a = "valid" THEN Respond(r, "paid") ELSE IF a = "nil" THEN Go(r, "buy") ELSE Go(r, "fee")
    /\ UNCHANGED <<world, signature, receipt>>

\* Owner, receipt, off-chain purchase: each is as good as paid.  An error of
\* customer/list counts as no purchase.
Fee(r) ==
    /\ getPc[r] = "fee"
    /\ IF ~HasFee(ClaimOf(r)) THEN Respond(r, "plain")
       ELSE IF IsMyOutput(r) \/ receipt[r] THEN Respond(r, "paid")
       ELSE \E a \in checkCustomerListPurchase(r) :
            IF a = "valid" THEN Respond(r, "paid") ELSE Go(r, "buy")
    /\ UNCHANGED <<world, signature, receipt>>

\* Mutant of AlreadyPurchased: the SDK is not asked to refuse (allow_duplicate_purchase).
AlreadyPurchasedNever(r) == FALSE

\* "you already have a purchase"
AlreadyPurchased(r) == Pair(r) \in onChain

\* NewQuery refuses purchase_create without a wallet; the SDK refuses a second
\* purchase; the answer to one that was made may be lost.
PurchaseCreate(r) ==
    /\ getPc[r] = "buy"
    /\ \/ /\ user[r] = NoViewer \/ AlreadyPurchased(r) \/ MayFail
          /\ Respond(r, "error")
          /\ UNCHANGED <<onChain, payments>>
       \/ /\ user[r] # NoViewer /\ ~AlreadyPurchased(r)
          /\ onChain' = onChain \cup {Pair(r)}
          /\ payments' = [payments EXCEPT ![Pair(r)] = @ + 1]
          /\ Go(r, "receipt") \/ (MayFail /\ Respond(r, "error"))
    /\ UNCHANGED <<now, tags, user, customer, receipts, signature, receipt>>

\* "This is needed so changes can propagate for the subsequent resolve"
ResolveAgain(r) ==
    /\ getPc[r] = "receipt"
    /\ IF Pair(r) \in receipts
       THEN Respond(r, "paid") \/ (MayFail /\ Respond(r, "error"))
       ELSE Respond(r, "error")
    /\ receipt' = [receipt EXCEPT ![r] = Pair(r) \in receipts]
    /\ UNCHANGED <<world, signature>>

preflightHookGet(r) ==
    Resolve(r) \/ CheckStreamAccess(r) \/ Fee(r) \/ PurchaseCreate(r) \/ ResolveAgain(r)

-----------------------------------------------------------------------------
(* Around it                                                               *)

Tick ==
    /\ now < MaxTime
    /\ now' = now + 1
    /\ UNCHANGED <<tags, user, customer, onChain, receipts, payments, getPc, signature, receipt, shown>>

Purchase(p) ==
    /\ customer[p] = NoPurchase /\ \E r \in Gets : Pair(r) = p
    /\ \E new \in Purchases : customer' = [customer EXCEPT ![p] = new]
    /\ UNCHANGED <<now, tags, user, onChain, receipts, payments, getPc, signature, receipt, shown>>

Propagate(p) ==
    /\ p \in onChain \ receipts
    /\ receipts' = receipts \cup {p}
    /\ UNCHANGED <<now, tags, user, customer, onChain, payments, getPc, signature, receipt, shown>>

StreamNext ==
    \/ \E r \in Gets : preflightHookGet(r)
    \/ Tick
    \/ \E p \in Pairs : Purchase(p) \/ Propagate(p)

StreamSpec == StreamInit /\ [][StreamNext]_streamVars

StreamFairSpec == StreamSpec /\ \A r \in Gets : WF_streamVars(preflightHookGet(r))

-----------------------------------------------------------------------------
(* Properties                                                              *)

\* Who is served a restricted stream: its owner, a moderator, the holder of a
\* confirmed or submitted purchase, of a rental that is not over, a member, or
\* whoever has a valid signature; nobody else before the release (checkStreamAccess).
SignedNeedsRight ==
    [][\A r \in Gets : shown[r] # "signed" /\ shown'[r] = "signed" =>
        \/ IsMyOutput(r) \/ user[r] \in Mods
        \/ /\ accessType(ClaimOf(r)) = "unlisted" /\ signature[r] = "valid"
        \/ /\ user[r] # NoViewer
           /\ \/ accessType(ClaimOf(r)) = "memberonly" /\ user[r] \in Members
              \/ /\ customer[Pair(r)].status \in {"confirmed", "submitted"}
                 /\ \/ accessType(ClaimOf(r)) = "purchase"
                    \/ /\ accessType(ClaimOf(r)) = "rental"
                       /\ customer[Pair(r)].type = "rental" /\ now <= customer[Pair(r)].validThrough
      ]_streamVars

\* A token for a stream with a fee is made only for the owner or for somebody who
\* has bought it, on or off the chain, whichever of the several answers along the
\* way were late or lost (preflightHookGet).
PaidIsPaid ==
    \A r \in Gets : shown[r] = "paid" =>
        \/ IsMyOutput(r)
        \/ Pair(r) \in onChain
        \/ user[r] # NoViewer /\ customer[Pair(r)].status \in {"confirmed", "submitted"}

\* Several get requests at once do not pay twice, and one that fails after the
\* payment is repeated without another payment (PurchaseReceipt, reAlreadyPurchased).
PaysOnce == \A p \in Pairs : payments[p] <= 1

\* What get promises about money: each line is stated above.
StreamSafe ==
    /\ StreamTypeOK
    /\ PaidIsPaid
    /\ PaysOnce

\* Every get is answered.
EveryGetAnswered == \A r \in Gets : getPc[r] # "new" ~> getPc[r] = "done"
=================================================================================
