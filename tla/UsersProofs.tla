------------------------------- MODULE UsersProofs -------------------------------
(***************************************************************************)
(* Proofs about users and their wallets (Wallet), the router (SdkRouter)   *)
(* and the life of the API process (ApiLife).                              *)
(*                                                                         *)
(* What is hard is the wallet.  That an assigned user has a wallet rests   *)
(* on the row lock: who holds it has found no server in the row, and does  *)
(* not commit before Create.  That a loaded wallet has an access time      *)
(* rests on the tracker: what it has read is never newer than the row, so  *)
(* an access time that is still the same means that nobody has come since, *)
(* or that someone is here now and is going to set it.                     *)
(***************************************************************************)
EXTENDS Wallet, SdkRouter, ApiLife, TLAPS

\* A transaction holds the row: the user it has found or makes has no server, and
\* what it is going to commit has a wallet.
Locked(r) == rowLock = r =>
    /\ pc[r] \in {"assign", "create", "commit"}
    /\ row = NoRow \/ row.server = NoServer
    /\ pc[r] = "commit" => me[r].server \in ServerIds /\ wallet[me[r].server] # "none"

\* What a request knows of the user where it is.
Located(r) ==
    /\ pc[r] = "create" => rowLock = r /\ me[r].server \in ServerIds
    /\ pc[r] \in {"lookup", "update"} => r \in OAuth
    /\ pc[r] \in {"assign", "create", "commit", "update"} => me[r] \in UserRow
    /\ pc[r] = "load" => me[r].server \in ServerIds
    /\ me[r].seen <= accessClock
    /\ bumps = 0 /\ pc[r] = "update" /\ me[r].server \in ServerIds => wallet[me[r].server] # "none"

\* A request that is going to record its access, or has failed to.
Serving(r) == pc[r] \in Querying \cup {"untouched"}
Busy == \E r \in UserRequests : Serving(r)

\* Access times are given out in order; what the tracker and the operator have read.
Selected ==
    /\ row.seen <= accessClock /\ tracker.row.seen <= accessClock /\ bump.row.seen <= accessClock
    /\ tracker.step # "idle" => tracker.row \in UserRow /\ tracker.row.server \in ServerIds /\ tracker.row.seen > 0
    /\ bump.step # "idle" => bumps > 0 /\ bump.row \in UserRow /\ bump.row.server \in ServerIds

\* The tracker clears the access time only of a wallet it has unloaded: while the
\* time is the one it has read, the user is where it was read, or is busy.
Tracked ==
    bumps = 0 =>
        /\ row.server \in ServerIds => wallet[row.server] # "none"
        /\ Loaded /\ row.seen = 0 => Busy
        /\ tracker.step # "idle" /\ row # NoRow /\ row.seen = tracker.row.seen =>
              row.server = tracker.row.server \/ Busy
        /\ tracker.step = "mark" /\ Loaded /\ row.seen = tracker.row.seen => Busy

WalletInv ==
    /\ WalletTypeOK
    /\ \A r \in UserRequests : Locked(r) /\ Located(r)
    /\ Selected
    /\ Tracked

-----------------------------------------------------------------------------
(* Rows.                                                                   *)

\* Servers are numbered, and what stands for none is not one of them.
LEMMA ServerFacts ==
  /\ NoServer \notin ServerIds /\ Miss \notin ServerIds /\ NoUser \notin ServerIds
  /\ Miss # NoServer /\ NoUser # NoServer /\ Miss # NoUser
  BY WalletAssumption DEF NoServer, ServerIds, Miss, NoUser

LEMMA NoRowFacts ==
  NoRow.server = NoServer /\ NoRow.idp = FALSE /\ NoRow.seen = -1 /\ NoRow \notin UserRow
<1>1. NoRow.server = NoServer /\ NoRow.idp = FALSE /\ NoRow.seen = -1
  BY DEF NoRow
<1>2. -1 \notin Nat
  OBVIOUS
<1>3. \A x \in UserRow : x.seen \in Nat
  BY Zenon, SMT DEF UserRow
<1> QED BY Zenon, SMT, <1>1, <1>2, <1>3

\* What is read of a row.
LEMMA RowFacts ==
  ASSUME NEW x \in UserRow \cup {NoRow}
  PROVE  /\ x.server \in ServerIds \cup {NoServer} /\ x.seen \in Int /\ x.idp \in BOOLEAN
         /\ x # NoRow => x \in UserRow /\ x.seen \in Nat
         /\ x.server \in ServerIds => x # NoRow
<1>1. x \in UserRow => x.server \in ServerIds \cup {NoServer} /\ x.idp \in BOOLEAN /\ x.seen \in Nat
  BY Zenon, SMT DEF UserRow
<1>2. -1 \in Int /\ \A n \in Nat : n \in Int
  OBVIOUS
<1> QED BY Zenon, SMT, <1>1, <1>2, NoRowFacts, ServerFacts

\* What is made of one.
LEMMA RowMade ==
  ASSUME NEW s \in ServerIds \cup {NoServer}, NEW b \in BOOLEAN, NEW n \in Nat
  PROVE  LET x == [server |-> s, idp |-> b, seen |-> n]
         IN  x \in UserRow /\ x.server = s /\ x.seen = n /\ x # NoRow
<1>1. [server |-> s, idp |-> b, seen |-> n] \in UserRow
  BY Zenon, SMT DEF UserRow
<1> QED BY Zenon, SMT, <1>1, NoRowFacts

LEMMA RowServer ==
  ASSUME NEW x \in UserRow, NEW s \in ServerIds \cup {NoServer}
  PROVE  LET y == [x EXCEPT !.server = s]
         IN  y \in UserRow /\ y.server = s /\ y.seen = x.seen /\ y # NoRow
<1>1. [x EXCEPT !.server = s] \in UserRow
  BY Zenon, SMT DEF UserRow
<1>2. [x EXCEPT !.server = s].server = s /\ [x EXCEPT !.server = s].seen = x.seen
  BY Zenon, SMT DEF UserRow
<1> QED BY Zenon, SMT, <1>1, <1>2, NoRowFacts

LEMMA RowSeen ==
  ASSUME NEW x \in UserRow, NEW n \in Nat
  PROVE  LET y == [x EXCEPT !.seen = n]
         IN  y \in UserRow /\ y.server = x.server /\ y.seen = n /\ y # NoRow
<1>1. [x EXCEPT !.seen = n] \in UserRow
  BY Zenon, SMT DEF UserRow
<1>2. [x EXCEPT !.seen = n].server = x.server /\ [x EXCEPT !.seen = n].seen = n
  BY Zenon, SMT DEF UserRow
<1> QED BY Zenon, SMT, <1>1, <1>2, NoRowFacts

LEMMA RowIdp ==
  ASSUME NEW x \in UserRow
  PROVE  LET y == [x EXCEPT !.idp = TRUE]
         IN  y \in UserRow /\ y.server = x.server /\ y.seen = x.seen /\ y # NoRow
<1>1. [x EXCEPT !.idp = TRUE] \in UserRow
  BY Zenon, SMT DEF UserRow
<1>2. [x EXCEPT !.idp = TRUE].server = x.server /\ [x EXCEPT !.idp = TRUE].seen = x.seen
  BY Zenon, SMT DEF UserRow
<1> QED BY Zenon, SMT, <1>1, <1>2, NoRowFacts

-----------------------------------------------------------------------------
(* Steps of requests.                                                      *)

\* The invariant at the beginning.
LEMMA WalletInitInv == WalletInit => WalletInv
<1> SUFFICES ASSUME WalletInit PROVE WalletInv
  OBVIOUS
<1>1. PICK s \in Starts : /\ row = s.row
                          /\ wallet = [i \in ServerIds |-> IF i \in s.wallets THEN "unloaded" ELSE "none"]
  BY Zenon, SMT DEF WalletInit
<1>2. /\ s.row \in UserRow \cup {NoRow} /\ s.row.server \in s.wallets \cup {NoServer} /\ s.row.seen <= 0
      /\ TxMaxRetries + WalletLoadRetries \in Nat /\ 0 \in 0 .. (TxMaxRetries + WalletLoadRetries)
      /\ MaxBumps \in Nat /\ 0 \in 0 .. MaxBumps /\ NoRequest \notin UserRequests
  BY WalletAssumption
<1>3. /\ rowLock = NoRequest /\ tokenCache = [p \in Processes |-> Miss]
      /\ pc = [r \in UserRequests |-> "idle"] /\ me = [r \in UserRequests |-> NoRow]
      /\ tries = [r \in UserRequests |-> 0] /\ accessClock = 0 /\ bumps = 0 /\ faulty \in BOOLEAN
      /\ tracker = [step |-> "idle", row |-> NoRow] /\ bump = [step |-> "idle", row |-> NoRow]
  BY Zenon, SMT DEF WalletInit
<1>4. WalletTypeOK
  BY Zenon, SMT, <1>1, <1>2, <1>3 DEF WalletTypeOK, Places
<1>5. ASSUME NEW r \in UserRequests PROVE Locked(r) /\ Located(r)
  <2>1. pc[r] = "idle" /\ me[r].seen <= accessClock
    BY <1>3, NoRowFacts
  <2> QED BY Zenon, SMT, <1>2, <1>3, <2>1 DEF Locked, Located
<1>6. Selected
  BY <1>1, <1>2, <1>3, NoRowFacts DEF Selected
<1>7. Tracked
  <2>1. row.server \in ServerIds => wallet[row.server] = "unloaded"
    BY Zenon, SMT, <1>1, <1>2, ServerFacts
  <2>2. ~Loaded
    BY Zenon, SMT, <1>1, <1>2, <2>1, RowFacts DEF Loaded
  <2> QED BY Zenon, SMT, <1>3, <2>1, <2>2 DEF Tracked
<1> QED BY Zenon, SMT, <1>4, <1>5, <1>6, <1>7 DEF WalletInv

\* Requests move on, nothing else does.
LEMMA RequestInv ==
  ASSUME WalletInv, UNCHANGED <<row, rowLock, wallet, accessClock, tracker, bump, bumps, faulty>>,
         tokenCache' \in [Processes -> {Miss, NoUser, NoServer} \cup ServerIds],
         pc' \in [UserRequests -> Places], me' \in [UserRequests -> UserRow \cup {NoRow}],
         tries' \in [UserRequests -> 0..(TxMaxRetries + WalletLoadRetries)],
         \A q \in UserRequests :
            \/ pc'[q] = pc[q] /\ me'[q] = me[q]
            \/ (Serving(q) => Serving(q)') /\ Locked(q)' /\ Located(q)'
  PROVE  WalletInv'
<1>1. WalletTypeOK'
  BY Zenon, SMT DEF WalletInv, WalletTypeOK
<1>2. \A q \in UserRequests : Locked(q)' /\ Located(q)'
  BY Zenon, SMT DEF WalletInv, Locked, Located
<1>3. Busy => Busy'
  BY Zenon, SMT DEF Busy, Serving
<1>4. Selected' /\ Tracked'
  BY Zenon, SMT, <1>3 DEF WalletInv, Selected, Tracked, Loaded
<1> QED BY Zenon, SMT, <1>1, <1>2, <1>4 DEF WalletInv

\* Everybody who lands gets the outcome, nobody else is touched.
LEMMA LandFacts ==
  ASSUME WalletInv, NEW r \in UserRequests, NEW place \in {"send", "refused"},
         NEW user \in UserRow \cup {NoRow}, Land(r, place, user)
  PROVE  /\ pc' \in [UserRequests -> Places] /\ me' \in [UserRequests -> UserRow \cup {NoRow}]
         /\ tries' \in [UserRequests -> 0..(TxMaxRetries + WalletLoadRetries)]
         /\ pc'[r] = place /\ me'[r] = user
         /\ \A q \in UserRequests :
               \/ pc'[q] = pc[q] /\ me'[q] = me[q]
               \/ (q = r \/ pc[q] = "joined") /\ pc'[q] = place /\ me'[q] = user
<1> DEFINE landed == {r} \cup {q \in Legacy : r \in Legacy /\ pc[q] = "joined" /\ ProcessOf(q) = ProcessOf(r)}
<1>1. /\ pc' = [q \in UserRequests |-> IF q \in landed THEN place ELSE pc[q]]
      /\ me' = [q \in UserRequests |-> IF q \in landed THEN user ELSE me[q]]
      /\ tries' = [q \in UserRequests |-> IF q \in landed THEN 0 ELSE tries[q]]
  BY Zenon, SMT DEF Land
<1>2. r \in landed /\ \A q \in landed : q = r \/ pc[q] = "joined"
  BY Zenon, SMT
<1> HIDE DEF landed
<1>3. /\ pc \in [UserRequests -> Places] /\ me \in [UserRequests -> UserRow \cup {NoRow}]
      /\ tries \in [UserRequests -> 0..(TxMaxRetries + WalletLoadRetries)] /\ place \in Places
  BY Zenon, SMT DEF WalletInv, WalletTypeOK, Places, Querying
<1>4. 0 \in 0..(TxMaxRetries + WalletLoadRetries)
  BY WalletAssumption
<1> QED BY Zenon, SMT, <1>1, <1>2, <1>3, <1>4

\* A request that is not in the transaction does not hold the row.
LEMMA NotLocking ==
  ASSUME WalletInv, NEW r \in UserRequests, pc[r] \notin {"assign", "create", "commit"}
  PROVE  rowLock # r
  BY Zenon, SMT DEF WalletInv, Locked

\* An error ends the request, and those who wait for it, and frees the row.
LEMMA RefuseInv ==
  ASSUME WalletInv, NEW r \in UserRequests, ~Serving(r),
         Land(r, "refused", NoRow),
         tokenCache' \in [Processes -> {Miss, NoUser, NoServer} \cup ServerIds],
         rowLock' = IF rowLock = r THEN NoRequest ELSE rowLock,
         wallet' \in [ServerIds -> {"none", "unloaded", "loaded"}],
         \A s \in ServerIds : wallet[s] # "none" => wallet'[s] # "none",
         wallet' = wallet \/ row.server \notin ServerIds \/ wallet'[row.server] = wallet[row.server],
         UNCHANGED <<row, accessClock, tracker, bump, bumps, faulty>>
  PROVE  WalletInv'
<1>1. /\ pc' \in [UserRequests -> Places] /\ me' \in [UserRequests -> UserRow \cup {NoRow}]
      /\ tries' \in [UserRequests -> 0..(TxMaxRetries + WalletLoadRetries)]
      /\ pc'[r] = "refused" /\ me'[r] = NoRow
      /\ \A q \in UserRequests :
            \/ pc'[q] = pc[q] /\ me'[q] = me[q]
            \/ (q = r \/ pc[q] = "joined") /\ pc'[q] = "refused" /\ me'[q] = NoRow
  BY Zenon, SMT, LandFacts
<1>2. WalletTypeOK'
  BY Zenon, SMT, <1>1 DEF WalletInv, WalletTypeOK
<1>3. NoRow.seen <= accessClock /\ NoRequest \notin UserRequests
  BY NoRowFacts, WalletAssumption DEF WalletInv, WalletTypeOK
<1>4. ASSUME NEW q \in UserRequests PROVE Locked(q)' /\ Located(q)'
  <2>1. Locked(q) /\ Located(q)
    BY Zenon, SMT DEF WalletInv
  <2>2. CASE pc'[q] = "refused" /\ me'[q] = NoRow /\ (q = r \/ pc[q] = "joined")
    BY Zenon, SMT, <1>3, <2>1, <2>2 DEF Locked, Located
  <2>3. CASE pc'[q] = pc[q] /\ me'[q] = me[q] /\ q # r
    BY Zenon, SMT, <1>3, <2>1, <2>3 DEF Locked, Located
  <2> QED BY Zenon, SMT, <1>1, <2>2, <2>3
<1>5. Busy => Busy'
  BY Zenon, SMT, <1>1 DEF Busy, Serving, Querying
<1>6. Loaded' <=> Loaded
  <2>1. row \in UserRow \cup {NoRow}
    BY Zenon, SMT DEF WalletInv, WalletTypeOK
  <2> QED BY Zenon, SMT, <2>1, RowFacts DEF Loaded
<1>7. Selected' /\ Tracked'
  BY Zenon, SMT, <1>5, <1>6 DEF WalletInv, Selected, Tracked
<1> QED BY Zenon, SMT, <1>2, <1>4, <1>7 DEF WalletInv

\* The same while no transaction is open.
LEMMA RefusedInv ==
  ASSUME WalletInv, NEW r \in UserRequests, pc[r] \in {"idle", "remote", "lookup", "update"},
         Land(r, "refused", NoRow),
         tokenCache' \in [Processes -> {Miss, NoUser, NoServer} \cup ServerIds],
         UNCHANGED <<row, rowLock, wallet, accessClock, tracker, bump, bumps, faulty>>
  PROVE  WalletInv'
<1>1. rowLock # r /\ ~Serving(r)
  BY Zenon, SMT, NotLocking DEF Serving, Querying
<1>2. wallet \in [ServerIds -> {"none", "unloaded", "loaded"}]
  BY Zenon, SMT DEF WalletInv, WalletTypeOK
<1> QED BY Zenon, SMT, <1>1, <1>2, RefuseInv

\* The transaction of a request is rolled back.
LEMMA RollbackInv ==
  ASSUME WalletInv, NEW r \in UserRequests, ~Serving(r), Rollback(r),
         wallet' \in [ServerIds -> {"none", "unloaded", "loaded"}],
         \A s \in ServerIds : wallet[s] # "none" => wallet'[s] # "none",
         wallet' = wallet \/ row.server \notin ServerIds \/ wallet'[row.server] = wallet[row.server]
  PROVE  WalletInv'
<1>1. /\ Land(r, "refused", NoRow) /\ tokenCache' = tokenCache
      /\ rowLock' = IF rowLock = r THEN NoRequest ELSE rowLock
      /\ UNCHANGED <<row, accessClock, tracker, bump, bumps, faulty>>
  BY Zenon, SMT DEF Rollback, Refuse, others
<1>2. tokenCache' \in [Processes -> {Miss, NoUser, NoServer} \cup ServerIds]
  BY Zenon, SMT, <1>1 DEF WalletInv, WalletTypeOK
<1> QED BY Zenon, SMT, <1>1, <1>2, RefuseInv

\* A request, with those who wait for it, goes on with a user; the row may be
\* written by it, for a server that has a wallet.
LEMMA AcceptInv ==
  ASSUME WalletInv, NEW r \in UserRequests, NEW user \in UserRow \cup {NoRow}, user.seen <= accessClock,
         ~Serving(r), Accept(r, user),
         \/ rowLock' = NoRequest /\ rowLock \in {NoRequest, r}
         \/ rowLock' = rowLock /\ rowLock # r /\ row' = row,
         row' \in UserRow \cup {NoRow}, row'.seen <= accessClock,
         bumps = 0 /\ row'.server \in ServerIds => wallet[row'.server] # "none",
         UNCHANGED <<wallet, accessClock, tracker, bump, bumps, faulty>>
  PROVE  WalletInv'
<1>1. /\ pc' \in [UserRequests -> Places] /\ me' \in [UserRequests -> UserRow \cup {NoRow}]
      /\ tries' \in [UserRequests -> 0..(TxMaxRetries + WalletLoadRetries)]
      /\ pc'[r] = "send" /\ me'[r] = user
      /\ \A q \in UserRequests :
            \/ pc'[q] = pc[q] /\ me'[q] = me[q]
            \/ (q = r \/ pc[q] = "joined") /\ pc'[q] = "send" /\ me'[q] = user
  BY Zenon, SMT, LandFacts DEF Accept
<1>2. tokenCache' \in [Processes -> {Miss, NoUser, NoServer} \cup ServerIds]
  BY Zenon, SMT, RowFacts DEF Accept, WalletInv, WalletTypeOK
<1>3. WalletTypeOK'
  BY Zenon, SMT, <1>1, <1>2 DEF WalletInv, WalletTypeOK
<1>4. NoRequest \notin UserRequests
  BY Zenon, SMT, WalletAssumption
<1>5. ASSUME NEW q \in UserRequests PROVE Locked(q)' /\ Located(q)'
  <2>1. Locked(q) /\ Located(q)
    BY Zenon, SMT DEF WalletInv
  <2>2. CASE pc'[q] = "send" /\ me'[q] = user /\ (q = r \/ pc[q] = "joined")
    BY Zenon, SMT, <1>4, <2>1, <2>2 DEF Locked, Located
  <2>3. CASE pc'[q] = pc[q] /\ me'[q] = me[q] /\ q # r
    BY Zenon, SMT, <1>4, <2>1, <2>3 DEF Locked, Located
  <2> QED BY Zenon, SMT, <1>1, <2>2, <2>3
<1>6. Busy'
  BY Zenon, SMT, <1>1 DEF Busy, Serving, Querying
<1>7. Selected' /\ Tracked'
  BY Zenon, SMT, <1>6 DEF WalletInv, Selected, Tracked
<1> QED BY Zenon, SMT, <1>3, <1>5, <1>7 DEF WalletInv

\* A request of the token cache's process.
LEMMA CacheInv ==
  ASSUME WalletInv, NEW r \in Legacy, CacheHit(r) \/ CacheMiss(r) \/ GetRemoteUserLegacy(r)
  PROVE  WalletInv'
<1>1. /\ UNCHANGED <<row, rowLock, wallet, accessClock, tracker, bump, bumps, faulty>> /\ r \in UserRequests
  BY Zenon, SMT DEF CacheHit, CacheMiss, GetRemoteUserLegacy, db, others, UserRequests
<1>2. /\ tokenCache \in [Processes -> {Miss, NoUser, NoServer} \cup ServerIds]
      /\ pc \in [UserRequests -> Places] /\ me \in [UserRequests -> UserRow \cup {NoRow}]
      /\ tries \in [UserRequests -> 0..(TxMaxRetries + WalletLoadRetries)]
      /\ ProcessOf(r) \in Processes /\ accessClock \in Nat /\ Located(r)
  BY Zenon, SMT, <1>1, WalletAssumption DEF WalletInv, WalletTypeOK
<1>3. CASE CacheHit(r)
  <2> DEFINE c == tokenCache[ProcessOf(r)]
             x == [server |-> c, idp |-> FALSE, seen |-> 0]
  <2>1. pc[r] = "idle" /\ c # Miss /\ c \in {NoUser, NoServer} \cup ServerIds /\ UNCHANGED <<tokenCache, tries>>
    BY Zenon, SMT, <1>2, <1>3 DEF CacheHit
  <2>2. CASE c = NoUser
    <3>1. me' = me /\ pc' = [pc EXCEPT ![r] = "refused"] /\ "refused" \in Places
      BY Zenon, SMT, <1>3, <2>2 DEF CacheHit, WalletGoto, Places
    <3>2. Locked(r)' /\ Located(r)'
      BY Zenon, SMT, <1>1, <1>2, <2>1, <3>1, NotLocking DEF Locked, Located
    <3> QED BY Zenon, SMT, <1>1, <1>2, <2>1, <3>1, <3>2, RequestInv DEF Serving, Querying
  <2>3. CASE c # NoUser
    <3>1. me' = [me EXCEPT ![r] = x] /\ pc' = [pc EXCEPT ![r] = "send"] /\ "send" \in Places
      BY Zenon, SMT, <1>3, <2>3 DEF CacheHit, WalletGoto, Places, Querying
    <3>2. x \in UserRow /\ x.seen = 0
      BY Zenon, SMT, <2>1, <2>3, RowMade
    <3>3. x.seen <= accessClock
      BY <1>2, <3>2
    <3> HIDE DEF x, c
    <3>4. Locked(r)' /\ Located(r)'
      BY Zenon, SMT, <1>1, <1>2, <2>1, <3>1, <3>3, NotLocking DEF Locked, Located
    <3>5. Serving(r)'
      BY Zenon, SMT, <1>1, <1>2, <3>1 DEF Serving, Querying
    <3> QED BY Zenon, SMT, <1>1, <1>2, <2>1, <3>1, <3>2, <3>4, <3>5, RequestInv
  <2> QED BY Zenon, SMT, <2>2, <2>3
<1>4. ASSUME NEW p \in {"remote", "joined", "begin"}, pc[r] \in {"idle", "remote"}, WalletGoto(r, p),
             UNCHANGED <<tokenCache, me, tries>>
      PROVE  WalletInv'
  <2>1. pc' = [pc EXCEPT ![r] = p] /\ p \in Places
    BY Zenon, SMT, <1>4 DEF WalletGoto, Places, InFlight
  <2>2. Locked(r)' /\ Located(r)' /\ ~Serving(r)
    BY Zenon, SMT, <1>1, <1>2, <1>4, <2>1, NotLocking DEF Locked, Located, Serving, Querying
  <2> QED BY Zenon, SMT, <1>1, <1>2, <1>4, <2>1, <2>2, RequestInv
<1>5. CASE CacheMiss(r)
  BY Zenon, SMT, <1>4, <1>5 DEF CacheMiss
<1>6. CASE GetRemoteUserLegacy(r)
  <2>1. pc[r] = "remote"
    BY Zenon, SMT, <1>6 DEF GetRemoteUserLegacy
  <2>2. CASE Land(r, "refused", NoRow) /\ tokenCache' = [tokenCache EXCEPT ![ProcessOf(r)] = NoUser]
    <3>1. tokenCache' \in [Processes -> {Miss, NoUser, NoServer} \cup ServerIds]
      BY Zenon, SMT, <1>2, <2>2
    <3> QED BY Zenon, SMT, <1>1, <2>1, <2>2, <3>1, RefusedInv
  <2>3. CASE Refuse(r)
    BY Zenon, SMT, <1>1, <1>2, <2>1, <2>3, RefusedInv DEF Refuse
  <2>4. CASE WalletGoto(r, "begin") /\ UNCHANGED <<tokenCache, me, tries>>
    BY Zenon, SMT, <1>4, <2>1, <2>4
  <2> QED BY Zenon, SMT, <1>6, <2>2, <2>3, <2>4 DEF GetRemoteUserLegacy
<1> QED BY Zenon, SMT, <1>3, <1>5, <1>6

\* What is known of a request on its way.
LEMMA OnTheWay ==
  ASSUME WalletInv, NEW r \in UserRequests
  PROVE  /\ Locked(r) /\ Located(r) /\ me[r] \in UserRow \cup {NoRow} /\ row \in UserRow \cup {NoRow}
         /\ tokenCache \in [Processes -> {Miss, NoUser, NoServer} \cup ServerIds]
         /\ pc \in [UserRequests -> Places] /\ me \in [UserRequests -> UserRow \cup {NoRow}]
         /\ tries \in [UserRequests -> 0..(TxMaxRetries + WalletLoadRetries)]
         /\ wallet \in [ServerIds -> {"none", "unloaded", "loaded"}]
         /\ rowLock \in UserRequests \cup {NoRequest} /\ NoRequest \notin UserRequests
         /\ accessClock \in Nat /\ row.seen <= accessClock /\ me[r].seen <= accessClock
         /\ bumps = 0 /\ row.server \in ServerIds => wallet[row.server] # "none"
  BY Zenon, SMT, WalletAssumption DEF WalletInv, WalletTypeOK, Selected, Located, Tracked

\* One request goes to another place with what it knows, or with x.
LEMMA GotoInv ==
  ASSUME WalletInv, NEW r \in UserRequests, NEW place \in Places, NEW x \in UserRow \cup {NoRow},
         pc' = [pc EXCEPT ![r] = place], me' = [me EXCEPT ![r] = x],
         tries' \in [UserRequests -> 0..(TxMaxRetries + WalletLoadRetries)],
         UNCHANGED <<row, rowLock, wallet, tokenCache, accessClock, tracker, bump, bumps, faulty>>,
         Serving(r) => place \in Querying \cup {"untouched"},
         rowLock # r, x.seen <= accessClock,
         place # "create", place \in {"lookup", "update"} => r \in OAuth,
         place \in {"assign", "commit", "update"} => x \in UserRow,
         place = "load" => x.server \in ServerIds,
         bumps = 0 /\ place = "update" /\ x.server \in ServerIds => wallet[x.server] # "none"
  PROVE  WalletInv'
<1>1. /\ tokenCache \in [Processes -> {Miss, NoUser, NoServer} \cup ServerIds]
      /\ pc \in [UserRequests -> Places] /\ me \in [UserRequests -> UserRow \cup {NoRow}]
  BY Zenon, SMT, OnTheWay
<1>2. pc'[r] = place /\ me'[r] = x /\ \A q \in UserRequests : q # r => pc'[q] = pc[q] /\ me'[q] = me[q]
  BY Zenon, SMT, <1>1
<1>3. Locked(r)' /\ Located(r)' /\ (Serving(r) => Serving(r)')
  BY Zenon, SMT, <1>2 DEF Locked, Located, Serving
<1>4. pc' \in [UserRequests -> Places] /\ me' \in [UserRequests -> UserRow \cup {NoRow}]
  BY Zenon, SMT, <1>1
<1> QED BY Zenon, SMT, <1>1, <1>2, <1>3, <1>4, RequestInv

\* The same when it knows no more than before.
LEMMA GoOnInv ==
  ASSUME WalletInv, NEW r \in UserRequests, NEW place \in Places, WalletGoto(r, place), me' = me,
         tries' \in [UserRequests -> 0..(TxMaxRetries + WalletLoadRetries)],
         UNCHANGED <<row, rowLock, wallet, tokenCache, accessClock, tracker, bump, bumps, faulty>>,
         Serving(r) => place \in Querying \cup {"untouched"},
         rowLock # r,
         place \notin {"create", "assign", "commit", "update"}, place = "lookup" => r \in OAuth,
         place = "load" => me[r].server \in ServerIds
  PROVE  WalletInv'
<1>1. me \in [UserRequests -> UserRow \cup {NoRow}] /\ me[r] \in UserRow \cup {NoRow} /\ me[r].seen <= accessClock
  BY Zenon, SMT, OnTheWay
<1>2. me' = [me EXCEPT ![r] = me[r]]
  BY Zenon, SMT, <1>1
<1> QED BY Zenon, SMT, <1>1, <1>2, GotoInv DEF WalletGoto

\* An OAuth request finds the user by its token, by its id, or not at all.
LEMMA OAuthInv ==
  ASSUME WalletInv, NEW r \in UserRequests, GetDBUserByIDPID(r) \/ GetDBUserByID(r)
  PROVE  WalletInv'
<1>1. UNCHANGED <<row, rowLock, wallet, accessClock, tracker, bump, bumps, faulty>>
  BY Zenon, SMT DEF GetDBUserByIDPID, GetDBUserByID, db, others
<1>2. pc[r] \in {"idle", "lookup"} /\ r \in OAuth
  BY Zenon, SMT, OnTheWay DEF GetDBUserByIDPID, GetDBUserByID, Located
<1>3. rowLock # r /\ ~Serving(r)
  BY Zenon, SMT, <1>2, NotLocking DEF Serving, Querying
<1>4. /\ row \in UserRow \cup {NoRow} /\ row.seen <= accessClock
      /\ tokenCache \in [Processes -> {Miss, NoUser, NoServer} \cup ServerIds]
      /\ tries \in [UserRequests -> 0..(TxMaxRetries + WalletLoadRetries)]
      /\ bumps = 0 /\ row.server \in ServerIds => wallet[row.server] # "none"
  BY Zenon, SMT, OnTheWay
<1>5. "lookup" \in Places /\ "begin" \in Places /\ "update" \in Places
  BY Zenon, SMT DEF Places, InFlight
<1>6. CASE Refuse(r)
  BY Zenon, SMT, <1>1, <1>2, <1>4, <1>6, RefusedInv DEF Refuse
<1>7. CASE Accept(r, row)
  BY Zenon, SMT, <1>1, <1>3, <1>4, <1>7, AcceptInv
<1>8. CASE (WalletGoto(r, "lookup") \/ WalletGoto(r, "begin")) /\ UNCHANGED <<tokenCache, me, tries>>
  BY Zenon, SMT, <1>1, <1>2, <1>3, <1>4, <1>5, <1>8, GoOnInv
<1>9. CASE /\ row # NoRow /\ WalletGoto(r, "update") /\ me' = [me EXCEPT ![r] = [row EXCEPT !.idp = TRUE]]
           /\ UNCHANGED <<tokenCache, tries>>
  <2> DEFINE x == [row EXCEPT !.idp = TRUE]
  <2>1. row \in UserRow
    BY Zenon, SMT, <1>4, <1>9, RowFacts
  <2>2. x \in UserRow /\ x.server = row.server /\ x.seen = row.seen
    BY Zenon, SMT, <2>1, RowIdp
  <2>3. me' = [me EXCEPT ![r] = x] /\ pc' = [pc EXCEPT ![r] = "update"]
    BY Zenon, SMT, <1>9 DEF WalletGoto
  <2> HIDE DEF x
  <2> QED BY Zenon, SMT, <1>1, <1>2, <1>3, <1>4, <1>5, <1>9, <2>2, <2>3, GotoInv
<1> QED BY Zenon, SMT, <1>6, <1>7, <1>8, <1>9 DEF GetDBUserByIDPID, GetDBUserByID

\* The row as it was read is written back: the server it names has a wallet.
LEMMA SetIdpIDInv ==
  ASSUME WalletInv, NEW r \in UserRequests, SetIdpID(r)
  PROVE  WalletInv'
<1>1. pc[r] = "update" /\ rowLock \in {NoRequest, r} /\ UNCHANGED <<rowLock, wallet, accessClock, tracker, bump, bumps, faulty>>
  BY Zenon, SMT DEF SetIdpID, Unlocked, others
<1>2. rowLock = NoRequest /\ ~Serving(r)
  BY Zenon, SMT, <1>1, NotLocking DEF Serving, Querying
<1>3. /\ me[r] \in UserRow \cup {NoRow} /\ me[r].seen <= accessClock /\ accessClock \in Nat
      /\ bumps = 0 /\ me[r].server \in ServerIds => wallet[me[r].server] # "none"
      /\ tokenCache \in [Processes -> {Miss, NoUser, NoServer} \cup ServerIds]
  BY Zenon, SMT, <1>1, OnTheWay DEF Located
<1>4. CASE row' = (IF row = NoRow THEN NoRow ELSE me[r]) /\ Accept(r, me[r])
  <2>1. NoRow.seen <= accessClock /\ NoRow.server \notin ServerIds
    BY <1>3, NoRowFacts, ServerFacts
  <2>2. /\ row' \in UserRow \cup {NoRow} /\ row'.seen <= accessClock
        /\ bumps = 0 /\ row'.server \in ServerIds => wallet[row'.server] # "none"
    BY Zenon, SMT, <1>3, <1>4, <2>1
  <2> QED BY Zenon, SMT, <1>1, <1>2, <1>3, <1>4, <2>2, AcceptInv
<1>5. CASE UNCHANGED row /\ Refuse(r)
  BY Zenon, SMT, <1>1, <1>3, <1>5, RefusedInv DEF Refuse
<1> QED BY Zenon, SMT, <1>4, <1>5 DEF SetIdpID

\* The transaction begins, loses the race for the key, or fails.
LEMMA BeginInv ==
  ASSUME WalletInv, NEW r \in UserRequests, TxFails(r) \/ getOrCreateLocalUser(r) \/ createUserConflict(r)
  PROVE  WalletInv'
<1>1. /\ row \in UserRow \cup {NoRow} /\ row.seen <= accessClock
      /\ tries \in [UserRequests -> 0..(TxMaxRetries + WalletLoadRetries)]
      /\ wallet \in [ServerIds -> {"none", "unloaded", "loaded"}]
  BY Zenon, SMT, OnTheWay
<1>2. pc[r] \in {"begin", "insert", "assign"} /\ ~Serving(r) /\ wallet' = wallet
  BY Zenon, SMT DEF TxFails, getOrCreateLocalUser, createUserConflict, Serving, Querying
<1>3. CASE Rollback(r)
  BY Zenon, SMT, <1>1, <1>2, <1>3, RollbackInv
<1>4. CASE getOrCreateLocalUser(r)
  <2>1. pc[r] = "begin" /\ UNCHANGED <<row, rowLock, wallet, tokenCache, tries, accessClock, tracker, bump, bumps, faulty>>
    BY Zenon, SMT, <1>4 DEF getOrCreateLocalUser, db, others
  <2>2. rowLock # r /\ {"assign", "commit", "insert"} \subseteq Places
    BY Zenon, SMT, <2>1, NotLocking DEF Places, InFlight
  <2>3. CASE Visible(r)
    <3>1. row \in UserRow
      BY Zenon, SMT, <1>1, <2>3, RowFacts DEF Visible
    <3>2. PICK p \in {"assign", "commit"} : pc' = [pc EXCEPT ![r] = p]
      BY Zenon, SMT, <1>4, <2>3 DEF getOrCreateLocalUser, WalletGoto
    <3>3. me' = [me EXCEPT ![r] = row]
      BY Zenon, SMT, <1>4, <2>3 DEF getOrCreateLocalUser
    <3> QED BY Zenon, SMT, <1>1, <1>2, <2>1, <2>2, <3>1, <3>2, <3>3, GotoInv
  <2>4. CASE ~Visible(r)
    BY Zenon, SMT, <1>1, <1>2, <1>4, <2>1, <2>2, <2>4, GoOnInv DEF getOrCreateLocalUser
  <2> QED BY Zenon, SMT, <2>3, <2>4
<1>5. CASE createUserConflict(r) /\ tries[r] + 1 < TxMaxRetries
  <2>1. /\ tries' = [tries EXCEPT ![r] = tries[r] + 1] /\ WalletGoto(r, "begin") /\ pc[r] = "insert"
        /\ UNCHANGED <<row, rowLock, wallet, tokenCache, me, accessClock, tracker, bump, bumps, faulty>>
    BY Zenon, SMT, <1>5 DEF createUserConflict, db, others
  <2>2. tries[r] + 1 \in 0..(TxMaxRetries + WalletLoadRetries)
    <3>1. tries[r] \in 0..(TxMaxRetries + WalletLoadRetries)
      BY Zenon, SMT, <1>1
    <3> QED BY <1>5, <3>1, WalletAssumption
  <2>3. rowLock # r /\ "begin" \in Places
    BY Zenon, SMT, <2>1, NotLocking DEF Places, InFlight
  <2>4. tries' \in [UserRequests -> 0..(TxMaxRetries + WalletLoadRetries)]
    BY Zenon, SMT, <1>1, <2>1, <2>2
  <2> QED BY Zenon, SMT, <1>2, <2>1, <2>3, <2>4, GoOnInv
<1> QED BY Zenon, SMT, <1>3, <1>4, <1>5 DEF TxFails, createUserConflict

\* The row is inserted, with nobody else in the transaction.
LEMMA createUserInv ==
  ASSUME WalletInv, NEW r \in UserRequests, createUser(r)
  PROVE  WalletInv'
<1> DEFINE x == [server |-> NoServer, idp |-> r \in OAuth, seen |-> 0]
<1>1. /\ pc[r] = "insert" /\ row = NoRow /\ rowLock \in {NoRequest, r} /\ rowLock' = r
      /\ me' = [me EXCEPT ![r] = x] /\ pc' = [pc EXCEPT ![r] = "assign"]
      /\ UNCHANGED <<row, wallet, tokenCache, tries, accessClock, tracker, bump, bumps, faulty>>
  BY Zenon, SMT DEF createUser, Unlocked, WalletGoto, others
<1>2. x \in UserRow /\ x.seen = 0
  <2>1. NoServer \in ServerIds \cup {NoServer} /\ (r \in OAuth) \in BOOLEAN
    OBVIOUS
  <2>2. 0 \in Nat
    OBVIOUS
  <2> QED BY Zenon, SMT, <2>1, <2>2, RowMade
<1> HIDE DEF x
<1>3. /\ pc \in [UserRequests -> Places] /\ me \in [UserRequests -> UserRow \cup {NoRow}]
      /\ rowLock = NoRequest /\ NoRequest \notin UserRequests /\ accessClock \in Nat
  BY Zenon, SMT, <1>1, OnTheWay, NotLocking
<1>4. x.seen <= accessClock
  BY <1>2, <1>3
<1>5. WalletTypeOK'
  BY Zenon, SMT, <1>1, <1>2 DEF WalletInv, WalletTypeOK, Places, InFlight
<1>6. ASSUME NEW q \in UserRequests PROVE Locked(q)' /\ Located(q)'
  <2>1. Locked(q) /\ Located(q)
    BY Zenon, SMT DEF WalletInv
  <2>2. CASE q = r
    BY Zenon, SMT, <1>1, <1>2, <1>3, <1>4, <2>2 DEF Locked, Located
  <2>3. CASE q # r
    BY Zenon, SMT, <1>1, <1>3, <2>1, <2>3 DEF Locked, Located
  <2> QED BY Zenon, SMT, <2>2, <2>3
<1>7. Busy => Busy'
  BY Zenon, SMT, <1>1, <1>3 DEF Busy, Serving, Querying
<1>8. Selected' /\ Tracked'
  BY Zenon, SMT, <1>1, <1>7 DEF WalletInv, Selected, Tracked, Loaded
<1> QED BY Zenon, SMT, <1>5, <1>6, <1>8 DEF WalletInv

\* The row is taken for the assignment of a server.
LEMMA AssignInv ==
  ASSUME WalletInv, NEW r \in UserRequests, NEW s \in ServerIds, assignSDKServerToUser(r, s)
  PROVE  WalletInv'
<1> DEFINE x == [me[r] EXCEPT !.server = s]
<1>1. /\ pc[r] = "assign" /\ rowLock \in {NoRequest, r} /\ rowLock' = r
      /\ rowLock = r \/ (row # NoRow /\ row.server = NoServer)
      /\ me' = [me EXCEPT ![r].server = s] /\ pc' = [pc EXCEPT ![r] = "create"]
      /\ UNCHANGED <<row, wallet, tokenCache, tries, accessClock, tracker, bump, bumps, faulty>>
  BY Zenon, SMT DEF assignSDKServerToUser, Unlocked, WalletGoto, others
<1>2. /\ Locked(r) /\ Located(r) /\ me[r].seen <= accessClock
      /\ pc \in [UserRequests -> Places] /\ me \in [UserRequests -> UserRow \cup {NoRow}]
      /\ NoRequest \notin UserRequests
  BY Zenon, SMT, OnTheWay
<1>3. me[r] \in UserRow /\ (row = NoRow \/ row.server = NoServer)
  BY Zenon, SMT, <1>1, <1>2 DEF Locked, Located
<1>4. x \in UserRow /\ x.server = s /\ x.seen = me[r].seen
  BY Zenon, SMT, <1>3, RowServer
<1>5. me' = [me EXCEPT ![r] = x]
  BY Zenon, SMT, <1>1, <1>2
<1> HIDE DEF x
<1>6. WalletTypeOK'
  BY Zenon, SMT, <1>1, <1>4, <1>5 DEF WalletInv, WalletTypeOK, Places, InFlight
<1>7. ASSUME NEW q \in UserRequests PROVE Locked(q)' /\ Located(q)'
  <2>1. Locked(q) /\ Located(q)
    BY Zenon, SMT DEF WalletInv
  <2>2. CASE q = r
    BY Zenon, SMT, <1>1, <1>2, <1>3, <1>4, <1>5, <2>2 DEF Locked, Located
  <2>3. CASE q # r
    BY Zenon, SMT, <1>1, <1>2, <1>5, <2>1, <2>3 DEF Locked, Located
  <2> QED BY Zenon, SMT, <2>2, <2>3
<1>8. Busy => Busy'
  BY Zenon, SMT, <1>1, <1>2 DEF Busy, Serving, Querying
<1>9. Selected' /\ Tracked'
  BY Zenon, SMT, <1>1, <1>8 DEF WalletInv, Selected, Tracked, Loaded
<1> QED BY Zenon, SMT, <1>6, <1>7, <1>9 DEF WalletInv

\* Another transaction has assigned a server: this one has nothing to do.
LEMMA AssignedInv ==
  ASSUME WalletInv, NEW r \in UserRequests, alreadyAssigned(r)
  PROVE  WalletInv'
<1>1. /\ row \in UserRow \cup {NoRow} /\ row.seen <= accessClock /\ NoRequest \notin UserRequests
      /\ tries \in [UserRequests -> 0..(TxMaxRetries + WalletLoadRetries)]
      /\ wallet \in [ServerIds -> {"none", "unloaded", "loaded"}]
  BY Zenon, SMT, OnTheWay
<1>2. pc[r] = "assign" /\ rowLock = NoRequest /\ wallet' = wallet /\ ~Serving(r) /\ "commit" \in Places
  BY Zenon, SMT DEF alreadyAssigned, Serving, Querying, Places, InFlight
<1>3. CASE row = NoRow
  BY Zenon, SMT, <1>1, <1>2, <1>3, RollbackInv DEF alreadyAssigned
<1>4. CASE row # NoRow
  <2>1. /\ row \in UserRow /\ me' = [me EXCEPT ![r] = row] /\ pc' = [pc EXCEPT ![r] = "commit"]
        /\ UNCHANGED <<row, rowLock, tokenCache, tries, accessClock, tracker, bump, bumps, faulty>>
    BY Zenon, SMT, <1>1, <1>4, RowFacts DEF alreadyAssigned, WalletGoto, db, others
  <2> QED BY Zenon, SMT, <1>1, <1>2, <2>1, GotoInv
<1> QED BY Zenon, SMT, <1>3, <1>4

\* The wallet is created where the row does not point yet.
LEMMA CreateInv ==
  ASSUME WalletInv, NEW r \in UserRequests, Create(r)
  PROVE  WalletInv'
<1> DEFINE s == me[r].server
           w == [wallet EXCEPT ![s] = "loaded"]
<1>1. /\ pc[r] = "create" /\ Locked(r) /\ Located(r)
      /\ wallet \in [ServerIds -> {"none", "unloaded", "loaded"}]
      /\ pc \in [UserRequests -> Places] /\ row \in UserRow \cup {NoRow}
  BY Zenon, SMT, OnTheWay DEF Create
<1>2. rowLock = r /\ s \in ServerIds /\ me[r] \in UserRow
  BY Zenon, SMT, <1>1 DEF Located
<1>3. row.server \notin ServerIds /\ ~Serving(r)
  BY Zenon, SMT, <1>1, <1>2, NoRowFacts, ServerFacts DEF Locked, Serving, Querying
<1> HIDE DEF s
<1>4. /\ w \in [ServerIds -> {"none", "unloaded", "loaded"}] /\ w[s] = "loaded"
      /\ \A i \in ServerIds : wallet[i] # "none" => w[i] # "none"
  BY Zenon, SMT, <1>1, <1>2
<1> HIDE DEF w
<1>5. CASE wallet' \in {wallet, w} /\ Rollback(r)
  BY Zenon, SMT, <1>1, <1>3, <1>4, <1>5, RollbackInv
<1>6. CASE wallet' = w /\ WalletGoto(r, "commit") /\ UNCHANGED <<db, tokenCache, me, tries, accessClock, others>>
  <2>1. /\ pc' = [pc EXCEPT ![r] = "commit"]
        /\ UNCHANGED <<row, rowLock, tokenCache, me, tries, accessClock, tracker, bump, bumps, faulty>>
    BY Zenon, SMT, <1>6 DEF WalletGoto, db, others
  <2>2. WalletTypeOK'
    BY Zenon, SMT, <1>4, <1>6, <2>1 DEF WalletInv, WalletTypeOK, Places, InFlight
  <2>3. ASSUME NEW q \in UserRequests PROVE Locked(q)' /\ Located(q)'
    <3>1. Locked(q) /\ Located(q) /\ me[q] \in UserRow \cup {NoRow}
      BY Zenon, SMT, OnTheWay
    <3>2. CASE q = r
      BY Zenon, SMT, <1>1, <1>2, <1>4, <1>6, <2>1, <3>2 DEF Locked, Located, s
    <3>3. CASE q # r
      BY Zenon, SMT, <1>1, <1>2, <1>4, <1>6, <2>1, <3>1, <3>3 DEF Locked, Located
    <3> QED BY Zenon, SMT, <3>2, <3>3
  <2>4. Busy => Busy'
    BY Zenon, SMT, <1>1, <2>1 DEF Busy, Serving, Querying
  <2>5. ~Loaded'
    BY Zenon, SMT, <1>1, <1>3, <2>1, RowFacts DEF Loaded
  <2>6. Selected' /\ Tracked'
    BY Zenon, SMT, <1>3, <2>1, <2>4, <2>5 DEF WalletInv, Selected, Tracked
  <2> QED BY Zenon, SMT, <2>2, <2>3, <2>6 DEF WalletInv
<1> QED BY Zenon, SMT, <1>5, <1>6 DEF Create, w, s

\* The transaction is committed: the server it assigns has a wallet.
LEMMA CommitInv ==
  ASSUME WalletInv, NEW r \in UserRequests, Commit(r)
  PROVE  WalletInv'
<1>1. /\ pc[r] = "commit" /\ wallet' = wallet /\ Locked(r) /\ Located(r) /\ me[r].seen <= accessClock
      /\ wallet \in [ServerIds -> {"none", "unloaded", "loaded"}] /\ row \in UserRow \cup {NoRow}
      /\ row.seen <= accessClock
      /\ bumps = 0 /\ row.server \in ServerIds => wallet[row.server] # "none"
  BY Zenon, SMT, OnTheWay DEF Commit
<1>2. me[r] \in UserRow /\ ~Serving(r)
  BY Zenon, SMT, <1>1 DEF Located, Serving, Querying
<1>3. CASE Rollback(r)
  BY Zenon, SMT, <1>1, <1>2, <1>3, RollbackInv
<1>4. CASE Accept(r, me[r]) /\ rowLock # r /\ UNCHANGED <<db, accessClock, others>>
  BY Zenon, SMT, <1>1, <1>2, <1>4, AcceptInv DEF db, others
<1>5. CASE Accept(r, me[r]) /\ rowLock = r /\ row' = Committed(r) /\ rowLock' = NoRequest
           /\ UNCHANGED <<accessClock, others>>
  <2>1. me[r].server \in ServerIds /\ wallet[me[r].server] # "none"
    BY Zenon, SMT, <1>1, <1>5 DEF Locked
  <2>2. row' \in UserRow /\ row'.server = me[r].server /\ row'.seen <= accessClock
    <3>1. CASE row = NoRow
      BY Zenon, SMT, <1>1, <1>2, <1>5, <3>1 DEF Committed
    <3>2. CASE row # NoRow
      <4>1. row \in UserRow /\ row' = [row EXCEPT !.server = me[r].server]
        BY Zenon, SMT, <1>1, <1>5, <3>2 DEF Committed
      <4> QED BY Zenon, SMT, <1>1, <2>1, <4>1, RowServer
    <3> QED BY Zenon, SMT, <3>1, <3>2
  <2> QED BY Zenon, SMT, <1>1, <1>2, <1>5, <2>1, <2>2, AcceptInv DEF others
<1> QED BY Zenon, SMT, <1>3, <1>4, <1>5 DEF Commit

-----------------------------------------------------------------------------
(* The query and what follows it.                                          *)

\* The query is sent, with the server that the request knows.
LEMMA SendQueryInv ==
  ASSUME WalletInv, NEW r \in UserRequests, SendUserQuery(r)
  PROVE  WalletInv'
<1>1. /\ pc[r] = "send" /\ me[r] \in UserRow \cup {NoRow}
      /\ tries \in [UserRequests -> 0..(TxMaxRetries + WalletLoadRetries)]
  BY Zenon, SMT, OnTheWay DEF SendUserQuery
<1>2. /\ UNCHANGED <<row, rowLock, wallet, tokenCache, me, tries, accessClock, tracker, bump, bumps, faulty>>
      /\ WalletGoto(r, "touch") \/ (WalletGoto(r, "load") /\ me[r].server # NoServer)
  BY Zenon, SMT DEF SendUserQuery, db, others
<1>3. me[r].server \in ServerIds \cup {NoServer} /\ rowLock # r
  BY Zenon, SMT, <1>1, RowFacts, NotLocking
<1>4. "touch" \in Places /\ "load" \in Places /\ {"touch", "load"} \subseteq Querying
  BY Zenon, SMT DEF Places, Querying
<1> QED BY Zenon, SMT, <1>1, <1>2, <1>3, <1>4, GoOnInv

\* The wallet is loaded, or not, and the request tries again, gives up or goes on.
LEMMA LoadWalletInv ==
  ASSUME WalletInv, NEW r \in UserRequests, LoadWallet(r)
  PROVE  WalletInv'
<1> DEFINE s == me[r].server
           w == [wallet EXCEPT ![s] = "loaded"]
<1>1. /\ pc[r] = "load" /\ Located(r) /\ rowLock # r
      /\ wallet \in [ServerIds -> {"none", "unloaded", "loaded"}]
      /\ pc \in [UserRequests -> Places] /\ row \in UserRow \cup {NoRow}
      /\ tries \in [UserRequests -> 0..(TxMaxRetries + WalletLoadRetries)]
      /\ bumps = 0 /\ row.server \in ServerIds => wallet[row.server] # "none"
  BY Zenon, SMT, OnTheWay, NotLocking DEF LoadWallet
<1>2. s \in ServerIds
  BY Zenon, SMT, <1>1 DEF Located
<1>3. /\ UNCHANGED <<row, rowLock, tokenCache, me, accessClock, tracker, bump, bumps, faulty>>
      /\ LoadedOrRetry(r, TRUE) \/ LoadedOrRetry(r, FALSE)
      /\ wallet' \in {wallet, w}
  BY Zenon, SMT DEF LoadWallet, db, others
<1> HIDE DEF s
<1>4. /\ wallet' \in [ServerIds -> {"none", "unloaded", "loaded"}]
      /\ \A i \in ServerIds : wallet[i] # "none" => wallet'[i] # "none"
  BY Zenon, SMT, <1>1, <1>2, <1>3
<1> HIDE DEF w
<1>5. PICK place \in {"send", "delete", "touch"} : pc' = [pc EXCEPT ![r] = place]
  BY Zenon, SMT, <1>3 DEF LoadedOrRetry, WalletGoto
<1>6. tries' \in [UserRequests -> 0..(TxMaxRetries + WalletLoadRetries)]
  <2>1. CASE tries' = tries
    BY Zenon, SMT, <1>1, <2>1
  <2>2. CASE tries' = [tries EXCEPT ![r] = tries[r] + 1] /\ tries[r] + 1 < WalletLoadRetries
    <3>1. tries[r] + 1 \in 0..(TxMaxRetries + WalletLoadRetries)
      <4>1. tries[r] \in 0..(TxMaxRetries + WalletLoadRetries)
        BY Zenon, SMT, <1>1
      <4> QED BY <2>2, <4>1, WalletAssumption
    <3> QED BY Zenon, SMT, <1>1, <2>2, <3>1
  <2> QED BY Zenon, SMT, <1>3, <2>1, <2>2 DEF LoadedOrRetry
<1>7. WalletTypeOK'
  BY Zenon, SMT, <1>3, <1>4, <1>5, <1>6 DEF WalletInv, WalletTypeOK, Places, Querying
<1>8. ASSUME NEW q \in UserRequests PROVE Locked(q)' /\ Located(q)'
  <2>1. Locked(q) /\ Located(q) /\ me[q] \in UserRow \cup {NoRow}
    BY Zenon, SMT, OnTheWay
  <2>2. CASE q = r
    BY Zenon, SMT, <1>1, <1>3, <1>5, <2>1, <2>2 DEF Locked, Located
  <2>3. CASE q # r
    BY Zenon, SMT, <1>1, <1>3, <1>4, <1>5, <2>1, <2>3 DEF Locked, Located
  <2> QED BY Zenon, SMT, <2>2, <2>3
<1>9. Busy'
  BY Zenon, SMT, <1>1, <1>5 DEF Busy, Serving, Querying
<1>10. Selected' /\ Tracked'
  BY Zenon, SMT, <1>1, <1>3, <1>4, <1>9 DEF WalletInv, Selected, Tracked
<1> QED BY Zenon, SMT, <1>7, <1>8, <1>10 DEF WalletInv

\* The user is deleted: the request has still to record its access.
LEMMA DeleteUserInv ==
  ASSUME WalletInv, NEW r \in UserRequests, DeleteUser(r)
  PROVE  WalletInv'
<1>1. /\ pc[r] = "delete" /\ rowLock = NoRequest /\ row' \in {row, NoRow}
      /\ pc' = [pc EXCEPT ![r] = "touch"]
      /\ UNCHANGED <<rowLock, wallet, tokenCache, me, tries, accessClock, tracker, bump, bumps, faulty>>
  BY Zenon, SMT DEF DeleteUser, WalletGoto, others
<1>2. /\ pc \in [UserRequests -> Places] /\ NoRequest \notin UserRequests /\ accessClock \in Nat
      /\ bumps = 0 /\ row.server \in ServerIds => wallet[row.server] # "none"
      /\ row.seen <= accessClock
  BY Zenon, SMT, OnTheWay
<1>3. NoRow.server \notin ServerIds /\ NoRow.seen <= accessClock
  BY <1>2, NoRowFacts, ServerFacts
<1>4. WalletTypeOK'
  BY Zenon, SMT, <1>1 DEF WalletInv, WalletTypeOK, Places, Querying
<1>5. ASSUME NEW q \in UserRequests PROVE Locked(q)' /\ Located(q)'
  <2>1. Located(q)
    BY Zenon, SMT, OnTheWay
  <2> QED BY Zenon, SMT, <1>1, <1>2, <2>1 DEF Locked, Located
<1>6. Busy'
  BY Zenon, SMT, <1>1, <1>2 DEF Busy, Serving, Querying
<1>7. Selected' /\ Tracked'
  BY Zenon, SMT, <1>1, <1>2, <1>3, <1>6 DEF WalletInv, Selected, Tracked
<1> QED BY Zenon, SMT, <1>4, <1>5, <1>7 DEF WalletInv

\* The access is recorded: its time is later than any that the tracker has read.
LEMMA TouchInv ==
  ASSUME WalletInv, NEW r \in UserRequests, Touch(r)
  PROVE  WalletInv'
<1>1. /\ pc[r] = "touch" /\ rowLock = NoRequest /\ accessClock \in Nat /\ row \in UserRow \cup {NoRow}
      /\ UNCHANGED <<rowLock, wallet, tokenCache, me, tries, tracker, bump, bumps, faulty>>
      /\ pc \in [UserRequests -> Places] /\ me \in [UserRequests -> UserRow \cup {NoRow}]
      /\ NoRequest \notin UserRequests
  BY Zenon, SMT, OnTheWay DEF Touch, others
<1>2. CASE WalletGoto(r, "untouched") /\ UNCHANGED <<row, accessClock>>
  <2>1. "untouched" \in Places /\ rowLock # r
    BY Zenon, SMT, <1>1 DEF Places
  <2>2. tries \in [UserRequests -> 0..(TxMaxRetries + WalletLoadRetries)]
    BY Zenon, SMT, OnTheWay
  <2> QED BY Zenon, SMT, <1>1, <1>2, <2>1, <2>2, GoOnInv
<1>3. CASE /\ row' = IF row = NoRow THEN NoRow ELSE [row EXCEPT !.seen = accessClock + 1]
           /\ accessClock' = accessClock + 1
           /\ WalletGoto(r, "done")
  <2>1. accessClock' \in Nat /\ accessClock + 1 \in Nat /\ 0 <= accessClock /\ accessClock < accessClock'
    BY <1>1, <1>3
  <2>2. /\ row' \in UserRow \cup {NoRow} /\ row'.server = row.server
        /\ row' = NoRow \/ (row # NoRow /\ row'.seen = accessClock')
    <3>1. CASE row = NoRow
      BY Zenon, SMT, <1>3, <3>1
    <3>2. CASE row # NoRow
      <4>1. row \in UserRow /\ row' = [row EXCEPT !.seen = accessClock + 1]
        BY Zenon, SMT, <1>1, <1>3, <3>2
      <4> QED BY Zenon, SMT, <1>3, <2>1, <3>2, <4>1, RowSeen
    <3> QED BY Zenon, SMT, <3>1, <3>2
  <2>3. pc' = [pc EXCEPT ![r] = "done"]
    BY Zenon, SMT, <1>3 DEF WalletGoto
  <2>4. WalletTypeOK'
    BY Zenon, SMT, <1>1, <2>1, <2>2, <2>3 DEF WalletInv, WalletTypeOK, Places
  <2>5. ASSUME NEW q \in UserRequests PROVE Locked(q)' /\ Located(q)'
    <3>1. Located(q) /\ me[q] \in UserRow \cup {NoRow}
      BY Zenon, SMT, OnTheWay
    <3>2. me[q].seen \in Int /\ me[q].seen <= accessClock
      BY Zenon, SMT, <3>1, RowFacts DEF Located
    <3>3. me[q].seen <= accessClock'
      BY <1>1, <2>1, <3>2
    <3> QED BY Zenon, SMT, <1>1, <2>3, <3>1, <3>3 DEF Locked, Located
  <2>6. /\ tracker.row.seen \in Int /\ bump.row.seen \in Int
        /\ tracker.row.seen <= accessClock /\ bump.row.seen <= accessClock
    <3>1. tracker.row \in UserRow \cup {NoRow} /\ bump.row \in UserRow \cup {NoRow}
      BY Zenon, SMT DEF WalletInv, WalletTypeOK
    <3> QED BY Zenon, SMT, <3>1, RowFacts DEF WalletInv, Selected
  <2>7. /\ tracker.row.seen < accessClock' /\ tracker.row.seen <= accessClock' /\ bump.row.seen <= accessClock'
        /\ NoRow.seen <= accessClock' /\ accessClock' <= accessClock' /\ accessClock' # 0
        /\ tracker.row.seen # accessClock'
    BY <1>1, <2>1, <2>6, NoRowFacts
  <2>8. Selected'
    BY Zenon, SMT, <1>1, <2>2, <2>7 DEF WalletInv, Selected
  <2>9. Tracked'
    BY Zenon, SMT, <1>1, <2>2, <2>7 DEF WalletInv, Tracked, Loaded
  <2> QED BY Zenon, SMT, <2>4, <2>5, <2>8, <2>9 DEF WalletInv
<1> QED BY Zenon, SMT, <1>2, <1>3 DEF Touch

-----------------------------------------------------------------------------
(* The token cache, the tracker and the operator.                          *)

\* The requests stay where they are; wallets are not taken away.
LEMMA AsideInv ==
  ASSUME WalletInv, UNCHANGED <<pc, me, tries, rowLock, accessClock, faulty>>,
         row' = row \/ rowLock = NoRequest, row' \in UserRow \cup {NoRow},
         wallet' \in [ServerIds -> {"none", "unloaded", "loaded"}],
         \A i \in ServerIds : wallet[i] # "none" => wallet'[i] # "none",
         tokenCache' \in [Processes -> {Miss, NoUser, NoServer} \cup ServerIds],
         tracker' \in [step : {"idle", "unload", "mark"}, row : UserRow \cup {NoRow}],
         bump' \in [step : {"idle", "update", "load", "unload"}, row : UserRow \cup {NoRow}],
         bumps' \in 0..MaxBumps, bumps' = 0 => bumps = 0,
         Selected', Tracked'
  PROVE  WalletInv'
<1>1. WalletTypeOK'
  BY Zenon, SMT DEF WalletInv, WalletTypeOK
<1>2. ASSUME NEW q \in UserRequests PROVE Locked(q)' /\ Located(q)'
  <2>1. Locked(q) /\ Located(q) /\ NoRequest \notin UserRequests
    BY Zenon, SMT, OnTheWay
  <2> QED BY Zenon, SMT, <2>1 DEF Locked, Located
<1> QED BY Zenon, SMT, <1>1, <1>2 DEF WalletInv

\* Types of what they use.
LEMMA AsideTypes ==
  ASSUME WalletInv
  PROVE  /\ row \in UserRow \cup {NoRow} /\ accessClock \in Nat
         /\ wallet \in [ServerIds -> {"none", "unloaded", "loaded"}]
         /\ tokenCache \in [Processes -> {Miss, NoUser, NoServer} \cup ServerIds]
         /\ tracker \in [step : {"idle", "unload", "mark"}, row : UserRow \cup {NoRow}]
         /\ bump \in [step : {"idle", "update", "load", "unload"}, row : UserRow \cup {NoRow}]
         /\ bumps \in 0..MaxBumps /\ Selected /\ Tracked
  BY Zenon, SMT DEF WalletInv, WalletTypeOK

\* An entry of the token cache is dropped.
LEMMA CacheExpiresInv ==
  ASSUME WalletInv, NEW p \in Processes, CacheExpires(p)
  PROVE  WalletInv'
<1>1. /\ tokenCache' = [tokenCache EXCEPT ![p] = Miss]
      /\ UNCHANGED <<row, rowLock, wallet, pc, me, tries, accessClock, tracker, bump, bumps, faulty>>
  BY Zenon, SMT DEF CacheExpires, db, request, others
<1>2. tokenCache' \in [Processes -> {Miss, NoUser, NoServer} \cup ServerIds]
  BY Zenon, SMT, <1>1, AsideTypes
<1>3. Selected' /\ Tracked'
  BY Zenon, SMT, <1>1, AsideTypes DEF Selected, Tracked, Loaded, Busy, Serving
<1> QED BY Zenon, SMT, <1>1, <1>2, <1>3, AsideTypes, AsideInv

\* tracker.Unload: it clears the access time it has read only if the wallet it has
\* unloaded is still the user's, and has not been used since.
LEMMA UnloadInv ==
  ASSUME WalletInv, Unload
  PROVE  WalletInv'
<1>1. /\ row \in UserRow \cup {NoRow} /\ wallet \in [ServerIds -> {"none", "unloaded", "loaded"}]
      /\ tracker \in [step : {"idle", "unload", "mark"}, row : UserRow \cup {NoRow}]
      /\ Selected /\ Tracked /\ accessClock \in Nat
  BY Zenon, SMT, AsideTypes
<1>2. /\ UNCHANGED <<pc, me, tries, rowLock, tokenCache, accessClock, bump, bumps, faulty>>
      /\ Busy => Busy'
  BY Zenon, SMT DEF Unload, SelectIdle, UnloadWallet, MarkUnloaded, db, request, Busy, Serving
<1>3. row.server \in ServerIds \cup {NoServer} /\ (row # NoRow => row \in UserRow) /\ NoServer \notin ServerIds
  BY Zenon, SMT, <1>1, RowFacts, ServerFacts
<1>4. CASE SelectIdle
  <2>1. /\ tracker' = [step |-> "unload", row |-> row] /\ row # NoRow /\ row.server # NoServer /\ row.seen > 0
        /\ row' = row /\ wallet' = wallet
    BY Zenon, SMT, <1>4 DEF SelectIdle, db
  <2>2. /\ tracker' \in [step : {"idle", "unload", "mark"}, row : UserRow \cup {NoRow}]
        /\ tracker'.row = row /\ tracker'.step = "unload"
    BY Zenon, SMT, <1>1, <2>1
  <2>3. Selected' /\ Tracked'
    BY Zenon, SMT, <1>1, <1>2, <1>3, <2>1, <2>2 DEF Selected, Tracked, Loaded
  <2> QED BY Zenon, SMT, <1>1, <1>2, <2>1, <2>2, <2>3, AsideTypes, AsideInv
<1>5. CASE UnloadWallet
  <2> DEFINE s == tracker.row.server
             w == [wallet EXCEPT ![s] = "unloaded"]
  <2>1. /\ tracker.step = "unload" /\ row' = row
        /\ \/ wallet' = w /\ tracker' = [tracker EXCEPT !.step = "mark"] /\ wallet[s] = "loaded"
           \/ wallet' \in {w, wallet} /\ tracker' = [tracker EXCEPT !.step = "idle"] /\ wallet[s] = "loaded"
           \/ wallet' = wallet /\ tracker' = [tracker EXCEPT !.step = "idle"]
    BY Zenon, SMT, <1>5 DEF UnloadWallet, db
  <2>2. s \in ServerIds
    BY Zenon, SMT, <1>1, <2>1 DEF Selected
  <2> HIDE DEF s
  <2>3. /\ wallet' \in [ServerIds -> {"none", "unloaded", "loaded"}]
        /\ \A i \in ServerIds : wallet[i] # "none" => wallet'[i] # "none"
        /\ \A i \in ServerIds : wallet'[i] = "loaded" => wallet[i] = "loaded"
        /\ wallet' = w => wallet'[s] = "unloaded"
    BY Zenon, SMT, <1>1, <2>1, <2>2
  <2> HIDE DEF w
  <2>4. /\ tracker' \in [step : {"idle", "unload", "mark"}, row : UserRow \cup {NoRow}]
        /\ tracker'.row = tracker.row
        /\ tracker'.step = "idle" \/ (tracker'.step = "mark" /\ wallet' = w)
    BY Zenon, SMT, <1>1, <2>1
  <2>5. Loaded' => Loaded
    BY Zenon, SMT, <1>3, <2>1, <2>3 DEF Loaded
  <2>6. Selected'
    BY Zenon, SMT, <1>1, <1>2, <2>1, <2>4 DEF Selected
  <2>7. ASSUME bumps' = 0, tracker'.step = "mark", Loaded', row'.seen = tracker'.row.seen
        PROVE  Busy'
    <3>1. wallet'[s] = "unloaded" /\ row # NoRow /\ row.seen = tracker.row.seen /\ wallet'[row.server] = "loaded"
      BY Zenon, SMT, <2>1, <2>3, <2>4, <2>7 DEF Loaded
    <3>2. row.server = s \/ Busy
      BY Zenon, SMT, <1>1, <1>2, <2>1, <2>7, <3>1 DEF Tracked, s
    <3> QED BY Zenon, SMT, <1>2, <3>1, <3>2
  <2>8. Tracked'
    BY Zenon, SMT, <1>1, <1>2, <2>1, <2>3, <2>4, <2>5, <2>7 DEF Tracked
  <2> QED BY Zenon, SMT, <1>1, <1>2, <2>1, <2>3, <2>4, <2>6, <2>8, AsideTypes, AsideInv
<1>6. CASE MarkUnloaded
  <2>1. /\ tracker.step = "mark" /\ rowLock = NoRequest /\ wallet' = wallet
        /\ tracker' = [tracker EXCEPT !.step = "idle"]
        /\ row' = row \/ (row' = [row EXCEPT !.seen = 0] /\ row # NoRow /\ row.seen = tracker.row.seen)
    BY Zenon, SMT, <1>6 DEF MarkUnloaded, Untouched
  <2>2. /\ tracker' \in [step : {"idle", "unload", "mark"}, row : UserRow \cup {NoRow}]
        /\ tracker'.row = tracker.row /\ tracker'.step = "idle"
    BY Zenon, SMT, <1>1, <2>1
  <2>3. CASE row' = row
    <3>1. Selected' /\ Tracked'
      BY Zenon, SMT, <1>1, <1>2, <2>1, <2>2, <2>3 DEF Selected, Tracked, Loaded
    <3> QED BY Zenon, SMT, <1>1, <1>2, <2>1, <2>2, <2>3, <3>1, AsideTypes, AsideInv
  <2>4. CASE row' = [row EXCEPT !.seen = 0] /\ row # NoRow /\ row.seen = tracker.row.seen
    <3>1. 0 \in Nat /\ 0 <= accessClock
      BY <1>1
    <3>2. row' \in UserRow /\ row'.server = row.server /\ row'.seen = 0 /\ row' # NoRow
      BY Zenon, SMT, <1>3, <2>4, <3>1, RowSeen
    <3>3. Loaded' => Loaded
      BY Zenon, SMT, <2>1, <2>4, <3>2 DEF Loaded
    <3>4. Selected' /\ Tracked'
      BY Zenon, SMT, <1>1, <1>2, <2>1, <2>2, <2>4, <3>1, <3>2, <3>3 DEF Selected, Tracked
    <3> QED BY Zenon, SMT, <1>1, <1>2, <2>1, <2>2, <3>2, <3>4, AsideTypes, AsideInv
  <2> QED BY Zenon, SMT, <2>1, <2>3, <2>4
<1> QED BY Zenon, SMT, <1>4, <1>5, <1>6 DEF Unload

\* The next server is a server.
LEMMA BumpIDFact ==
  ASSUME NEW s \in ServerIds
  PROVE  BumpID(s) \in ServerIds
  BY WalletAssumption DEF BumpID, ServerIds

\* BumpSDK: from its first step on there has been a move.
LEMMA BumpInv ==
  ASSUME WalletInv, BumpSDK
  PROVE  WalletInv'
<1>1. /\ row \in UserRow \cup {NoRow} /\ wallet \in [ServerIds -> {"none", "unloaded", "loaded"}]
      /\ bump \in [step : {"idle", "update", "load", "unload"}, row : UserRow \cup {NoRow}]
      /\ Selected /\ accessClock \in Nat /\ bumps \in 0..MaxBumps /\ MaxBumps \in Nat
  BY Zenon, SMT, AsideTypes, WalletAssumption
<1>2. UNCHANGED <<pc, me, tries, rowLock, tokenCache, accessClock, tracker, faulty>>
  BY Zenon, SMT DEF BumpSDK, BumpRead, BumpUpdate, BumpLoad, BumpUnload, db, request
<1>3. CASE BumpRead
  <2>1. /\ bump' = [step |-> "update", row |-> row] /\ row # NoRow /\ row.server # NoServer
        /\ bumps' = bumps + 1 /\ bumps < MaxBumps /\ row' = row /\ wallet' = wallet
    BY Zenon, SMT, <1>3 DEF BumpRead, db
  <2>2. /\ bump' \in [step : {"idle", "update", "load", "unload"}, row : UserRow \cup {NoRow}]
        /\ bump'.row = row /\ row \in UserRow /\ row.server \in ServerIds
    BY Zenon, SMT, <1>1, <2>1, RowFacts
  <2>3. bumps' \in 0..MaxBumps /\ bumps' > 0 /\ bumps' # 0
    BY <1>1, <2>1
  <2>4. Selected' /\ Tracked'
    BY Zenon, SMT, <1>1, <1>2, <2>1, <2>2, <2>3 DEF Selected, Tracked
  <2> QED BY Zenon, SMT, <1>1, <1>2, <2>1, <2>2, <2>3, <2>4, AsideTypes, AsideInv
<1>4. CASE BumpUpdate \/ BumpLoad \/ BumpUnload
  <2> DEFINE s == bump.row.server
             t == BumpID(s)
  <2>1. bump.step # "idle" /\ bumps' = bumps
    BY Zenon, SMT, <1>4 DEF BumpUpdate, BumpLoad, BumpUnload
  <2>2. s \in ServerIds /\ bump.row \in UserRow /\ bumps > 0
    BY Zenon, SMT, <1>1, <2>1 DEF Selected
  <2>3. t \in ServerIds /\ bumps # 0
    BY <1>1, <2>2, BumpIDFact
  <2>4. \/ row' = row \/ (row' = NoRow /\ rowLock = NoRequest)
        \/ (row' = [bump.row EXCEPT !.server = t] /\ rowLock = NoRequest)
    BY Zenon, SMT, <1>4 DEF BumpUpdate, BumpLoad, BumpUnload, db
  <2>5. \/ wallet' = wallet
        \/ wallet' = [wallet EXCEPT ![t] = IF wallet[t] = "none" THEN wallet[t] ELSE "loaded"]
        \/ wallet' = [wallet EXCEPT ![s] = IF wallet[s] = "none" THEN wallet[s] ELSE "unloaded"]
    BY Zenon, SMT, <1>4 DEF BumpUpdate, BumpLoad, BumpUnload
  <2>6. /\ bump' \in [step : {"idle", "update", "load", "unload"}, row : UserRow \cup {NoRow}]
        /\ bump'.row = bump.row
    BY Zenon, SMT, <1>1, <1>4 DEF BumpUpdate, BumpLoad, BumpUnload
  <2> HIDE DEF s, t
  <2>7. /\ wallet' \in [ServerIds -> {"none", "unloaded", "loaded"}]
        /\ \A i \in ServerIds : wallet[i] # "none" => wallet'[i] # "none"
    BY Zenon, SMT, <1>1, <2>2, <2>3, <2>5
  <2>8. row' \in UserRow \cup {NoRow} /\ row'.seen <= accessClock
    <3>1. CASE row' = row
      BY Zenon, SMT, <1>1, <3>1 DEF Selected
    <3>2. CASE row' = NoRow
      <4>1. NoRow.seen <= accessClock
        BY <1>1, NoRowFacts
      <4> QED BY Zenon, SMT, <3>2, <4>1
    <3>3. CASE row' = [bump.row EXCEPT !.server = t]
      <4>1. t \in ServerIds \cup {NoServer} /\ bump.row.seen <= accessClock
        BY Zenon, SMT, <1>1, <2>3 DEF Selected
      <4> QED BY Zenon, SMT, <2>2, <3>3, <4>1, RowServer
    <3> QED BY Zenon, SMT, <2>4, <3>1, <3>2, <3>3
  <2>9. Selected' /\ Tracked'
    BY Zenon, SMT, <1>1, <1>2, <2>1, <2>2, <2>3, <2>6, <2>8 DEF Selected, Tracked, s
  <2> QED BY Zenon, SMT, <1>1, <1>2, <2>1, <2>3, <2>4, <2>6, <2>7, <2>8, <2>9, AsideTypes, AsideInv
<1> QED BY Zenon, SMT, <1>3, <1>4 DEF BumpSDK

-----------------------------------------------------------------------------
(* The theorems.                                                           *)

\* Every step keeps the invariant.
LEMMA WalletStep == WalletInv /\ [WalletNext]_walletVars => WalletInv'
<1> SUFFICES ASSUME WalletInv, [WalletNext]_walletVars PROVE WalletInv'
  OBVIOUS
<1>1. ASSUME NEW r \in Legacy, CacheHit(r) \/ CacheMiss(r) \/ GetRemoteUserLegacy(r) PROVE WalletInv'
  BY Zenon, SMT, <1>1, CacheInv
<1>2. ASSUME NEW r \in UserRequests, Authenticate(r) PROVE WalletInv'
  BY Zenon, SMT, <1>2, OAuthInv, SetIdpIDInv, BeginInv, createUserInv, AssignInv, AssignedInv, CreateInv, CommitInv
     DEF Authenticate
<1>3. ASSUME NEW r \in UserRequests, Serve(r) PROVE WalletInv'
  BY Zenon, SMT, <1>3, SendQueryInv, LoadWalletInv, DeleteUserInv, TouchInv DEF Serve
<1>4. CASE UNCHANGED walletVars
  BY Zenon, SMT, <1>4 DEF walletVars, WalletInv, WalletTypeOK, Locked, Located, Selected, Tracked,
     Loaded, Busy, Serving
<1> QED BY Zenon, SMT, <1>1, <1>2, <1>3, <1>4, CacheExpiresInv, UnloadInv, BumpInv DEF WalletNext

\* The invariant holds throughout.
LEMMA WalletInvariance == WalletSpec => []WalletInv
  BY WalletInitInv, WalletStep, PTL DEF WalletSpec

\* A user with a server has a wallet there, and a loaded wallet has an access time
\* or a request that is about to set it: getOrCreateLocalUser, assignSDKServerToUser,
\* Create and inTx on one side, tracker.Unload on the other, for any number of
\* requests, processes, servers and retries.
THEOREM WalletSafety == WalletSpec => []WalletSafe
<1>1. ASSUME WalletInv PROVE WalletSafe
  <2>1. row.server \in ServerIds \cup {NoServer}
    BY Zenon, SMT, <1>1, AsideTypes, RowFacts
  <2>2. AssignedHasWallet
    BY Zenon, SMT, <1>1, <2>1 DEF WalletInv, Tracked, AssignedHasWallet
  <2>3. LoadedIsTracked
    BY Zenon, SMT, <1>1 DEF WalletInv, Tracked, LoadedIsTracked, Busy, Serving
  <2> QED BY Zenon, SMT, <1>1, <2>2, <2>3 DEF WalletInv, WalletSafe
<1> QED BY <1>1, WalletInvariance, PTL

\* What a step does to the row of the user.
LEMMA RowStep ==
  ASSUME WalletInv, [WalletNext]_walletVars
  PROVE  \/ row' = row \/ row' = NoRow
         \/ row # NoRow /\ row'.server = row.server
         \/ row'.server \in ServerIds /\ (row = NoRow \/ row.server = NoServer)
         \/ BumpUpdate /\ row # NoRow /\ row'.server \in ServerIds
         \/ row # NoRow /\ \E r \in OAuth : SetIdpID(r)
<1> DEFINE Goal == \/ row' = row \/ row' = NoRow
                   \/ row # NoRow /\ row'.server = row.server
                   \/ row'.server \in ServerIds /\ (row = NoRow \/ row.server = NoServer)
                   \/ BumpUpdate /\ row # NoRow /\ row'.server \in ServerIds
                   \/ row # NoRow /\ \E r \in OAuth : SetIdpID(r)
<1>1. row # NoRow => row \in UserRow
  BY Zenon, SMT, AsideTypes
<1>2. ASSUME NEW r \in UserRequests, SetIdpID(r) PROVE Goal
  BY Zenon, SMT, <1>2, OnTheWay DEF SetIdpID, Located
<1>3. ASSUME NEW r \in UserRequests, Commit(r) PROVE Goal
  <2>1. CASE rowLock = r /\ row' = Committed(r)
    <3>1. me[r].server \in ServerIds /\ (row = NoRow \/ row.server = NoServer)
      BY Zenon, SMT, <1>3, <2>1, OnTheWay DEF Commit, Locked
    <3>2. row'.server = me[r].server
      <4>1. row # NoRow => [row EXCEPT !.server = me[r].server].server = me[r].server
        BY Zenon, SMT, <1>1, <3>1, RowServer
      <4> QED BY Zenon, SMT, <2>1, <4>1 DEF Committed
    <3> QED BY Zenon, SMT, <3>1, <3>2
  <2>2. CASE row' = row
    BY Zenon, SMT, <2>2
  <2> QED BY Zenon, SMT, <1>3, <2>1, <2>2 DEF Commit, Rollback, db
<1>4. ASSUME NEW r \in UserRequests, Touch(r) PROVE Goal
  <2>1. accessClock + 1 \in Nat
    BY AsideTypes
  <2>2. row # NoRow => [row EXCEPT !.seen = accessClock + 1].server = row.server
    BY Zenon, SMT, <1>1, <2>1, RowSeen
  <2> QED BY Zenon, SMT, <1>4, <2>2 DEF Touch
<1>5. ASSUME MarkUnloaded PROVE Goal
  <2>1. 0 \in Nat
    OBVIOUS
  <2>2. row # NoRow => [row EXCEPT !.seen = 0].server = row.server
    BY Zenon, SMT, <1>1, <2>1, RowSeen
  <2> QED BY Zenon, SMT, <1>5, <2>2 DEF MarkUnloaded, Untouched
<1>6. ASSUME BumpUpdate PROVE Goal
  <2>1. bump.row \in UserRow /\ bump.row.server \in ServerIds
    BY Zenon, SMT, <1>6, AsideTypes DEF BumpUpdate, Selected
  <2>2. BumpID(bump.row.server) \in ServerIds \cup {NoServer} /\ BumpID(bump.row.server) \in ServerIds
    BY Zenon, SMT, <2>1, BumpIDFact
  <2>3. [bump.row EXCEPT !.server = BumpID(bump.row.server)].server = BumpID(bump.row.server)
    BY Zenon, SMT, <2>1, <2>2, RowServer
  <2> QED BY Zenon, SMT, <1>6, <2>2, <2>3 DEF BumpUpdate
<1>7. ASSUME NEW r \in UserRequests, Authenticate(r), ~SetIdpID(r), ~Commit(r) PROVE row' = row
  BY Zenon, SMT, <1>7 DEF Authenticate, GetDBUserByIDPID, GetDBUserByID, TxFails, getOrCreateLocalUser,
     createUser, createUserConflict, alreadyAssigned, Create, assignSDKServerToUser, Rollback, db
<1>8. ASSUME NEW r \in UserRequests, Serve(r), ~Touch(r) PROVE Goal
  <2>1. row' = row \/ row' = NoRow
    BY Zenon, SMT, <1>8 DEF Serve, SendUserQuery, LoadWallet, DeleteUser, db
  <2> QED BY Zenon, SMT, <2>1
<1>9. ASSUME NEW r \in Legacy, CacheHit(r) \/ CacheMiss(r) \/ GetRemoteUserLegacy(r) PROVE row' = row
  BY Zenon, SMT, <1>9 DEF CacheHit, CacheMiss, GetRemoteUserLegacy, db
<1>10. ASSUME \/ \E p \in Processes : CacheExpires(p)
              \/ SelectIdle \/ UnloadWallet \/ BumpRead \/ BumpLoad \/ BumpUnload \/ UNCHANGED walletVars
       PROVE  row' = row
  BY Zenon, SMT, <1>10 DEF CacheExpires, SelectIdle, UnloadWallet, BumpRead, BumpLoad, BumpUnload, db, walletVars
<1> HIDE DEF Goal
<1>11. row' = row => Goal
  BY Zenon, SMT DEF Goal
<1>12. ASSUME NEW r \in UserRequests, Authenticate(r) \/ Serve(r) PROVE Goal
  BY Zenon, SMT, <1>2, <1>3, <1>4, <1>7, <1>8, <1>11, <1>12
<1>13. ASSUME Unload \/ BumpSDK PROVE Goal
  BY Zenon, SMT, <1>5, <1>6, <1>10, <1>11, <1>13 DEF Unload, BumpSDK
<1>14. Goal
  BY Zenon, SMT, <1>9, <1>10, <1>11, <1>12, <1>13 DEF WalletNext
<1> QED BY Zenon, SMT, <1>14 DEF Goal

\* "permanently assigns an sdk to a user": a server once assigned stays while there
\* is the row, unless BumpSDK moves the user or SetIdpID writes back what it read.
THEOREM ServerStays == WalletSpec => AssignedForGood
<1>1. ASSUME WalletInv, [WalletNext]_walletVars
      PROVE  [row # NoRow /\ row' # NoRow /\ row.server # NoServer =>
                row'.server = row.server \/ BumpUpdate \/ \E r \in OAuth : SetIdpID(r)]_walletVars
  BY Zenon, SMT, <1>1, RowStep
<1> QED BY <1>1, WalletInvariance, PTL DEF WalletSpec, AssignedForGood

\* "Should not happen, but not enforced in DB structure yet": no row is committed
\* without a server, and none loses it, but for SetIdpID.
THEOREM RowHasServer == WalletSpec => NoUserWithoutServer
<1>1. ASSUME WalletInv, [WalletNext]_walletVars
      PROVE  [row' # NoRow /\ row'.server = NoServer =>
                row # NoRow /\ (row.server = NoServer \/ \E r \in OAuth : SetIdpID(r))]_walletVars
  BY Zenon, SMT, <1>1, RowStep, ServerFacts
<1> QED BY <1>1, WalletInvariance, PTL DEF WalletSpec, NoUserWithoutServer

-----------------------------------------------------------------------------
(* The router.                                                             *)

\* The scan: no server is asked twice, and the best so far is the least loaded of
\* the public ones that have answered.  The least loaded server is public.
RouterInv ==
    /\ RouterTypeOK
    /\ least \notin Private
    /\ scan.best \notin Private
    /\ scan.todo \cap scan.asked = {}
    /\ scan.best # NoLeast => scan.best \in scan.asked /\ scan.min = scan.seen[scan.best]
    /\ \A s \in scan.asked \ Private : scan.best # NoLeast /\ scan.min <= scan.seen[s]

ScanType == [todo : SUBSET Servers, best : Servers \cup {NoLeast}, min : 0..MaxLoad,
             seen : [Servers -> 0..MaxLoad], asked : SUBSET Servers]

\* The empty scan.
LEMMA NoScanFacts ==
  /\ NoScan \in ScanType
  /\ NoScan.todo = {} /\ NoScan.asked = {} /\ NoScan.best = NoLeast /\ NoLeast \notin Private
<1>1. 0 \in 0..MaxLoad /\ NoLeast \notin Servers /\ Private \subseteq Servers
  BY RouterAssumption
<1> QED BY Zenon, SMT, <1>1 DEF NoScan, ScanType

\* The invariant at the beginning.
LEMMA NewInv == New => RouterInv
<1> SUFFICES ASSUME New PROVE RouterInv
  OBVIOUS
<1>1. 0 \in 0..MaxChanges /\ 0 \in 0..MaxFaults /\ FirstTable \subseteq Servers
  BY RouterAssumption
<1>2. RouterTypeOK
  BY Zenon, SMT, <1>1, NoScanFacts DEF New, RouterTypeOK, Steps, ScanType
<1> QED BY Zenon, SMT, <1>2, NoScanFacts DEF New, RouterInv

\* Everything but a scan and its end.
LEMMA NoScanInv ==
  ASSUME RouterInv, RouterTypeOK', UNCHANGED <<scan, least>>
  PROVE  RouterInv'
  BY Zenon, SMT DEF RouterInv

LEMMA RequestStepInv ==
  ASSUME RouterInv, NEW g \in Goroutines, Reload(g) \/ (g \in Callers /\ (RandomServer(g) \/ LeastLoaded(g)))
  PROVE  RouterInv'
<1>1. RouterTypeOK /\ UNCHANGED <<scan, least>>
  BY Zenon, SMT DEF RouterInv, Reload, CheckAge, AllG, Reloaded, RandomServer, LeastLoaded
<1>2. faults' \in 0..MaxFaults
  <2>1. faults \in 0..MaxFaults /\ (faults' = faults \/ (faults < MaxFaults /\ faults' = faults + 1))
    BY Zenon, SMT, <1>1 DEF RouterTypeOK, Reload, CheckAge, AllG, Reloaded, RandomServer, LeastLoaded
  <2> QED BY <2>1, RouterAssumption
<1>3. UNCHANGED world
  BY Zenon, SMT DEF Reload, CheckAge, AllG, Reloaded, RandomServer, LeastLoaded, world
<1>4. CASE Reload(g)
  BY Zenon, SMT, <1>1, <1>2, <1>3, <1>4, NoScanInv
     DEF Reload, CheckAge, AllG, Reloaded, RouterGoto, Steps, RouterTypeOK, setServers, world
<1>5. CASE g \in Callers /\ (RandomServer(g) \/ LeastLoaded(g))
  BY Zenon, SMT, <1>1, <1>2, <1>3, <1>5, NoScanInv DEF RandomServer, LeastLoaded, RouterGoto, Steps, RouterTypeOK, world
<1> QED BY Zenon, SMT, <1>4, <1>5

\* A server answers: what was known of the others stays.
LEMMA WalletListInv ==
  ASSUME RouterInv, NEW s \in Servers, WalletList(s)
  PROVE  RouterInv'
<1>1. /\ RouterTypeOK /\ scan \in ScanType /\ s \in scan.todo /\ load \in [Servers -> 0..MaxLoad]
      /\ UNCHANGED <<table, load, changes, servers, fresh, least, step, fetched, chosen, faults>>
  BY Zenon, SMT DEF RouterInv, RouterTypeOK, WalletList, world, ScanType
<1>2. /\ scan'.todo = scan.todo \ {s} /\ scan'.asked = scan.asked \cup {s}
      /\ scan'.seen = [scan.seen EXCEPT ![s] = load[s]]
      /\ scan'.best = IF Better(s) THEN s ELSE scan.best
      /\ scan'.min = IF Better(s) THEN load[s] ELSE scan.min
      /\ scan' \in ScanType
  BY Zenon, SMT, <1>1 DEF WalletList, ScanType
<1>3. /\ scan.seen \in [Servers -> 0..MaxLoad] /\ scan.asked \subseteq Servers /\ load[s] \in 0..MaxLoad
      /\ scan.best \in Servers \cup {NoLeast} /\ scan.min \in 0..MaxLoad /\ NoLeast \notin Servers /\ NoLeast \notin Private
  BY Zenon, SMT, <1>1, RouterAssumption DEF ScanType
<1>4. /\ scan.best \notin Private /\ s \notin scan.asked /\ scan.todo \cap scan.asked = {}
      /\ scan.best # NoLeast => scan.best \in scan.asked /\ scan.min = scan.seen[scan.best]
      /\ \A t \in scan.asked \ Private : scan.best # NoLeast /\ scan.min <= scan.seen[t]
  BY Zenon, SMT, <1>1 DEF RouterInv
<1>5. /\ scan'.seen[s] = load[s] /\ \A t \in scan.asked : scan'.seen[t] = scan.seen[t] /\ scan.seen[t] \in 0..MaxLoad
  BY Zenon, SMT, <1>2, <1>3, <1>4
<1>6. scan'.best \notin Private /\ scan'.todo \cap scan'.asked = {}
  BY Zenon, SMT, <1>2, <1>4 DEF Better
<1>7. scan'.best # NoLeast => scan'.best \in scan'.asked /\ scan'.min = scan'.seen[scan'.best]
  BY Zenon, SMT, <1>2, <1>4, <1>5
<1>8. ASSUME NEW t \in scan'.asked \ Private PROVE scan'.best # NoLeast /\ scan'.min <= scan'.seen[t]
  <2>1. CASE Better(s)
    <3>1. scan'.min = load[s] /\ scan'.best = s /\ s # NoLeast /\ (scan.best = NoLeast \/ load[s] < scan.min)
      BY Zenon, SMT, <1>2, <1>3, <2>1 DEF Better
    <3>2. CASE t = s
      <4>1. scan'.min = scan'.seen[t] /\ scan'.min \in 0..MaxLoad
        BY Zenon, SMT, <1>3, <1>5, <3>1, <3>2
      <4> QED BY <3>1, <4>1
    <3>3. CASE t # s
      <4>1. /\ scan.best # NoLeast /\ scan.min <= scan.seen[t] /\ scan'.seen[t] = scan.seen[t]
            /\ scan.seen[t] \in 0..MaxLoad /\ load[s] < scan.min
        BY Zenon, SMT, <1>2, <1>4, <1>5, <3>1, <3>3
      <4> QED BY <1>3, <3>1, <4>1
    <3> QED BY Zenon, SMT, <3>2, <3>3
  <2>2. CASE ~Better(s)
    <3>1. scan'.min = scan.min /\ scan'.best = scan.best
      BY Zenon, SMT, <1>2, <2>2
    <3>2. CASE t = s
      <4>1. scan.best # NoLeast /\ ~(load[s] < scan.min) /\ scan'.seen[t] = load[s]
        BY Zenon, SMT, <1>5, <2>2, <3>2 DEF Better
      <4> QED BY <1>3, <3>1, <4>1
    <3>3. CASE t # s
      BY Zenon, SMT, <1>2, <1>4, <1>5, <3>1, <3>3
    <3> QED BY Zenon, SMT, <3>2, <3>3
  <2> QED BY Zenon, SMT, <2>1, <2>2
<1>9. RouterTypeOK' /\ least' \notin Private
  BY Zenon, SMT, <1>1, <1>2 DEF RouterTypeOK, RouterInv, ScanType
<1> QED BY Zenon, SMT, <1>6, <1>7, <1>8, <1>9 DEF RouterInv

\* The other steps of WatchLoad.
LEMMA ScanInv ==
  ASSUME RouterInv, StartScan \/ EndScan \/ \E s \in Servers : NotResponding(s)
  PROVE  RouterInv'
<1>1. /\ RouterTypeOK /\ scan \in ScanType /\ Watcher \in Goroutines
      /\ UNCHANGED <<table, load, changes, servers, fresh, fetched, chosen>>
  BY Zenon, SMT DEF RouterInv, RouterTypeOK, StartScan, EndScan, NotResponding, world, ScanType, Goroutines
<1>2. CASE StartScan
  <2>1. /\ scan' \in ScanType /\ scan'.asked = {} /\ scan'.best = NoLeast
    BY Zenon, SMT, <1>1, <1>2, NoScanFacts DEF StartScan, RouterTypeOK, ScanType
  <2>2. RouterTypeOK'
    BY Zenon, SMT, <1>1, <1>2, <2>1 DEF StartScan, RouterTypeOK, RouterGoto, Steps, ScanType
  <2> QED BY Zenon, SMT, <1>2, <2>1, <2>2, NoScanFacts DEF RouterInv, StartScan
<1>3. CASE EndScan
  <2>1. least' \in Servers \cup {NoLeast} /\ least' \notin Private /\ scan' = NoScan
    BY Zenon, SMT, <1>1, <1>3 DEF EndScan, Elected, RouterInv, RouterTypeOK, ScanType
  <2>2. RouterTypeOK'
    BY Zenon, SMT, <1>1, <1>3, <2>1, NoScanFacts DEF EndScan, RouterTypeOK, RouterGoto, Steps, ScanType
  <2> QED BY Zenon, SMT, <2>1, <2>2, NoScanFacts DEF RouterInv
<1>4. ASSUME NEW s \in Servers, NotResponding(s) PROVE RouterInv'
  <2>1. /\ scan' \in ScanType /\ scan'.todo = scan.todo \ {s} /\ scan'.best = scan.best /\ scan'.min = scan.min
        /\ scan'.asked = scan.asked /\ scan'.seen = scan.seen
    BY Zenon, SMT, <1>1, <1>4 DEF NotResponding, ScanType
  <2>2. faults' \in 0..MaxFaults
    <3>1. faults \in 0..MaxFaults /\ faults < MaxFaults /\ faults' = faults + 1
      BY Zenon, SMT, <1>1, <1>4 DEF RouterTypeOK, NotResponding
    <3> QED BY <3>1, RouterAssumption
  <2>3. RouterTypeOK' /\ least' = least
    BY Zenon, SMT, <1>1, <1>4, <2>1, <2>2 DEF NotResponding, RouterTypeOK, ScanType
  <2> QED BY Zenon, SMT, <2>1, <2>3 DEF RouterInv
<1> QED BY Zenon, SMT, <1>2, <1>3, <1>4

\* Time, the table and the loads.
LEMMA WorldInv ==
  ASSUME RouterInv, Age \/ TableChanges \/ (\E s \in Servers : LoadChanges(s)) \/ UNCHANGED routerVars
  PROVE  RouterInv'
<1>1. RouterTypeOK /\ UNCHANGED <<scan, least, step, servers, fetched, chosen, faults>>
  BY Zenon, SMT DEF RouterInv, Age, TableChanges, LoadChanges, routerVars
<1>2. changes' \in 0..MaxChanges
  <2>1. changes \in 0..MaxChanges /\ (changes' = changes \/ (changes < MaxChanges /\ changes' = changes + 1))
    BY Zenon, SMT, <1>1 DEF RouterTypeOK, Age, TableChanges, LoadChanges, routerVars, world
  <2> QED BY <2>1, RouterAssumption
<1>3. RouterTypeOK'
  BY Zenon, SMT, <1>1, <1>2 DEF RouterTypeOK, Age, TableChanges, LoadChanges, routerVars, world
<1> QED BY Zenon, SMT, <1>1, <1>3, NoScanInv

\* Every step keeps the invariant.
LEMMA RouterStepInv == RouterInv /\ [RouterNext]_routerVars => RouterInv'
<1> SUFFICES ASSUME RouterInv, [RouterNext]_routerVars PROVE RouterInv'
  OBVIOUS
<1>1. Callers \subseteq Goroutines
  BY Zenon, SMT DEF Goroutines
<1>2. CASE Scan
  BY Zenon, SMT, <1>2, ScanInv, WalletListInv DEF Scan
<1> QED BY Zenon, SMT, <1>1, <1>2, RequestStepInv, WorldInv DEF RouterNext

\* The list of servers is never emptied; a new least loaded server is public and
\* has the smallest of the loads answered in its scan (updateLoadAndMetrics); and
\* LeastLoaded gives no private server once one has been found: for any number of
\* servers and goroutines, whatever fails or changes in between.
THEOREM RouterSafety == RouterSpec => RouterSafe
<1>1. ASSUME RouterInv, [RouterNext]_routerVars
      PROVE  [RouterTypeOK' /\ NeverEmptied /\ LeastOfAnswers /\ PrivateOnlyAtFirst]_routerVars
  <2>1. RouterTypeOK'
    BY Zenon, SMT, <1>1, RouterStepInv DEF RouterInv
  <2>2. NeverEmptied
    BY Zenon, SMT, <1>1 DEF NeverEmptied, RouterNext, Reload, CheckAge, AllG, Reloaded, RandomServer, LeastLoaded,
       Scan, StartScan, EndScan, WalletList, NotResponding, Age, TableChanges, LoadChanges, setServers, routerVars
  <2>3. LeastOfAnswers
    <3>1. least' = least \/ EndScan
      BY Zenon, SMT, <1>1 DEF RouterNext, Reload, CheckAge, AllG, Reloaded, RandomServer, LeastLoaded,
         Scan, StartScan, WalletList, NotResponding, Age, TableChanges, LoadChanges, routerVars
    <3>2. CASE EndScan /\ least' # least
      <4>1. least' = scan.best /\ scan.best # NoLeast
        BY Zenon, SMT, <3>2 DEF EndScan, Elected
      <4> QED BY Zenon, SMT, <1>1, <4>1 DEF RouterInv, LeastOfAnswers
    <3> QED BY Zenon, SMT, <3>1, <3>2 DEF LeastOfAnswers
  <2>4. ASSUME NEW g \in Callers, chosen'[g] \in Private, step[g] = "idle" PROVE chosen'[g] = chosen[g]
    <3>1. chosen \in [Callers -> Servers \cup {NoLeast}] /\ least \notin Private
      BY Zenon, SMT, <1>1 DEF RouterInv, RouterTypeOK
    <3>2. CASE chosen' = chosen
      BY Zenon, SMT, <3>2
    <3>3. ASSUME NEW h \in Callers, RandomServer(h) PROVE chosen'[g] = chosen[g]
      BY Zenon, SMT, <2>4, <3>1, <3>3 DEF RandomServer
    <3>4. ASSUME NEW h \in Callers, LeastLoaded(h) PROVE chosen'[g] = chosen[g]
      BY Zenon, SMT, <2>4, <3>1, <3>4 DEF LeastLoaded
    <3>5. chosen' = chosen \/ \E h \in Callers : RandomServer(h) \/ LeastLoaded(h)
      BY Zenon, SMT, <1>1 DEF RouterNext, Reload, CheckAge, AllG, Reloaded,
         Scan, StartScan, EndScan, WalletList, NotResponding, Age, TableChanges, LoadChanges, routerVars
    <3> QED BY Zenon, SMT, <3>2, <3>3, <3>4, <3>5
  <2> QED BY Zenon, SMT, <2>1, <2>2, <2>3, <2>4 DEF PrivateOnlyAtFirst
<1>2. RouterSpec => []RouterInv
  BY NewInv, RouterStepInv, PTL DEF RouterSpec
<1> QED BY <1>1, <1>2, PTL DEF RouterSpec, RouterSafe

-----------------------------------------------------------------------------
(* The life of the API process.                                            *)

\* The queue is there as soon as the routes are.
ApiInv ==
    /\ ApiSafe
    /\ main \in {"start", "key"} => queue # "off"

\* main returns only when every request has been answered or cut off at the limit
\* of Shutdown, and waits for signals only with its key and its queue set up, for
\* any number of requests and whenever the signals come.
THEOREM ApiSafety == ApiSpec => []ApiSafe
<1>1. ApiInit => ApiInv
  <2>1. 0 \in 0..MaxSignals
    BY ApiLifeAssumption
  <2> QED BY Zenon, SMT, <2>1 DEF ApiInit, ApiInv, ApiSafe, ApiTypeOK, AnsweredOrCut, Ended
<1>2. ApiInv /\ [ApiNext]_apiVars => ApiInv'
  <2> SUFFICES ASSUME ApiInv, [ApiNext]_apiVars PROVE ApiInv'
    OBVIOUS
  <2> USE DEF ApiInv, ApiSafe, ApiTypeOK, AnsweredOrCut, Ended
  <2>1. CASE InstallRoutes \/ Start \/ InitPrivateKey \/ NotifySignals \/ Shutdown
    <3>1. CASE InstallRoutes
      BY Zenon, SMT, <3>1 DEF InstallRoutes
    <3>2. CASE Start \/ Shutdown
      BY Zenon, SMT, <3>2 DEF Start, Shutdown
    <3>3. CASE InitPrivateKey
      BY Zenon, SMT, <3>3 DEF InitPrivateKey
    <3>4. CASE NotifySignals
      BY Zenon, SMT, <3>4 DEF NotifySignals
    <3> QED BY Zenon, <2>1, <3>1, <3>2, <3>3, <3>4
  <2>2. CASE Drained
    BY Zenon, SMT, <2>2 DEF Drained
  <2>3. CASE ShutdownTimesOut
    BY Zenon, SMT, <2>3 DEF ShutdownTimesOut
  <2>4. CASE Listen \/ QueueServe
    BY Zenon, SMT, <2>4 DEF Listen, QueueServe, Alive
  <2>5. ASSUME NEW r \in HttpRequests, Arrive(r) \/ Answer(r) PROVE ApiInv'
    BY Zenon, SMT, <2>5 DEF Arrive, Answer, Alive
  <2>6. CASE Signal
    <3>1. signals' \in 0..MaxSignals
      <4>1. signals \in 0..MaxSignals /\ signals < MaxSignals /\ signals' = signals + 1
        BY Zenon, SMT, <2>6 DEF Signal
      <4> QED BY <4>1, ApiLifeAssumption
    <3> QED BY Zenon, SMT, <2>6, <3>1 DEF Signal, Alive
  <2>7. CASE UNCHANGED apiVars
    BY Zenon, SMT, <2>7 DEF apiVars
  <2> QED BY Zenon, SMT, <2>1, <2>2, <2>3, <2>4, <2>5, <2>6, <2>7 DEF ApiNext, MainStep
<1>3. ApiInv => ApiSafe
  BY Zenon, SMT DEF ApiInv
<1> QED BY <1>1, <1>2, <1>3, PTL DEF ApiSpec
==================================================================================
