---------------------------- MODULE UploadTokens ----------------------------
(***************************************************************************)
(* Who may upload.  The API authenticates a request by an OAuth or a       *)
(* legacy token (app/auth) and CreateUpload of asynquery signs an upload   *)
(* token for its user (pkg/keybox); the uploads service checks that token  *)
(* with the public key it fetched from the API when it started, once for   *)
(* the request and again for the event that records the upload.  Time      *)
(* passes, the key changes and the service restarts meanwhile.             *)
(***************************************************************************)
EXTENDS Integers

CONSTANTS
    TokenUsers, Nobody,  \* Nobody: the row has user id 0
    SignKeys, NoKey,  \* NoKey: the uploads service is down
    Lifetime,       \* of a token: 48 hours
    TokenTime,      \* bound
    Credentials     \* what requests to the API come with

ASSUME TokensAssumption ==
    /\ Nobody \notin TokenUsers /\ NoKey \notin SignKeys
    /\ Lifetime \in Nat \ {0} /\ TokenTime \in Nat
    /\ Credentials \subseteq [oauth  : {"none", "good", "bad"},
                              legacy : {"none", "good", "unverified", "bad"}]

VARIABLES
    tokenNow,
    apiKey,     \* key of the API
    svcKey,     \* key the uploads service has
    token,      \* the upload token each client holds
    authedAt,   \* when the API last authenticated the client (-1: never)
    tokenAnswer,  \* the API's last answer, and the credentials it was for
    upload      \* the one upload of each client

tokensVars == <<tokenNow, apiKey, svcKey, token, authedAt, tokenAnswer, upload>>

Token == [user : TokenUsers, key : SignKeys, exp : Lifetime..(TokenTime + Lifetime)]
NoToken == [user |-> Nobody, key |-> NoKey, exp |-> 0]
NoTokenUpload == [state |-> "none", by |-> NoToken, owner |-> Nobody, writers |-> {}]

TokensInit ==
    /\ tokenNow = 0
    /\ apiKey \in SignKeys /\ svcKey = NoKey
    /\ token = [u \in TokenUsers |-> NoToken]
    /\ authedAt = [u \in TokenUsers |-> -1]
    /\ tokenAnswer = [kind |-> "none", code |-> 0, cred |-> CHOOSE c \in Credentials : TRUE]
    /\ upload = [u \in TokenUsers |-> NoTokenUpload]

-----------------------------------------------------------------------------
(* The API: the user and the error a request has after each middleware.    *)

Middleware(c) == [user |-> c.oauth = "good", err |-> c.oauth # "good"]

\* GetUserWithSDKServer gives neither a user nor an error for an e-mail address
\* that is not verified.
LegacyMiddleware(c) ==
    IF Middleware(c).err /\ c.legacy # "none"
    THEN [user |-> c.legacy = "good", err |-> c.legacy = "bad"]
    ELSE Middleware(c)

\* Mutant of GenerateToken: signed with a key kept from the first start.
GenerateTokenKept(u) ==
    [user |-> u, key |-> CHOOSE k \in SignKeys : TRUE, exp |-> tokenNow + Lifetime]

GenerateToken(u) == [user |-> u, key |-> apiKey, exp |-> tokenNow + Lifetime]

TokenAnswer(c, k, status) == tokenAnswer' = [kind |-> k, code |-> status, cred |-> c]

\* The status follows the body and so comes too late; without a user u.ID panics,
\* which ErrorLoggingMiddleware answers.
TokenCreate(u, c) ==
    /\ \/ /\ LegacyMiddleware(c).err
          /\ TokenAnswer(c, "auth_error", 200)
          /\ UNCHANGED <<token, authedAt>>
       \/ /\ ~LegacyMiddleware(c).err /\ ~LegacyMiddleware(c).user
          /\ TokenAnswer(c, "panic", 500)
          /\ UNCHANGED <<token, authedAt>>
       \/ /\ LegacyMiddleware(c).user
          /\ token' = [token EXCEPT ![u] = GenerateToken(u)]
          /\ authedAt' = [authedAt EXCEPT ![u] = tokenNow]
          /\ TokenAnswer(c, "upload_token_created", 200)
    /\ UNCHANGED <<tokenNow, apiKey, svcKey, upload>>

\* The body is read before u.ID is; what Call does with a query is in Asynquery.
CreateQuery(c) ==
    /\ \/ LegacyMiddleware(c).err /\ TokenAnswer(c, "auth_error", 401)
       \/ ~LegacyMiddleware(c).err /\ TokenAnswer(c, "rpc_error", 200)
       \/ /\ ~LegacyMiddleware(c).err /\ ~LegacyMiddleware(c).user
          /\ TokenAnswer(c, "panic", 500)
       \/ LegacyMiddleware(c).user /\ TokenAnswer(c, "query_created", 201)
    /\ UNCHANGED <<tokenNow, apiKey, svcKey, token, authedAt, upload>>

\* universalUserGetter, of publish v3: a bad OAuth token is not made up for by a
\* legacy one, and no user is an error.
FromRequest(c) ==
    LET ok == IF c.oauth = "none" THEN c.legacy = "good" ELSE c.oauth = "good"
    IN  [user |-> ok, err |-> ~ok]

\* The rest of Notify is in Geopublish.
TokenNotify(c) ==
    /\ \/ FromRequest(c).err /\ TokenAnswer(c, "unauthorized", 200)
       \/ FromRequest(c).user /\ TokenAnswer(c, "notified", 202)
       \/ FromRequest(c).user /\ TokenAnswer(c, "rpc_error", 200)
    /\ UNCHANGED <<tokenNow, apiKey, svcKey, token, authedAt, upload>>

\* The API comes up again with a key, the same or another.
KeyfobFromString(k) ==
    /\ apiKey' = k
    /\ UNCHANGED <<tokenNow, svcKey, token, authedAt, tokenAnswer, upload>>

-----------------------------------------------------------------------------
(* The uploads service                                                     *)

PublicKeyFromURL ==
    /\ svcKey = NoKey
    /\ svcKey' = apiKey
    /\ UNCHANGED <<tokenNow, apiKey, token, authedAt, tokenAnswer, upload>>

\* Events that no listener has taken are lost: the client starts again.
Stop ==
    /\ svcKey # NoKey
    /\ svcKey' = NoKey
    /\ upload' = [u \in TokenUsers |-> IF upload[u].state = "admitted" THEN NoTokenUpload ELSE upload[u]]
    /\ UNCHANGED <<tokenNow, apiKey, token, authedAt, tokenAnswer>>

ParseToken(t) == t.key = svcKey /\ tokenNow < t.exp

authByToken(u) == svcKey # NoKey /\ token[u] # NoToken /\ ParseToken(token[u])

\* A client whose upload has become nobody's begins a new one.
TokenPost(u) ==
    /\ authByToken(u) /\ upload[u].state # "admitted" /\ upload[u].owner = Nobody
    /\ upload' = [upload EXCEPT ![u] = [NoTokenUpload EXCEPT !.state = "admitted", !.by = token[u]]]
    /\ UNCHANGED <<tokenNow, apiKey, svcKey, token, authedAt, tokenAnswer>>

\* Mutant of extractUserID: the listener trusts the first check.
extractUserIDAgain(t) == t.user

\* A token that is no longer valid gives the user id 0.
extractUserID(t) == IF ParseToken(t) THEN t.user ELSE Nobody

listenCreated(u) ==
    /\ svcKey # NoKey /\ upload[u].state = "admitted"
    /\ upload' = [upload EXCEPT ![u].state = "row", ![u].owner = extractUserID(upload[u].by)]
    /\ UNCHANGED <<tokenNow, apiKey, svcKey, token, authedAt, tokenAnswer>>

TokenAccess(w, u) == upload[u].owner = w

\* Client w writes to the upload of client u.
TokenPatch(w, u) ==
    /\ authByToken(w) /\ upload[u].state = "row" /\ TokenAccess(w, u)
    /\ upload' = [upload EXCEPT ![u].writers = @ \cup {w}]
    /\ UNCHANGED <<tokenNow, apiKey, svcKey, token, authedAt, tokenAnswer>>

TokenTick ==
    /\ tokenNow < TokenTime
    /\ tokenNow' = tokenNow + 1
    /\ UNCHANGED <<apiKey, svcKey, token, authedAt, tokenAnswer, upload>>

TokensNext ==
    \/ \E u \in TokenUsers, c \in Credentials : TokenCreate(u, c)
    \/ \E c \in Credentials : CreateQuery(c) \/ TokenNotify(c)
    \/ \E k \in SignKeys : KeyfobFromString(k)
    \/ PublicKeyFromURL \/ Stop \/ TokenTick
    \/ \E u \in TokenUsers : TokenPost(u) \/ listenCreated(u)
    \/ \E w, u \in TokenUsers : TokenPatch(w, u)

\* A client that is refused gets itself a new token, with good credentials.
Renew(u) ==
    /\ svcKey # NoKey /\ ~authByToken(u)
    /\ \E c \in Credentials : LegacyMiddleware(c).user /\ TokenCreate(u, c)

TokensSpec == TokensInit /\ [][TokensNext]_tokensVars

TokensFairSpec ==
    /\ TokensSpec
    /\ \A u \in TokenUsers : WF_tokensVars(Renew(u)) /\ WF_tokensVars(TokenPost(u)) /\ WF_tokensVars(listenCreated(u))

-----------------------------------------------------------------------------
(* Properties                                                              *)

\* Types: a token is its client's, and an upload without a request belongs to nobody.
TokensTypeOK ==
    /\ tokenNow \in 0..TokenTime /\ apiKey \in SignKeys /\ svcKey \in SignKeys \cup {NoKey}
    /\ \A u \in TokenUsers :
          /\ token[u] = NoToken \/ (token[u] \in Token /\ token[u].user = u)
          /\ upload[u].state \in {"none", "admitted", "row"}
          /\ upload[u].state # "row" => upload[u].owner = Nobody /\ upload[u].writers = {}

\* The API authenticated the client within the lifetime of a token.
FreshToken(u) == authedAt[u] >= 0 /\ tokenNow < authedAt[u] + Lifetime

\* An upload is recorded in a client's name, and written to, only within the lifetime
\* of a token after the API authenticated that very client, however the token, its
\* key and the two checks of the uploads service interleave with the clock, with
\* changes of the key and with restarts (CreateUpload, authByToken, listenToHooks).
UsedWhileAuthenticated ==
    \A u, w \in TokenUsers :
        /\ upload'[u].owner = w /\ upload[u].owner # w => FreshToken(w)
        /\ w \in upload'[u].writers \ upload[u].writers => FreshToken(w)

\* Only the client an upload is recorded for has written to it; one recorded for
\* nobody, as its token ran out in between, nobody has (verifyUploadFileAccess).
WrittenByOwner ==
    \A u \in TokenUsers : upload[u].owner \in {u, Nobody} /\ upload[u].writers \subseteq {upload[u].owner}

\* The API gives a token or takes a query or an upload exactly for requests with a
\* good credential; a good one is refused only by publish v3 and only next to a bad
\* OAuth token, and a client without a verified e-mail address gets the answer to a
\* panic from asynquery (CreateUpload, CreateQuery, universalUserGetter.FromRequest).
AnswerFitsCredentials ==
    LET good == "good" \in {tokenAnswer.cred.oauth, tokenAnswer.cred.legacy}
    IN  /\ tokenAnswer.kind \in {"upload_token_created", "query_created", "notified"} => good
        /\ tokenAnswer.kind \in {"auth_error", "panic"} => ~good
        /\ tokenAnswer.kind = "unauthorized" => ~good \/ tokenAnswer.cred.oauth = "bad"
        /\ tokenAnswer.kind = "panic" => tokenAnswer.cred.legacy = "unverified"

\* What tokens and credentials promise about who uploads: each line is stated above.
TokensSafe ==
    [][ /\ (TokensTypeOK /\ WrittenByOwner /\ AnswerFitsCredentials)'
        /\ UsedWhileAuthenticated ]_tokensVars

\* A client that gets itself a new token whenever it is refused has an upload of its
\* own in the end, if the service gets to have the key of the API and keeps it
\* (PublicKeyFromURL fetches it only when the service starts).
LetIn ==
    \A u \in TokenUsers : <>[](svcKey = apiKey) => <>(upload[u].owner = u)
=============================================================================
