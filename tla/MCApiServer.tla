------------------------------ MODULE MCApiServer ------------------------------
(***************************************************************************)
(* Parts of the API server for TLC, side by side, without fairness: the    *)
(* tokens for uploads, claim_search, the record layer, the admin gate and  *)
(* the outermost middleware.  No two of these modules share a variable, so *)
(* that a property of one holds when they interleave exactly when it holds *)
(* while the others stand still; part is the one that moves.               *)
(***************************************************************************)
EXTENDS UploadTokens, ClaimSearch, Records, RecordLoads, AdminGate, Responder

CONSTANTS t1, t2, url1, url2, copy, x1, x2

VARIABLE part

apiServerVars == <<part, tokensVars, searchVars, recordsVars, loadsVars, gateVars, responderVars>>

\* UploadTokens: two clients with good credentials ("tokens"), and one with all
\* kinds of them ("credentials").
Good == [oauth |-> "good", legacy |-> "none"]
MCCredentials ==
    {Good} \cup {[oauth |-> "none", legacy |-> l] : l \in {"none", "good", "bad", "unverified"}}
           \cup {[oauth |-> "bad", legacy |-> l] : l \in {"good", "unverified"}}
TokensStep ==
    /\ TokensNext
    /\ IF part = "tokens" THEN tokenAnswer'.cred = Good \/ UNCHANGED tokenAnswer
       ELSE UNCHANGED <<token[t2], upload[t2]>>

\* ClaimSearch: the query ("search"), and the thumbnails of the answer ("thumbs").
MCSubstitute(url) == IF url = url1 THEN url2 ELSE copy
MCTags == {PrivateTag, Unlisted, ScheduledShow}
OneSearch == [hasSource |-> "nil", anyTags |-> {}, notTags |-> {},
              releaseTime |-> {}, orderBy |-> "", text |-> FALSE]

\* Records: on the tables of the uploads two sessions work within one tick of the
\* clock ("records") or one at any time ("alone").
RecordsStep ==
    /\ RecordsNext
    /\ CASE unit # "uploads" -> TRUE
         [] part = "records" -> UNCHANGED recordClock
         [] part = "alone" -> obj'[x2] = Nil

\* AdminGate: a private range of four addresses.
MCRanges == {<<10, 13>>}

\* A part that stands still does so in one of its initial states.
ApiServerInit ==
    /\ part \in {"tokens", "credentials", "search", "thumbs",
                 "records", "alone", "loads", "gate", "answer"}
    /\ (part \in {"tokens", "credentials"} \/ apiKey = CHOOSE k \in SignKeys : TRUE) /\ TokensInit
    /\ (part = "search" \/ searchClient = OneSearch)
    /\ (part = "thumbs" \/ (items = << >> /\ copies = {})) /\ SearchInit
    /\ (part = "records" \/ unit = "uploads") /\ RecordsInit
    /\ (part = "loads" \/ fk = [u \in LoadUsers |-> 0]) /\ LoadsInit
    /\ GateInit /\ ResponderInit

ApiServerNext ==
    \/ /\ part \in {"tokens", "credentials"} /\ TokensStep
       /\ UNCHANGED <<part, searchVars, recordsVars, loadsVars, gateVars, responderVars>>
    \/ /\ part \in {"search", "thumbs"} /\ SearchNext
       /\ UNCHANGED <<part, tokensVars, recordsVars, loadsVars, gateVars, responderVars>>
    \/ /\ part \in {"records", "alone"} /\ RecordsStep
       /\ UNCHANGED <<part, tokensVars, searchVars, loadsVars, gateVars, responderVars>>
    \/ /\ part = "loads" /\ LoadsNext
       /\ UNCHANGED <<part, tokensVars, searchVars, recordsVars, gateVars, responderVars>>
    \/ /\ part = "gate" /\ GateNext
       /\ UNCHANGED <<part, tokensVars, searchVars, recordsVars, loadsVars, responderVars>>
    \/ /\ part = "answer" /\ ResponderNext
       /\ UNCHANGED <<part, tokensVars, searchVars, recordsVars, loadsVars, gateVars>>

ApiServerSpec == ApiServerInit /\ [][ApiServerNext]_apiServerVars

\* The record layer writes and loads what it is asked for: the columns of the call
\* into the row of the call (Records), and each object its own relation
\* (RecordLoads).
RecordLayer ==
    [][RecordsSafe /\ LoadsTypeOK' /\ LoadedIsOwn]_<<recordsVars, loadsVars>>
================================================================================
