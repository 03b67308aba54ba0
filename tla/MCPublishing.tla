----------------------------- MODULE MCPublishing -----------------------------
(***************************************************************************)
(* The ways to publish for TLC, side by side: the query manager with       *)
(* forklift in front of it, and the three older versions.  No two of these *)
(* modules share a variable, so that a property of one holds when they     *)
(* interleave exactly when it holds while the others stand still; part is  *)
(* the one that moves.                                                     *)
(***************************************************************************)
EXTENDS PublishFlow, Geopublish, PublishForm, PublishTus

CONSTANTS me, you, r1, r2, r3

VARIABLE part

publishingVars == <<part, flowVars, geoVars, formVars, tusVars>>

\* Uploads of one user, who may be confused with another; three Notify requests
\* of v2, two of them of one user.
MCOwner(i) == me
MCUserOf(r) == IF r = r3 THEN you ELSE me

\* A part that stands still does so in one of its initial states.
PublishingInit ==
    /\ part \in {"flow", "geo", "form", "tus"}
    /\ FlowInit /\ NewHandler /\ TusInit
    /\ (part = "form" \/ remote = [r \in Forms |-> FALSE]) /\ FormInit

PublishingNext ==
    \/ part = "flow" /\ FlowNext /\ UNCHANGED <<part, geoVars, formVars, tusVars>>
    \/ part = "geo" /\ GeoNext /\ UNCHANGED <<part, flowVars, formVars, tusVars>>
    \/ part = "form" /\ FormNext /\ UNCHANGED <<part, flowVars, geoVars, tusVars>>
    \/ part = "tus" /\ TusNext /\ UNCHANGED <<part, flowVars, geoVars, formVars>>

\* The fairness of the modules, for the part that moves.
PublishingSpec ==
    /\ PublishingInit /\ [][PublishingNext]_publishingVars
    /\ \A q \in QueryIds : WF_flowVars(part = "flow" /\ (SendQuery(q) \/ SendQueryFails(q)) /\ UNCHANGED forkVars)
    /\ \A t \in TaskIds : WF_flowVars(part = "flow" /\ (\E w \in Workers : Start(w, t)) /\ UNCHANGED forkVars)
    /\ \A w \in Workers : WF_flowVars(part = "flow" /\ HandlerStep(w) /\ UNCHANGED forkVars)
    /\ \A u \in Uploads :
          SF_flowVars(part = "flow" /\ (\E w \in Forks : Fork!StartUpload(w, u)) /\ UNCHANGED vars)
    /\ \A w \in Forks : WF_flowVars(part = "flow" /\ ((Fork!Process(w) /\ UNCHANGED vars) \/ Announce(w)))
    /\ \A i \in UploadIDs : /\ WF_geoVars(part = "geo" /\ NotifySteps(i))
                            /\ WF_geoVars(part = "geo" /\ TaskSteps(i))
    /\ WF_geoVars(part = "geo" /\ EventSteps) /\ WF_geoVars(part = "geo" /\ SaveSteps)
    /\ \A r \in Forms : WF_formVars(part = "form" /\ Handle(r))
    /\ \A r \in Requests : WF_tusVars(part = "tus" /\ Notify(r))

\* Committed rows, accepted uploads and requests come to an end, each part in the
\* behaviours in which it is the one that moves: a committed query whose stream
\* is announced is called, accepted uploads are settled, forms and Notify
\* requests are answered.
PublishingEnds ==
    /\ part = "flow" => FlowSettles
    /\ part = "geo" => AcceptedIsSettled
    /\ part = "form" => EveryFormAnswered
    /\ part = "tus" => EveryNotifyAnswered
===============================================================================
