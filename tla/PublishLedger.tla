----------------------------- MODULE PublishLedger -----------------------------
(***************************************************************************)
(* What the asynchronous query manager promises to a client, without rows, *)
(* tasks, handlers or failures: a query is committed once and for all, the *)
(* SDK executes only committed queries, exactly as committed, and the      *)
(* outcome a client is shown is the outcome of some execution.  It does    *)
(* not promise that a query is executed once, nor that the outcome shown   *)
(* is that of the last execution.                                          *)
(***************************************************************************)
CONSTANTS Queries, Bodies, Files

VARIABLES
    entry,      \* per query: its commitment, as a set of at most one element
    executed,   \* executions by the SDK
    report      \* per query: the outcome shown to the client

Outcomes == {"net", "rpc", "ok"}

Init ==
    /\ entry = [q \in Queries |-> {}]
    /\ executed = {}
    /\ report = [q \in Queries |-> "pending"]

Commit(q) ==
    /\ entry[q] = {}
    /\ \E b \in Bodies, f \in Files :
          entry' = [entry EXCEPT ![q] = {[body |-> b, file |-> f]}]
    /\ UNCHANGED <<executed, report>>

Execute(q) ==
    /\ \E e \in entry[q], out \in Outcomes :
          executed' = executed \cup {[qid |-> q, body |-> e.body,
                                      patch |-> e.file, out |-> out]}
    /\ UNCHANGED <<entry, report>>

Report(q) ==
    /\ \E x \in executed :
          /\ x.qid = q
          /\ report' = [report EXCEPT ![q] =
                          IF x.out = "ok" THEN "succeeded" ELSE "failed"]
    /\ UNCHANGED <<entry, executed>>

Next == \E q \in Queries : Commit(q) \/ Execute(q) \/ Report(q)

Spec == Init /\ [][Next]_<<entry, executed, report>>
================================================================================
