------------------------------- MODULE SdkRouter -------------------------------
(***************************************************************************)
(* The router (app/sdkrouter/sdkrouter.go): a list of SDK servers that any *)
(* goroutine reloads from the database when it is older than 30 seconds,   *)
(* and the least loaded of them, which WatchLoad finds by asking one       *)
(* server after the other.  Lists are sets: the query has no order.        *)
(***************************************************************************)
EXTENDS Naturals

CONSTANTS
    Servers,
    Private,      \* LbrynetServer.Private
    NoLeast,
    Callers,      \* goroutines that serve requests
    Watcher,      \* the goroutine of WatchLoad
    FirstTable,   \* the table lbrynet_servers at the beginning
    MaxLoad,      \* bound: wallets loaded on a server
    MaxChanges,   \* bound: changes of the table
    MaxFaults     \* bound: failing queries and servers that do not answer

Goroutines == Callers \cup {Watcher}

ASSUME RouterAssumption ==
    /\ Private \subseteq Servers /\ FirstTable \subseteq Servers
    /\ NoLeast \notin Servers /\ Watcher \notin Callers
    /\ MaxLoad \in Nat /\ MaxChanges \in Nat /\ MaxFaults \in Nat

VARIABLES
    table,        \* the table lbrynet_servers
    load,         \* wallets loaded on each server
    servers,      \* Router.servers
    fresh,        \* lastLoaded is not older than 30 seconds
    least,        \* Router.leastLoaded
    step,         \* of each goroutine, in reloadServersFromDB and after it
    fetched,      \* the rows a goroutine has read
    scan,         \* updateLoadAndMetrics: servers to ask, the best so far, answers
    chosen,       \* the server a caller has got last
    changes, faults

routerVars == <<table, load, servers, fresh, least, step, fetched, scan, chosen, changes, faults>>
world == <<table, load, changes>>

Steps == {"idle", "stale", "fetched", "ready", "scan"}

RouterTypeOK ==
    /\ table \subseteq Servers /\ servers \subseteq Servers
    /\ load \in [Servers -> 0..MaxLoad]
    /\ fresh \in BOOLEAN
    /\ least \in Servers \cup {NoLeast}
    /\ step \in [Goroutines -> Steps]
    /\ fetched \in [Goroutines -> SUBSET Servers]
    /\ scan \in [todo : SUBSET Servers, best : Servers \cup {NoLeast}, min : 0..MaxLoad,
                 seen : [Servers -> 0..MaxLoad], asked : SUBSET Servers]
    /\ chosen \in [Callers -> Servers \cup {NoLeast}]
    /\ changes \in 0..MaxChanges /\ faults \in 0..MaxFaults

NoScan == [todo |-> {}, best |-> NoLeast, min |-> 0, seen |-> [s \in Servers |-> 0], asked |-> {}]

\* New without servers in the configuration; the first query may fail.
New ==
    /\ table = FirstTable
    /\ load \in [Servers -> 0..MaxLoad]
    /\ servers \in {{}, FirstTable}
    /\ fresh = TRUE
    /\ least = NoLeast
    /\ step = [g \in Goroutines |-> "idle"]
    /\ fetched = [g \in Goroutines |-> {}]
    /\ scan = NoScan
    /\ chosen = [g \in Callers |-> NoLeast]
    /\ changes = 0 /\ faults = 0

RouterGoto(g, s) == step' = [step EXCEPT ![g] = s]

-----------------------------------------------------------------------------
(* reloadServersFromDB: the age is read and written without a lock, so two *)
(* goroutines may query at once and finish in either order.                *)

\* RandomServer, GetAll and, when no load is known, LeastLoaded begin with it.
CheckAge(g) ==
    /\ step[g] = "idle"
    /\ RouterGoto(g, IF fresh THEN "ready" ELSE "stale")
    /\ UNCHANGED <<world, servers, fresh, least, fetched, scan, chosen, faults>>

\* A failing query is logged and leaves an empty list.
AllG(g) ==
    /\ step[g] = "stale"
    /\ fresh' = TRUE
    /\ \/ fetched' = [fetched EXCEPT ![g] = table] /\ UNCHANGED faults
       \/ /\ faults < MaxFaults /\ faults' = faults + 1
          /\ fetched' = [fetched EXCEPT ![g] = {}]
    /\ RouterGoto(g, "fetched")
    /\ UNCHANGED <<world, servers, least, scan, chosen>>

\* "Setting servers to empty list" is an error and not done.
setServers(list) == servers' = IF list = {} THEN servers ELSE list

Reloaded(g) ==
    /\ step[g] = "fetched"
    /\ setServers(fetched[g])
    /\ fetched' = [fetched EXCEPT ![g] = {}]
    /\ RouterGoto(g, "ready")
    /\ UNCHANGED <<world, fresh, least, scan, chosen, faults>>

-----------------------------------------------------------------------------
(* What a request gets.                                                    *)

\* rand.Intn panics for an empty list: the request ends without a server.
RandomServer(g) ==
    /\ step[g] = "ready"
    /\ \/ \E s \in servers : chosen' = [chosen EXCEPT ![g] = s]
       \/ servers = {} /\ chosen' = [chosen EXCEPT ![g] = NoLeast]
    /\ RouterGoto(g, "idle")
    /\ UNCHANGED <<world, servers, fresh, least, fetched, scan, faults>>

\* Without a least loaded server it is RandomServer (CheckAge and on).
LeastLoaded(g) ==
    /\ step[g] = "idle"
    /\ least # NoLeast
    /\ chosen' = [chosen EXCEPT ![g] = least]
    /\ UNCHANGED <<world, servers, fresh, least, step, fetched, scan, faults>>

-----------------------------------------------------------------------------
(* WatchLoad: after each reload updateLoadAndMetrics asks every server of  *)
(* the list as it is now.                                                  *)

StartScan ==
    /\ step[Watcher] = "ready"
    /\ scan' = [NoScan EXCEPT !.todo = servers]
    /\ RouterGoto(Watcher, "scan")
    /\ UNCHANGED <<world, servers, fresh, least, fetched, chosen, faults>>

\* Mutant of Better: the first server that answers is kept.
BetterFirst(s) == scan.best = NoLeast /\ s \notin Private

Better(s) == (scan.best = NoLeast \/ load[s] < scan.min) /\ s \notin Private

WalletList(s) ==
    /\ step[Watcher] = "scan"
    /\ s \in scan.todo
    /\ scan' = [scan EXCEPT !.todo = @ \ {s},
                            !.best = IF Better(s) THEN s ELSE @,
                            !.min = IF Better(s) THEN load[s] ELSE @,
                            !.seen[s] = load[s],
                            !.asked = @ \cup {s}]
    /\ UNCHANGED <<world, servers, fresh, least, step, fetched, chosen, faults>>

NotResponding(s) ==
    /\ step[Watcher] = "scan"
    /\ s \in scan.todo
    /\ faults < MaxFaults /\ faults' = faults + 1
    /\ scan' = [scan EXCEPT !.todo = @ \ {s}]
    /\ UNCHANGED <<world, servers, fresh, least, step, fetched, chosen>>

Elected == IF scan.best = NoLeast THEN least ELSE scan.best

EndScan ==
    /\ step[Watcher] = "scan"
    /\ scan.todo = {}
    /\ least' = Elected
    /\ scan' = NoScan
    /\ RouterGoto(Watcher, "idle")
    /\ UNCHANGED <<world, servers, fresh, fetched, chosen, faults>>

-----------------------------------------------------------------------------

\* 30 seconds have passed since the last query.
Age ==
    /\ fresh /\ fresh' = FALSE
    /\ UNCHANGED <<world, servers, least, step, fetched, scan, chosen, faults>>

\* Users load wallets, and wallets are unloaded.
LoadChanges(s) ==
    /\ changes < MaxChanges /\ changes' = changes + 1
    /\ \E n \in (0..MaxLoad) \ {load[s]} : load' = [load EXCEPT ![s] = n]
    /\ UNCHANGED <<table, servers, fresh, least, step, fetched, scan, chosen, faults>>

\* An operator adds or removes a server.
TableChanges ==
    /\ changes < MaxChanges /\ changes' = changes + 1
    /\ table' \in (SUBSET Servers) \ {table}
    /\ UNCHANGED <<load, servers, fresh, least, step, fetched, scan, chosen, faults>>

Reload(g) == CheckAge(g) \/ AllG(g) \/ Reloaded(g)
Scan == StartScan \/ EndScan \/ \E s \in Servers : WalletList(s) \/ NotResponding(s)

RouterNext ==
    \/ \E g \in Goroutines : Reload(g)
    \/ \E g \in Callers : RandomServer(g) \/ LeastLoaded(g)
    \/ Scan
    \/ Age \/ TableChanges \/ \E s \in Servers : LoadChanges(s)

RouterSpec == New /\ [][RouterNext]_routerVars

\* The ticker of WatchLoad, time, and calls that end.
RouterFairSpec ==
    /\ RouterSpec
    /\ WF_routerVars(Reload(Watcher) \/ Scan) /\ WF_routerVars(Age)
    /\ \A g \in Callers : WF_routerVars(AllG(g) \/ Reloaded(g) \/ RandomServer(g))

-----------------------------------------------------------------------------
(* Properties                                                              *)

\* Once there is a server to choose from there always is one: neither a failing
\* query nor an emptied table makes RandomServer panic (setServers).
NeverEmptied == servers # {} => servers' # {}

\* A new least loaded server is public, has answered in this scan, and no public
\* server has answered with a smaller load (updateLoadAndMetrics), however the
\* loads and the list have changed while the servers were being asked.
LeastOfAnswers ==
    least' # least =>
        /\ least' \in scan.asked \ Private
        /\ \A s \in scan.asked \ Private : scan.seen[least'] <= scan.seen[s]

\* Only before the first scan has found a server may a new user be put on a
\* private server (LeastLoaded).
PrivateOnlyAtFirst ==
    \A g \in Callers : chosen'[g] \in Private /\ step[g] = "idle" => chosen'[g] = chosen[g]

\* What the router promises about the server it gives: each line is stated above.
RouterSafe ==
    [][RouterTypeOK' /\ NeverEmptied /\ LeastOfAnswers /\ PrivateOnlyAtFirst]_routerVars

\* A server that has been removed from the table is not given to new users for
\* ever: when the table and the servers have been at rest for long enough, the
\* least loaded one is in it (WatchLoad), if it has a public server.
LeastCatchesUp == <>[](table \subseteq Private \/ least \in table)
=================================================================================
