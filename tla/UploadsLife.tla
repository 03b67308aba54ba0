------------------------------ MODULE UploadsLife ------------------------------
(***************************************************************************)
(* The life of the uploads service (apps/uploads/cmd/main.go and the       *)
(* Launcher of apps/uploads/uploads.go): the main goroutine that builds    *)
(* and serves, the goroutine that waits for a signal, the listeners of the *)
(* upload hooks, and requests, which hand their events to the listeners    *)
(* over channels without a buffer.  The rows the listeners write are the   *)
(* subject of Uploads.                                                     *)
(***************************************************************************)
EXTENDS Naturals, FiniteSets

CONSTANTS
    Listeners,     \* the hooks that have a listener
    Conns          \* bound: requests that come in

VARIABLES
    main,          \* where the main goroutine is, or how the process ended
    trap,          \* where the goroutine of the signals is
    ready,         \* the context behind livez: "nil" until BuildHandler makes it
    server,        \* the http.Server
    stopChan,      \* the channel h.stopChan refers to; 0: there is no handler
    closed,        \* channels that are closed
    listening,     \* where each listener is
    watch,         \* the channel a listener waits on besides its events
    req            \* where each request is: for "send", the hook it waits for

lifeVars == <<main, trap, ready, server, stopChan, closed, listening, watch, req>>

Ended == {"fatal", "killed", "panicked", "exited"}
NoHook == "none"

\* Types of the state.  Listeners exist once there is a handler, and only a
\* channel that was made is closed.
LifeTypeOK ==
    /\ main \in {"connect", "build", "handler", "listen", "launch", "serve", "wait"} \cup Ended
    /\ trap \in {"off", "notify", "waiting", "start", "grace", "shutdown", "close", "cancel", "done"}
    /\ ready \in {"nil", "live", "cancelled"}
    /\ server \in {"nil", "built", "listening", "closed", "failed"}
    /\ stopChan \in 0..2 /\ closed \subseteq 1..stopChan
    /\ listening \in [Listeners -> {"none", "top", "select", "busy", "stopped"}]
    /\ watch \in [Listeners -> 0..2]
    /\ req \in [Conns -> [at : {"idle", "run", "send", "answered"}, hook : Listeners \cup {NoHook}]]
    /\ stopChan = 0 => \A l \in Listeners : listening[l] = "none"

LifeInit ==
    /\ main = "connect" /\ trap = "off"
    /\ ready = "nil" /\ server = "nil"
    /\ stopChan = 0 /\ closed = {}
    /\ listening = [l \in Listeners |-> "none"] /\ watch = [l \in Listeners |-> 0]
    /\ req = [r \in Conns |-> [at |-> "idle", hook |-> NoHook]]

Alive == main \notin Ended

-----------------------------------------------------------------------------
(* The main goroutine. *)

\* Configuration, S3, Redis, the public key and the database; any of them may
\* be missing.  Then the goroutine of the signals is started.
Connect ==
    /\ main = "connect"
    /\ \/ main' = "fatal" /\ UNCHANGED trap
       \/ main' = "build" /\ trap' = "notify"
    /\ UNCHANGED <<ready, server, stopChan, closed, listening, watch, req>>

\* BuildHandler up to the context of livez: a bad key, a bucket that can not
\* be made and is not there, a bad Redis URL end the process.
BuildHandler ==
    /\ main = "build"
    /\ \/ main' = "fatal" /\ UNCHANGED ready
       \/ main' = "handler" /\ ready' = "live"
    /\ UNCHANGED <<trap, server, stopChan, closed, listening, watch, req>>

\* The tus handler, the routes, the server and the handler with its channel.
BuildServer ==
    /\ main = "handler"
    /\ \/ main' = "fatal" /\ UNCHANGED <<server, stopChan>>
       \/ main' = "listen" /\ server' = "built" /\ stopChan' = 1
    /\ UNCHANGED <<trap, ready, closed, listening, watch, req>>

\* listenToHooks starts the listeners,
StartListener(l) ==
    /\ main = "listen" /\ listening[l] = "none"
    /\ listening' = [listening EXCEPT ![l] = "top"]
    /\ UNCHANGED <<main, trap, ready, server, stopChan, closed, watch, req>>

\* and then makes the channel that CompleteShutdown will close.
ReplaceStopChan ==
    /\ main = "listen" /\ \A l \in Listeners : listening[l] # "none"
    /\ stopChan' = 2
    /\ main' = "launch"
    /\ UNCHANGED <<trap, ready, server, closed, listening, watch, req>>

\* ListenAndServe: a server that was shut down before returns at once, and an
\* address that is taken is only logged.
Launch ==
    /\ main = "launch"
    /\ \/ server = "built" /\ server' = "listening" /\ main' = "serve"
       \/ server = "built" /\ server' = "failed" /\ main' = "wait"
       \/ server = "closed" /\ main' = "wait" /\ UNCHANGED server
    /\ UNCHANGED <<trap, ready, stopChan, closed, listening, watch, req>>

ServerStopped ==
    /\ main = "serve" /\ server = "closed"
    /\ main' = "wait"
    /\ UNCHANGED <<trap, ready, server, stopChan, closed, listening, watch, req>>

\* runCtx is done: main returns.
Return ==
    /\ main = "wait" /\ trap = "done"
    /\ main' = "exited"
    /\ UNCHANGED <<trap, ready, server, stopChan, closed, listening, watch, req>>

-----------------------------------------------------------------------------
(* The goroutine of the signals. *)

Notify ==
    /\ Alive /\ trap = "notify"
    /\ trap' = "waiting"
    /\ UNCHANGED <<main, ready, server, stopChan, closed, listening, watch, req>>

\* A signal ends a process that has not asked for it yet.
Signal ==
    /\ Alive
    /\ \/ trap \in {"off", "notify"} /\ main' = "killed" /\ UNCHANGED trap
       \/ trap = "waiting" /\ trap' = "start" /\ UNCHANGED main
    /\ UNCHANGED <<ready, server, stopChan, closed, listening, watch, req>>

\* readyCancel is nil before BuildHandler has got to it.
StartShutdown ==
    /\ Alive /\ trap = "start"
    /\ IF ready = "nil"
       THEN main' = "panicked" /\ UNCHANGED <<trap, ready>>
       ELSE ready' = "cancelled" /\ trap' = "grace" /\ UNCHANGED main
    /\ UNCHANGED <<server, stopChan, closed, listening, watch, req>>

\* The configured time for the readiness probe.
GracePeriod ==
    /\ Alive /\ trap = "grace"
    /\ trap' = "shutdown"
    /\ UNCHANGED <<main, ready, server, stopChan, closed, listening, watch, req>>

Active(r) == req[r].at \in {"run", "send"}

\* CompleteShutdown: no new requests; the server may not be there yet.
CompleteShutdown ==
    /\ Alive /\ trap = "shutdown"
    /\ IF server = "nil"
       THEN main' = "panicked" /\ UNCHANGED <<trap, server>>
       ELSE server' = "closed" /\ trap' = "close" /\ UNCHANGED main
    /\ UNCHANGED <<ready, stopChan, closed, listening, watch, req>>

\* Mutant of CloseStopChan: requests are not waited for.
CloseStopChanEarly ==
    /\ Alive /\ trap = "close"
    /\ closed' = closed \cup {stopChan}
    /\ trap' = "cancel"
    /\ UNCHANGED <<main, ready, server, stopChan, listening, watch, req>>

\* Shutdown has waited for the requests; the listeners are told to stop.
CloseStopChan ==
    /\ Alive /\ trap = "close"
    /\ \A r \in Conns : ~Active(r)
    /\ closed' = closed \cup {stopChan}
    /\ trap' = "cancel"
    /\ UNCHANGED <<main, ready, server, stopChan, listening, watch, req>>

RunCancel ==
    /\ Alive /\ trap = "cancel"
    /\ trap' = "done"
    /\ UNCHANGED <<main, ready, server, stopChan, closed, listening, watch, req>>

-----------------------------------------------------------------------------
(* Listeners and requests. *)

\* select looks at h.stopChan once, when it is entered.
Select(l) ==
    /\ Alive /\ listening[l] = "top"
    /\ listening' = [listening EXCEPT ![l] = "select"]
    /\ watch' = [watch EXCEPT ![l] = stopChan]
    /\ UNCHANGED <<main, trap, ready, server, stopChan, closed, req>>

StopListener(l) ==
    /\ Alive /\ listening[l] = "select" /\ watch[l] \in closed
    /\ listening' = [listening EXCEPT ![l] = "stopped"]
    /\ UNCHANGED <<main, trap, ready, server, stopChan, closed, watch, req>>

\* A request is accepted while the server listens.
Arrive(r) ==
    /\ Alive /\ req[r].at = "idle" /\ server = "listening"
    /\ req' = [req EXCEPT ![r].at = "run"]
    /\ UNCHANGED <<main, trap, ready, server, stopChan, closed, listening, watch>>

\* It has an event for a hook, or none.
Emit(r) ==
    /\ Alive /\ req[r].at = "run"
    /\ \/ req' = [req EXCEPT ![r].at = "answered"]
       \/ \E l \in Listeners : req' = [req EXCEPT ![r] = [at |-> "send", hook |-> l]]
    /\ UNCHANGED <<main, trap, ready, server, stopChan, closed, listening, watch>>

\* The listener takes the event, and the request goes on to its answer.
TakeEvent(l, r) ==
    /\ Alive /\ listening[l] = "select"
    /\ req[r] = [at |-> "send", hook |-> l]
    /\ listening' = [listening EXCEPT ![l] = "busy"]
    /\ req' = [req EXCEPT ![r] = [at |-> "answered", hook |-> NoHook]]
    /\ UNCHANGED <<main, trap, ready, server, stopChan, closed, watch>>

\* The statement and the hand-off are done, or have failed.
EventHandled(l) ==
    /\ Alive /\ listening[l] = "busy"
    /\ listening' = [listening EXCEPT ![l] = "top"]
    /\ UNCHANGED <<main, trap, ready, server, stopChan, closed, watch, req>>

MainStep ==
    Connect \/ BuildHandler \/ BuildServer \/ (\E l \in Listeners : StartListener(l))
    \/ ReplaceStopChan \/ Launch \/ ServerStopped \/ Return
TrapStep == Notify \/ StartShutdown \/ GracePeriod \/ CompleteShutdown \/ CloseStopChan \/ RunCancel
ListenerStep(l) ==
    Select(l) \/ StopListener(l) \/ EventHandled(l) \/ (\E r \in Conns : TakeEvent(l, r))

LifeNext ==
    \/ MainStep \/ TrapStep \/ Signal
    \/ \E l \in Listeners : ListenerStep(l)
    \/ \E r \in Conns : Arrive(r) \/ Emit(r)

LifeSpec == LifeInit /\ [][LifeNext]_lifeVars

\* Goroutines get on; S3, Redis and the database answer; no signal need come.
LifeFairSpec ==
    /\ LifeSpec /\ WF_lifeVars(MainStep) /\ WF_lifeVars(TrapStep)
    /\ \A l \in Listeners : WF_lifeVars(ListenerStep(l))
    /\ \A r \in Conns : WF_lifeVars(Emit(r))

-----------------------------------------------------------------------------

\* livez has said 503 before the server stops taking requests
\* (StartShutdown, CompleteShutdown).
WarnedBeforeClosed == server = "closed" => ready = "cancelled"

\* main returns when every request it took has its answer (Shutdown waits
\* for them, and their events need the listeners).
RequestsDrained == main = "exited" => \A r \in Conns : ~Active(r)

\* What the shutdown of the uploads service promises to its clients: each line is
\* stated above.
LifeSafe ==
    /\ LifeTypeOK
    /\ WarnedBeforeClosed
    /\ RequestsDrained

\* Every request that was accepted is answered, also when the service is
\* being shut down, unless a signal kills a process that did not wait for it.
RequestsEnd == \A r \in Conns : Active(r) ~> req[r].at = "answered" \/ main = "killed"

\* A signal ends the process.
UploadsSignalEnds == trap = "start" ~> ~Alive
=============================================================================
