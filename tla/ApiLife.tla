-------------------------------- MODULE ApiLife --------------------------------
(***************************************************************************)
(* The life of the API process: cmd/serve.go, server/server.go, the wiring *)
(* of api/routes.go and the queue of the asynchronous queries, which       *)
(* api/routes.go starts in the same process (app/asynquery/routes.go,      *)
(* pkg/queue/queue.go).  main and the queue each ask for signals; a signal *)
(* that comes before either has asked kills the process.                   *)
(***************************************************************************)
EXTENDS Naturals, FiniteSets

CONSTANTS
    HttpRequests,  \* bound: HTTP requests
    MaxSignals     \* bound: signals sent to the process

ASSUME ApiLifeAssumption == MaxSignals \in Nat

VARIABLES
    main,          \* where the Run function of the root command is
    server,        \* the listener's goroutine
    queue,         \* the goroutine of launcher.Start
    req,           \* requests
    key,           \* the key for paid streams is set
    signals,       \* signals sent so far
    caught         \* main has been given one

apiVars == <<main, server, queue, req, key, signals, caught>>

Ended == {"fatal", "killed", "exited"}
Alive == main \notin Ended

\* Types of the state.  The queue starts with the routes, and main waits for
\* a signal with the key of the paid streams set.
ApiTypeOK ==
    /\ main \in {"routes", "start", "key", "notify", "wait", "shutdown"} \cup Ended
    /\ server \in {"off", "starting", "listening", "failed", "closed"}
    /\ queue \in {"off", "starting", "serving", "failed", "stopped"}
    /\ req \in [HttpRequests -> {"idle", "run", "answered", "cut"}]
    /\ key \in BOOLEAN /\ signals \in 0..MaxSignals /\ caught \in BOOLEAN
    /\ main \in {"notify", "wait", "shutdown", "exited"} => key /\ queue # "off"

ApiInit ==
    /\ main = "routes" /\ server = "off" /\ queue = "off"
    /\ req = [r \in HttpRequests |-> "idle"]
    /\ key = FALSE /\ signals = 0 /\ caught = FALSE

-----------------------------------------------------------------------------
(* main *)

\* NewServer and InstallRoutes: the authenticators, the lock, the tus handler,
\* the keys, the queue's connection and the admin routes; any that is missing
\* ends the process.
InstallRoutes ==
    /\ main = "routes"
    /\ \/ main' = "fatal" /\ UNCHANGED queue
       \/ main' = "start" /\ queue' = "starting"
    /\ UNCHANGED <<server, req, key, signals, caught>>

\* Start does not wait for the listener.
Start ==
    /\ main = "start"
    /\ server' = "starting"
    /\ main' = "key"
    /\ UNCHANGED <<queue, req, key, signals, caught>>

\* The key of the paid streams is read, and a new token cache made, when the
\* server is already there.
InitPrivateKey ==
    /\ main = "key"
    /\ \/ main' = "fatal" /\ UNCHANGED key
       \/ main' = "notify" /\ key' = TRUE
    /\ UNCHANGED <<server, queue, req, signals, caught>>

\* ServeUntilShutdown asks for signals, then waits on a channel without a
\* buffer.
NotifySignals ==
    /\ main = "notify"
    /\ main' = "wait"
    /\ UNCHANGED <<server, queue, req, key, signals, caught>>

\* Shutdown: no new requests.
Shutdown ==
    /\ main = "wait" /\ caught
    /\ server' = "closed"
    /\ main' = "shutdown"
    /\ UNCHANGED <<queue, req, key, signals, caught>>

\* Mutant of Drained: Shutdown is not waited for.
DrainedAtOnce ==
    /\ main = "shutdown"
    /\ main' = "exited"
    /\ UNCHANGED <<server, queue, req, key, signals, caught>>

\* Every request has its answer, and main returns.
Drained ==
    /\ main = "shutdown" /\ \A r \in HttpRequests : req[r] # "run"
    /\ main' = "exited"
    /\ UNCHANGED <<server, queue, req, key, signals, caught>>

\* After stopWait (15 seconds) main returns all the same.
ShutdownTimesOut ==
    /\ main = "shutdown"
    /\ req' = [r \in HttpRequests |-> IF req[r] = "run" THEN "cut" ELSE req[r]]
    /\ main' = "exited"
    /\ UNCHANGED <<server, queue, key, signals, caught>>

-----------------------------------------------------------------------------
(* The listener, the queue, and the world outside. *)

\* ListenAndServe; an error is only logged.
Listen ==
    /\ Alive /\ server = "starting"
    /\ server' \in {"listening", "failed"}
    /\ UNCHANGED <<main, queue, req, key, signals, caught>>

\* asynqServer.Run asks for signals and serves; an error is only logged.
QueueServe ==
    /\ Alive /\ queue = "starting"
    /\ queue' \in {"serving", "failed"}
    /\ UNCHANGED <<main, server, req, key, signals, caught>>

\* A request is accepted while the server listens.
Arrive(r) ==
    /\ Alive /\ req[r] = "idle" /\ server = "listening"
    /\ req' = [req EXCEPT ![r] = "run"]
    /\ UNCHANGED <<main, server, queue, key, signals, caught>>

Answer(r) ==
    /\ Alive /\ req[r] = "run"
    /\ req' = [req EXCEPT ![r] = "answered"]
    /\ UNCHANGED <<main, server, queue, key, signals, caught>>

Asked == main \in {"wait", "shutdown"} \/ queue \in {"serving", "stopped"}

\* A signal stops the queue when it serves, and wakes main when it waits; one
\* that nobody waits for is dropped if somebody has asked for signals, and
\* ends the process if not.
Signal ==
    /\ Alive /\ signals < MaxSignals
    /\ signals' = signals + 1
    /\ main' = IF Asked THEN main ELSE "killed"
    /\ queue' = IF queue = "serving" THEN "stopped" ELSE queue
    /\ caught' = (caught \/ main = "wait")
    /\ UNCHANGED <<server, req, key>>

MainStep ==
    \/ InstallRoutes \/ Start \/ InitPrivateKey \/ NotifySignals
    \/ Shutdown \/ Drained \/ ShutdownTimesOut

ApiNext ==
    \/ MainStep \/ Listen \/ QueueServe \/ Signal
    \/ \E r \in HttpRequests : Arrive(r) \/ Answer(r)

ApiSpec == ApiInit /\ [][ApiNext]_apiVars

\* Goroutines get on; no request need ever be answered, as the SDK may hang.
ApiFairSpec == ApiSpec /\ WF_apiVars(MainStep) /\ WF_apiVars(Listen) /\ WF_apiVars(QueueServe)

-----------------------------------------------------------------------------

\* main returns with a request unanswered only at the limit of Shutdown.
AnsweredOrCut == main = "exited" => \A r \in HttpRequests : req[r] # "run"

\* What the shutdown of the API promises to its clients: each line is stated above.
ApiSafe ==
    /\ ApiTypeOK
    /\ AnsweredOrCut

\* A signal that main was given ends the process, whatever requests do.
ApiSignalEnds == caught ~> ~Alive
=============================================================================
