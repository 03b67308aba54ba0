------------------------------- MODULE QueueLife -------------------------------
(***************************************************************************)
(* The life of a process that serves a queue: pkg/queue/queue.go as the    *)
(* forklift service uses it (apps/forklift/forklift.go, cmd/main.go).  The *)
(* asynq server keeps the tasks in Redis: a handler that fails costs its   *)
(* task an attempt, a server that is told to stop hands back what its      *)
(* workers have not finished.  Queue.Shutdown can be called by another     *)
(* goroutine at any moment after the queue is made.                        *)
(***************************************************************************)
EXTENDS Naturals, FiniteSets

CONSTANTS
    Tasks,          \* bound: upload requests
    Concurrency,    \* workers of the asynq server
    MaxRetry,       \* retries of a task before it is archived
    MaxFaults       \* bound: signals, crashes and failures of any kind

ASSUME QueueLifeAssumption ==
    Concurrency \in Nat \ {0} /\ MaxRetry \in Nat /\ MaxFaults \in Nat

VARIABLES
    proc,           \* where the goroutine of ServeUntilShutdown is
    server,         \* state of q.asynqServer
    shut,           \* where the goroutine that calls Shutdown is, if there is one
    stopped,        \* handlerStopChan is closed
    ticker,         \* the goroutine of the queue metrics
    clients,        \* the clients of both queues are open
    job,            \* the tasks in Redis
    fails,          \* attempts a task has used
    own,            \* attempts lost to the handler's errors and to crashes
    answers,        \* responses sent for a task
    faults          \* faults so far

queueVars == <<proc, server, shut, stopped, ticker, clients, job, fails, own, answers, faults>>

InHand == {"active", "sending", "sent"}
Busy == {t \in Tasks : job[t] \in InHand}

\* Types of the state.  Work is in hand only in a process that serves, and
\* never more of it than there are workers.
QueueTypeOK ==
    /\ proc \in {"down", "built", "made", "run", "stopping"}
    /\ server \in {"nil", "new", "active", "closing", "closed"}
    /\ shut \in {"never", "idle", "clients", "server", "wait", "done"}
    /\ ticker \in {"off", "on"} /\ clients \in BOOLEAN /\ stopped \in BOOLEAN
    /\ job \in [Tasks -> {"queued", "done", "archived"} \cup InHand]
    /\ fails \in [Tasks -> 0..MaxRetry + 1] /\ own \in [Tasks -> Nat]
    /\ answers \in [Tasks -> Nat] /\ faults \in 0..MaxFaults
    /\ Cardinality(Busy) <= Concurrency
    /\ Busy # {} => server \in {"active", "closing"}

QueueInit ==
    /\ proc = "down" /\ server = "nil" /\ shut \in {"never", "idle"} /\ ticker = "off"
    /\ clients = FALSE /\ stopped = FALSE
    /\ job = [t \in Tasks |-> "queued"]
    /\ fails = [t \in Tasks |-> 0] /\ own = [t \in Tasks |-> 0]
    /\ answers = [t \in Tasks |-> 0] /\ faults = 0

Fault == faults < MaxFaults /\ faults' = faults + 1

\* A failed attempt: again later, or never again.
Failed(T) ==
    /\ job' = [t \in Tasks |-> IF t \notin T THEN job[t]
                                ELSE IF fails[t] < MaxRetry THEN "queued" ELSE "archived"]
    /\ fails' = [t \in Tasks |-> IF t \in T THEN fails[t] + 1 ELSE fails[t]]

-----------------------------------------------------------------------------
(* The process *)

\* serve and Launcher.Build: the stores, both Redis connections (New pings
\* each) and the port of the metrics must be there; then the two handlers are
\* added.
Build ==
    /\ proc = "down"
    /\ proc' = "built" /\ clients' = TRUE
    /\ UNCHANGED <<server, shut, stopped, ticker, job, fails, own, answers, faults>>

\* Anything that is missing ends the process; its supervisor starts it again.
BuildFails ==
    /\ proc = "down" /\ Fault
    /\ UNCHANGED <<proc, server, shut, stopped, ticker, clients, job, fails, own, answers>>

\* ServeUntilShutdown makes the asynq server and starts the metrics.
ServeUntilShutdown ==
    /\ proc = "built"
    /\ proc' = "made" /\ server' = "new" /\ ticker' = "on"
    /\ UNCHANGED <<shut, stopped, clients, job, fails, own, answers, faults>>

\* asynqServer.Run starts the workers, then waits for a signal.
Run ==
    /\ proc = "made"
    /\ proc' = "run" /\ server' = "active"
    /\ UNCHANGED <<shut, stopped, ticker, clients, job, fails, own, answers, faults>>

Gone ==
    /\ proc' = "down" /\ server' = "nil" /\ ticker' = "off"
    /\ shut' = IF shut = "never" THEN shut ELSE "idle"
    /\ clients' = FALSE /\ stopped' = FALSE

\* A signal: Run stops the server.  Before Run nobody has asked for signals,
\* and the process ends.
QueueSignal ==
    /\ Fault
    /\ \/ /\ proc = "run"
          /\ proc' = "stopping"
          /\ server' = IF server = "active" THEN "closing" ELSE server
          /\ UNCHANGED <<shut, stopped, ticker, clients>>
       \/ proc \in {"built", "made"} /\ Gone
    /\ UNCHANGED <<job, fails, own, answers>>

\* Run returns when the server is closed, and with it the process.  When
\* Shutdown has told the server to stop first, Run does not wait for it, and
\* the leases of what is in hand run out.
QueueExit ==
    /\ proc = "stopping"
    /\ \/ server = "closed" /\ UNCHANGED <<job, fails>>
       \/ server = "closing" /\ shut = "wait" /\ Failed(Busy)
    /\ Gone
    /\ UNCHANGED <<own, answers, faults>>

\* The process is killed: the leases of its tasks run out, which costs each an
\* attempt.
QueueCrash ==
    /\ proc # "down" /\ Fault
    /\ Gone /\ Failed(Busy)
    /\ own' = [t \in Tasks |-> IF t \in Busy THEN own[t] + 1 ELSE own[t]]
    /\ UNCHANGED answers

-----------------------------------------------------------------------------
(* The workers *)

Take(t) ==
    /\ server = "active" /\ job[t] = "queued" /\ Cardinality(Busy) < Concurrency
    /\ job' = [job EXCEPT ![t] = "active"]
    /\ UNCHANGED <<proc, server, shut, stopped, ticker, clients, fails, own, answers, faults>>

\* The handler has done its work.
Work(t) ==
    /\ job[t] = "active"
    /\ job' = [job EXCEPT ![t] = "sending"]
    /\ UNCHANGED <<proc, server, shut, stopped, ticker, clients, fails, own, answers, faults>>

\* The handler returns an error.
HandlerFails(t) ==
    /\ job[t] = "active" /\ Fault
    /\ Failed({t}) /\ own' = [own EXCEPT ![t] = @ + 1]
    /\ UNCHANGED <<proc, server, shut, stopped, ticker, clients, answers>>

\* SendResponse; with a closed client the handler returns the error.
QueueResponse(t) ==
    /\ job[t] = "sending"
    /\ \/ /\ clients
          /\ job' = [job EXCEPT ![t] = "sent"]
          /\ answers' = [answers EXCEPT ![t] = @ + 1]
          /\ UNCHANGED fails
       \/ ~clients /\ Failed({t}) /\ UNCHANGED answers
    /\ UNCHANGED <<proc, server, shut, stopped, ticker, clients, own, faults>>

\* The handler has returned nil and the server marks the task.
Done(t) ==
    /\ job[t] = "sent"
    /\ job' = [job EXCEPT ![t] = "done"]
    /\ UNCHANGED <<proc, server, shut, stopped, ticker, clients, fails, own, answers, faults>>

\* No work is in hand any more: the server is closed.
Drained ==
    /\ server = "closing" /\ Busy = {}
    /\ server' = "closed"
    /\ UNCHANGED <<proc, shut, stopped, ticker, clients, job, fails, own, answers, faults>>

\* Mutant of Aborted: what is handed back has used an attempt.
AbortedCounts ==
    /\ server = "closing" /\ Busy # {}
    /\ server' = "closed"
    /\ Failed(Busy)
    /\ UNCHANGED <<proc, shut, stopped, ticker, clients, own, answers, faults>>

\* The time for that is over: what is in hand goes back to the queue.
Aborted ==
    /\ server = "closing" /\ Busy # {}
    /\ server' = "closed"
    /\ job' = [t \in Tasks |-> IF t \in Busy THEN "queued" ELSE job[t]]
    /\ UNCHANGED <<proc, shut, stopped, ticker, clients, fails, own, answers, faults>>

-----------------------------------------------------------------------------
(* Queue.Shutdown *)

\* Close handlerStopChan.
ShutStop ==
    /\ shut = "idle" /\ proc # "down"
    /\ shut' = "clients" /\ stopped' = TRUE
    /\ UNCHANGED <<proc, server, ticker, clients, job, fails, own, answers, faults>>

ShutClients ==
    /\ shut = "clients"
    /\ shut' = "server" /\ clients' = FALSE
    /\ UNCHANGED <<proc, server, stopped, ticker, job, fails, own, answers, faults>>

\* asynqServer.Shutdown does nothing when there is no server yet or it does
\* not run.
ShutServer ==
    /\ shut = "server"
    /\ \/ server = "active" /\ server' = "closing" /\ shut' = "wait"
       \/ server # "active" /\ shut' = "done" /\ UNCHANGED server
    /\ UNCHANGED <<proc, stopped, ticker, clients, job, fails, own, answers, faults>>

ShutReturns ==
    /\ shut = "wait" /\ server = "closed"
    /\ shut' = "done"
    /\ UNCHANGED <<proc, server, stopped, ticker, clients, job, fails, own, answers, faults>>

\* The goroutine of the metrics sees the closed channel, also when it has
\* been started after Shutdown.
TickerEnds ==
    /\ ticker = "on" /\ stopped
    /\ ticker' = "off"
    /\ UNCHANGED <<proc, server, shut, stopped, clients, job, fails, own, answers, faults>>

-----------------------------------------------------------------------------
QueueNext ==
    \/ Build \/ BuildFails \/ ServeUntilShutdown \/ Run \/ QueueSignal \/ QueueExit \/ QueueCrash
    \/ \E t \in Tasks : Take(t) \/ Work(t) \/ HandlerFails(t) \/ QueueResponse(t) \/ Done(t)
    \/ Drained \/ Aborted
    \/ ShutStop \/ ShutClients \/ ShutServer \/ ShutReturns \/ TickerEnds

\* Fair: the supervisor, the goroutines and the workers.  No fault is.
QueueFairness ==
    /\ WF_queueVars(Build \/ ServeUntilShutdown \/ Run)
    /\ WF_queueVars(QueueExit) /\ WF_queueVars(Drained \/ Aborted)
    /\ WF_queueVars(ShutClients \/ ShutServer \/ ShutReturns)
    /\ WF_queueVars(TickerEnds)
    /\ \A t \in Tasks : /\ WF_queueVars(Take(t))
                        /\ WF_queueVars(Work(t) \/ QueueResponse(t) \/ Done(t))

QueueSpec == QueueInit /\ [][QueueNext]_queueVars /\ QueueFairness

-----------------------------------------------------------------------------
\* A task is marked done only when its response is in the other queue: the
\* handlers return the error of SendResponse, and a task that fails stays in
\* the queue.
DoneIsAnswered == \A t \in Tasks : job[t] = "done" => answers[t] > 0

\* Where nobody calls Shutdown, stopping a process costs no task an attempt: only
\* errors of the handler and crashes do.  The package is for work that "requires execution guarantees"
\* (queue.go), and a task that has used its attempts is never tried again.
StopIsNoFailure == shut = "never" => \A t \in Tasks : fails[t] <= own[t]

\* What the queue promises about a task, over stops and crashes of its processes: each
\* line is stated above.
QueueSafe ==
    /\ QueueTypeOK
    /\ DoneIsAnswered
    /\ StopIsNoFailure

\* There a task is either answered or out of attempts in the end, however often
\* the process is stopped in between: Run hands back what its workers hold.
JobsSettle == shut = "never" => \A t \in Tasks : <>(answers[t] > 0 \/ fails[t] > MaxRetry)

\* A signal ends the process: the server waits for its workers a limited time.
QueueSignalEnds == (proc = "stopping") ~> (proc = "down")

\* Shutdown returns, whatever the state of the server: there may be none yet.
ShutdownReturns == (shut = "clients") ~> (shut \in {"done", "idle"})

\* The goroutine of the metrics does not outlive the queue: Shutdown closes its
\* channel, and one that ServeUntilShutdown starts later finds it closed.
MetricsStop == (shut = "done") ~> (ticker = "off")
=============================================================================
