------------------------------- MODULE Watchman -------------------------------
(***************************************************************************)
(* Watchman (apps/watchman): playback reports come in by HTTP, are         *)
(* validated, put on a channel and written to ClickHouse in batches by one *)
(* goroutine (olapdb/batch.go).                                            *)
(***************************************************************************)
EXTENDS Integers, Sequences

CONSTANTS
    Reports,
    Bodies,        \* bodies a request may have
    Capacity,      \* buffer of rcvChan
    MaxFailures    \* bound on batches that can not be written

\* The numbers of a body are int32 in the code; the proofs need them to be integers.
ASSUME WatchmanAssumption ==
    /\ Capacity \in Nat /\ MaxFailures \in Nat
    /\ \A b \in Bodies : {b.duration, b.rel_position, b.rebuf_count, b.rebuf_duration} \subseteq Int

VARIABLES
    body,          \* per request
    reportAt,      \* where a request is
    code,          \* its answer
    rcvChan,       \* the channel, of requests
    closed,        \* Stop was called
    batch,         \* BatchWriter.batch
    writer,        \* where Start is
    playback,      \* its rows: functions of the request they come from
    dropped,       \* requests whose batch could not be written
    failures,
    serving        \* the process: up, stopping after a signal, down

watchmanVars == <<body, reportAt, code, rcvChan, closed, batch, writer, playback, dropped, failures, serving>>

\* AddRequestBody, as far as the checks tell bodies apart: missing says that a
\* required field is absent, lengths and enums that the strings are in bounds.
Body(missing, lengths, enums, duration, rel, count, rebuf) ==
    [missing |-> missing, lengths |-> lengths, enums |-> enums, duration |-> duration,
     rel_position |-> rel, rebuf_count |-> count, rebuf_duration |-> rebuf]

WatchmanTypeOK ==
    /\ body \in [Reports -> Bodies]
    /\ reportAt \in [Reports -> {"idle", "send", "done", "panicked"}]
    /\ code \in [Reports -> {0, 201, 400, 500}]
    /\ rcvChan \in Seq(Reports) /\ Len(rcvChan) <= Capacity
    /\ closed \in BOOLEAN /\ serving \in {"up", "stopping", "down"}
    /\ batch \in Seq(Reports)
    /\ writer \in {"select", "writing", "ended"}
    /\ DOMAIN playback \subseteq Reports
    /\ dropped \subseteq Reports
    /\ failures \in 0 .. MaxFailures

\* Connect and serve.
WatchmanInit ==
    /\ body \in [Reports -> Bodies]
    /\ reportAt = [r \in Reports |-> "idle"] /\ code = [r \in Reports |-> 0]
    /\ rcvChan = <<>> /\ closed = FALSE /\ serving = "up"
    /\ batch = <<>> /\ writer = "select"
    /\ playback = <<>> /\ dropped = {} /\ failures = 0

Running == serving # "down"

-----------------------------------------------------------------------------

\* ValidateAddRequestBody: no number is negative; a count has no upper bound.
Validate(b) ==
    /\ ~b.missing /\ b.lengths /\ b.enums
    /\ b.duration >= 0 /\ b.rebuf_duration >= 0 /\ b.rel_position >= 0 /\ b.rebuf_count >= 0
    /\ b.duration <= 60000 /\ b.rebuf_duration <= 60000 /\ b.rel_position <= 100

\* reportersrvc.Add refuses what can not be.
Plausible(b) == b.rebuf_duration <= b.duration

\* prepareArgs: uint8 for position and count, uint32, which holds every int32
\* that is not negative, for the others.
prepareArgs(b) ==
    [duration |-> b.duration, rel_position |-> b.rel_position % 256,
     rebuf_count |-> b.rebuf_count % 256, rebuf_duration |-> b.rebuf_duration]

AnswerReport(r, c) == code' = [code EXCEPT ![r] = c] /\ reportAt' = [reportAt EXCEPT ![r] = "done"]

\* NewAddHandler, the body can not be decoded or Add refuses it.
RefuseReport(r) ==
    /\ serving = "up" /\ reportAt[r] = "idle"
    /\ ~Validate(body[r]) \/ ~Plausible(body[r])
    /\ AnswerReport(r, 400)
    /\ UNCHANGED <<body, rcvChan, closed, batch, writer, playback, dropped, failures, serving>>

\* Add as far as the send on the channel.
Add(r) ==
    /\ serving = "up" /\ reportAt[r] = "idle"
    /\ Validate(body[r]) /\ Plausible(body[r])
    /\ reportAt' = [reportAt EXCEPT ![r] = "send"]
    /\ UNCHANGED <<body, code, rcvChan, closed, batch, writer, playback, dropped, failures, serving>>

\* BatchWriter.Write waits for room in the channel, then Add answers 201.
Send(r) ==
    /\ Running /\ reportAt[r] = "send" /\ ~closed
    /\ Len(rcvChan) < Capacity
    /\ rcvChan' = Append(rcvChan, r)
    /\ AnswerReport(r, 201)
    /\ UNCHANGED <<body, closed, batch, writer, playback, dropped, failures, serving>>

\* A send on a closed channel panics.
SendPanics(r) ==
    /\ Running /\ reportAt[r] = "send" /\ closed
    /\ reportAt' = [reportAt EXCEPT ![r] = "panicked"]
    /\ code' = [code EXCEPT ![r] = 500]
    /\ UNCHANGED <<body, rcvChan, closed, batch, writer, playback, dropped, failures, serving>>

-----------------------------------------------------------------------------
\* Start, the goroutine of the batch writer.

ReceiveReport ==
    /\ Running /\ writer = "select" /\ rcvChan # <<>>
    /\ batch' = Append(batch, Head(rcvChan))
    /\ rcvChan' = Tail(rcvChan)
    /\ UNCHANGED <<body, reportAt, code, closed, writer, playback, dropped, failures, serving>>

\* A closed and empty channel gives nil: Start goes round. Nothing sets stop,
\* so that the loop does not end.
ReceiveNil ==
    /\ Running /\ writer = "select" /\ rcvChan = <<>> /\ closed
    /\ UNCHANGED watchmanVars

\* The ticker: an empty batch is left alone.
Tick ==
    /\ Running /\ writer = "select" /\ batch # <<>>
    /\ writer' = "writing"
    /\ UNCHANGED <<body, reportAt, code, rcvChan, closed, batch, playback, dropped, failures, serving>>

ReportRows(s) == {s[k] : k \in DOMAIN s}

\* writeBatch: all rows are committed, and the batch is emptied.
WriteBatch ==
    /\ Running /\ writer = "writing"
    /\ playback' = [r \in DOMAIN playback \cup ReportRows(batch) |->
                   IF r \in ReportRows(batch) THEN prepareArgs(body[r]) ELSE playback[r]]
    /\ batch' = <<>> /\ writer' = "select"
    /\ UNCHANGED <<body, reportAt, code, rcvChan, closed, dropped, failures, serving>>

\* Mutant of WriteBatchFails: the batch is neither stored nor reported.
WriteBatchForgets ==
    /\ Running /\ writer = "writing" /\ failures < MaxFailures
    /\ failures' = failures + 1
    /\ batch' = <<>> /\ writer' = "select"
    /\ UNCHANGED <<body, reportAt, code, rcvChan, closed, playback, dropped, serving>>

\* It can not begin, prepare, execute or commit: nothing is stored, and the
\* batch is emptied all the same.
WriteBatchFails ==
    /\ Running /\ writer = "writing" /\ failures < MaxFailures
    /\ failures' = failures + 1
    /\ dropped' = dropped \cup ReportRows(batch)
    /\ batch' = <<>> /\ writer' = "select"
    /\ UNCHANGED <<body, reportAt, code, rcvChan, closed, playback, serving>>

\* Only the tests call it.
Stop ==
    /\ Running /\ ~closed
    /\ closed' = TRUE
    /\ UNCHANGED <<body, reportAt, code, rcvChan, batch, writer, playback, dropped, failures, serving>>

\* A signal, or an error of the listener: no request is accepted any more.
WatchmanSignal ==
    /\ serving = "up"
    /\ serving' = "stopping"
    /\ UNCHANGED <<body, reportAt, code, rcvChan, closed, batch, writer, playback, dropped, failures>>

\* srv.Shutdown has waited for the requests or for 30 seconds, and serve
\* returns. Nobody stops the batch writer.
WatchmanExit ==
    /\ serving = "stopping"
    /\ serving' = "down"
    /\ UNCHANGED <<body, reportAt, code, rcvChan, closed, batch, writer, playback, dropped, failures>>

BatchWriter == ReceiveReport \/ ReceiveNil \/ Tick \/ WriteBatch \/ WriteBatchFails
HTTP(r) == RefuseReport(r) \/ Add(r) \/ Send(r) \/ SendPanics(r)

WatchmanNext == (\E r \in Reports : HTTP(r)) \/ BatchWriter \/ Stop \/ WatchmanSignal \/ WatchmanExit
WatchmanSpec == WatchmanInit /\ [][WatchmanNext]_watchmanVars

\* Goroutines run and the ticker ticks: select picks every case again and
\* again, however often the channel is ready.
WatchmanFair ==
    /\ \A r \in Reports : WF_watchmanVars(HTTP(r))
    /\ WF_watchmanVars(ReceiveReport) /\ SF_watchmanVars(Tick)
    /\ WF_watchmanVars(WriteBatch \/ WriteBatchFails)
WatchmanFairSpec == WatchmanSpec /\ WatchmanFair

-----------------------------------------------------------------------------

\* The places where a report is.
ReportPlaces(r) ==
    ({"channel"} \X {k \in DOMAIN rcvChan : rcvChan[k] = r})
    \cup ({"batch"} \X {k \in DOMAIN batch : batch[k] = r})
    \cup ({"table"} \X (DOMAIN playback \cap {r}))
    \cup ({"dropped"} \X (dropped \cap {r}))

\* A report that was answered 201 is on its way to the table, is there, or
\* was in a batch that could not be written: it is in one of them and in one
\* only, so that none is written twice.
AcceptedIsSomewhere ==
    \A r \in Reports : code[r] = 201 => \E p \in ReportPlaces(r) : ReportPlaces(r) = {p}

\* Only reports that passed every check are in the table.
TableIsValid ==
    \A r \in DOMAIN playback : code[r] = 201 /\ body[r].rebuf_duration <= body[r].duration

\* What has an upper bound in the API is stored as it was reported, through
\* the narrower integers of prepareArgs.
StoredAsReported ==
    \A r \in DOMAIN playback :
        \A f \in {"duration", "rel_position", "rebuf_duration"} : playback[r][f] = body[r][f]

\* What watchman promises about a report: each line is stated above.
WatchmanSafe ==
    /\ WatchmanTypeOK
    /\ TableIsValid
    /\ StoredAsReported
    /\ AcceptedIsSomewhere

\* An accepted report gets to the table while the process serves, unless its
\* batch could not be written.
AcceptedIsStored ==
    \A r \in Reports : (code[r] = 201) ~> (r \in DOMAIN playback \cup dropped \/ ~Running)
=============================================================================
