----------------------------- MODULE Responder -----------------------------
(***************************************************************************)
(* The response of a request on its way through the outermost middleware   *)
(* (server/server.go).  ErrorLoggingMiddleware runs the handler on a       *)
(* recorder, recovers a panic, and then sends either what was recorded or  *)
(* an error of its own.  A handler is any sequence of calls on the writer  *)
(* that ends in a return or a panic; net/http's own writer, given the same *)
(* calls, is the reference the recorder is compared with.                  *)
(***************************************************************************)
EXTENDS Naturals, Sequences

CONSTANTS
    Headers,    \* names of headers a handler sets
    Codes,      \* status codes it writes
    Chunks,     \* pieces of body
    MaxCalls    \* bound on its calls

ASSUME ResponderConstants ==
    /\ Codes \subseteq Nat \ {0}
    /\ MaxCalls \in Nat \ {0}

VARIABLES
    calls,      \* calls of the handler so far
    direct,     \* net/http's own writer, if the handler had been given it
    rec,        \* the responseRecorder
    received,   \* what net/http was given for the client
    phase       \* running, returned, panicked, answered

responderVars == <<calls, direct, rec, received, phase>>

Empty == [status |-> 0, header |-> {}, body |-> <<>>, wrote |-> FALSE]

(* defaultHeadersMiddleware has set its headers, on the recorder.          *)
ResponderInit ==
    /\ calls = 0 /\ direct = [Empty EXCEPT !.header = {"default"}]
    /\ rec = [Empty EXCEPT !.header = {"default"}]
    /\ received = Empty
    /\ phase = "running"

-----------------------------------------------------------------------------
(* net/http's writer: the first status counts, headers are frozen with it, *)
(* a body without a status is a 200, and so is a return without anything.  *)

HttpHeader(w, h) == IF w.wrote THEN w ELSE [w EXCEPT !.header = @ \cup {h}]

HttpWriteHeader(w, code) ==
    IF w.wrote THEN w ELSE [w EXCEPT !.status = code, !.wrote = TRUE]

HttpWrite(w, chunks) ==
    [HttpWriteHeader(w, 200) EXCEPT !.body = @ \o chunks]

HttpDone(w) == HttpWriteHeader(w, 200)

-----------------------------------------------------------------------------
(* responseRecorder                                                        *)

RecHeader(r, h) == [r EXCEPT !.header = @ \cup {h}]

\* Mutant of WriteHeader: the last status counts, not the first.
WriteHeaderLast(r, code) == [r EXCEPT !.status = code, !.wrote = TRUE]

WriteHeader(r, code) ==
    IF r.wrote THEN r ELSE [r EXCEPT !.status = code, !.wrote = TRUE]

Write(r, chunk) ==
    [WriteHeader(r, 200) EXCEPT !.body = Append(@, chunk)]

(* send: all headers, the status if there is one, the body if there is one.*)
send(r, w) ==
    LET h == [w EXCEPT !.header = @ \cup r.header]
        s == IF r.status > 0 THEN HttpWriteHeader(h, r.status) ELSE h
    IN  IF r.body # <<>> THEN HttpWrite(s, r.body) ELSE s

-----------------------------------------------------------------------------
(* The handler calls the writer: both answer.                              *)
Both(d, r) ==
    /\ phase = "running" /\ calls < MaxCalls
    /\ calls' = calls + 1
    /\ direct' = d /\ rec' = r
    /\ UNCHANGED <<received, phase>>

CallHeader == \E h \in Headers : Both(HttpHeader(direct, h), RecHeader(rec, h))
CallWriteHeader == \E c \in Codes : Both(HttpWriteHeader(direct, c), WriteHeader(rec, c))
CallWrite == \E b \in Chunks : Both(HttpWrite(direct, <<b>>), Write(rec, b))

HandlerReturn ==
    /\ phase = "running"
    /\ phase' = "returned"
    /\ UNCHANGED <<calls, direct, rec, received>>

(* The handler panics; Recover makes an error of it.                       *)
Panic ==
    /\ phase = "running"
    /\ phase' = "panicked"
    /\ UNCHANGED <<calls, direct, rec, received>>

(* No panic: the recorded response is sent.                                *)
SendRecorded ==
    /\ phase = "returned"
    /\ received' = HttpDone(send(rec, received))
    /\ phase' = "answered"
    /\ UNCHANGED <<calls, direct, rec>>

PanicResponse(w) ==
    HttpWrite(HttpWriteHeader(HttpHeader(w, "json"), 500), <<"error">>)

(* A panic: the client gets a JSON-RPC error, nothing of what was recorded.*)
SendError ==
    /\ phase = "panicked"
    /\ received' = PanicResponse(received)
    /\ phase' = "answered"
    /\ UNCHANGED <<calls, direct, rec>>

ResponderNext ==
    \/ CallHeader \/ CallWriteHeader \/ CallWrite
    \/ HandlerReturn \/ Panic \/ SendRecorded \/ SendError

ResponderSpec == ResponderInit /\ [][ResponderNext]_responderVars

-----------------------------------------------------------------------------
(* Type correctness; the recorder has a body only with a status, and the   *)
(* client is given nothing before the handler is through.                  *)
ResponderTypeOK ==
    /\ phase \in {"running", "returned", "panicked", "answered"}
    /\ rec.status \in Codes \cup {0, 200}
    /\ rec.body # <<>> => rec.wrote
    /\ phase # "answered" => received = Empty

(* A handler that returns cannot tell the recorder from net/http's writer: *)
(* for every sequence of calls the client gets the status and the body     *)
(* net/http would have sent, and at least its headers.  (Headers set after *)
(* the status are dropped by net/http and sent by the recorder.)           *)
SameAsDirect ==
    (phase = "returned" \/ (phase = "answered" /\ received.body # <<"error">>))
    => LET d == HttpDone(direct)
           c == HttpDone(send(rec, Empty))
       IN  /\ c.status = d.status /\ c.body = d.body
           /\ d.header \subseteq c.header
           /\ phase = "answered" => received = c

(* After a panic the client gets the error response alone: status 500, the *)
(* one error body and no header of the handler's, whatever was recorded    *)
(* before the panic (ErrorLoggingMiddleware).                              *)
PanicIsWhole ==
    (phase = "panicked" /\ phase' = "answered") =>
        /\ received'.status = 500
        /\ received'.body = <<"error">>
        /\ received'.header = {"json"}

\* What the recording writer promises to the client: each line is stated above.
ResponderSafe == [][(ResponderTypeOK /\ SameAsDirect)' /\ PanicIsWhole]_responderVars

=============================================================================
