---------------------------- MODULE EgressSession ----------------------------
(***************************************************************************)
(* The egress of one execution: the broker session (runlet/src/broker.rs)  *)
(* and the box-direct calls (runlet/src/local_io.rs) its script makes, one *)
(* at a time, from the blocking thread.                                    *)
(*                                                                         *)
(* A frame (runlet-wire/src/wire.rs) is a length prefix and a body, which  *)
(* may arrive apart.  A call that runs into the deadline drops the write   *)
(* or the read it is in: what has been sent or consumed stays so.  Time is *)
(* a clock that does not pass the instant at which a timer fires.  The     *)
(* broker is external: it answers requests in order, or never, or closes.  *)
(***************************************************************************)
EXTENDS Naturals, Sequences

CONSTANTS
    MaxCalls,    \* bound: the calls the script makes
    Deadline,    \* the execution's deadline, on a clock that starts with it
    MaxClock     \* bound: the clock stops here

ASSUME EgressAssumption ==
    /\ MaxCalls \in Nat \ {0} /\ Deadline \in Nat /\ MaxClock \in Nat
    /\ Deadline < MaxClock

VARIABLES
    clock,      \* time since BrokerEgress::new
    stage,         \* where the box is in the session
    calls,      \* io calls made so far; the current one is numbered calls
    started,    \* clock at which the current call began
    expires,    \* clock at which the timer of the current call fires
    outq,       \* request frames the broker has not answered yet
    cut,        \* a request frame was left half written
    inq,        \* parts of response frames the box has not read yet
    torn,       \* a response frame was left half read
    sending,    \* a response frame of which the broker has sent the prefix
    peer,       \* the broker's end: "open" or "closed"
    outcome,    \* call -> how it returned
    asked,      \* calls whose request was written whole (history)
    replyTo,    \* call -> the request whose response it read, 0 for none (history)
    metrics,    \* what drain_metrics returned
    local       \* box-direct metrics recorded

box == <<stage, calls, started, expires, outcome, asked, replyTo, metrics, local>>
wire == <<outq, cut, inq, torn, sending, peer>>
sessionVars == <<clock, box, wire>>

Calls == 1..MaxCalls

\* Requests: the handshake, the calls by number, the drain.
InitRequest == 0
DrainRequest == MaxCalls + 1
Requests == 0..(MaxCalls + 1)

Kinds == {"Ack", "InitError", "Reply", "Metrics", "ProtocolError", "Undecodable"}
Frames == [kind : Kinds, to : Requests]
NoFrame == [kind |-> "none", to |-> 0]
Part(p, frame) == [part |-> p, frame |-> frame]

Outcomes == {"none", "reply", "IO_TIMEOUT", "IO_TRANSPORT", "IO_PROTOCOL",
             "local_ok", "local_error"}
BrokerCall == {"call_write", "call_prefix", "call_body"}
LocalCall == {"local_send", "local_text"}
Drain == {"drain_write", "drain_prefix", "drain_body"}
Stages == {"init_write", "init_prefix", "init_body", "refused", "running", "closed"}
         \cup BrokerCall \cup LocalCall \cup Drain

SessionInit ==
    /\ clock = 0 /\ stage = "init_write" /\ calls = 0 /\ started = 0 /\ expires = 0
    /\ outq = <<>> /\ cut = FALSE /\ inq = <<>> /\ torn = FALSE
    /\ sending = NoFrame /\ peer = "open"
    /\ outcome = [c \in Calls |-> "none"] /\ replyTo = [c \in Calls |-> 0]
    /\ asked = {} /\ metrics = "none" /\ local = 0

-----------------------------------------------------------------------------
(* Framing                                                                 *)

\* write_frame completes; a broker that lost the framing parses nothing more.
Written(request) ==
    /\ outq' = IF cut THEN outq ELSE Append(outq, request)
    /\ UNCHANGED <<cut, inq, torn, sending, peer>>

\* A write fails once the broker is gone; or, with nothing sent, because the
\* frame exceeds MAX_FRAME_BYTES, which the fieldless Drain never does.
WriteFails(request) == (peer = "closed" \/ request # DrainRequest) /\ UNCHANGED wire

\* read_frame, the prefix; it is taken off the stream.
PrefixRead ==
    /\ inq # <<>> /\ Head(inq).part = "prefix"
    /\ inq' = Tail(inq)
    /\ UNCHANGED <<outq, cut, torn, sending, peer>>

\* The end of the stream, at a frame boundary or inside a frame.
StreamEnds == inq = <<>> /\ peer = "closed" /\ UNCHANGED wire

\* Once a frame was left half read, what is read as a length is text, which is
\* over the cap, or a mix of text and a prefix, whose frame is not JSON: the read
\* fails, having taken any part of the stream.
Slips ==
    /\ torn
    /\ \E k \in 0..Len(inq) : inq' = SubSeq(inq, k + 1, Len(inq))
    /\ UNCHANGED <<outq, cut, torn, sending, peer>>

BodyRead(frame) ==
    /\ inq # <<>> /\ frame = Head(inq).frame
    /\ inq' = Tail(inq)
    /\ UNCHANGED <<outq, cut, torn, sending, peer>>

\* The next poll of a read finds nothing.
ReadPending == inq = <<>> /\ peer = "open"

-----------------------------------------------------------------------------
(* connect_session and handshake, before the execution is admitted         *)

HandshakeWrite ==
    /\ stage = "init_write"
    /\ \/ Written(InitRequest) /\ stage' = "init_prefix"
       \/ WriteFails(InitRequest) /\ stage' = "refused"
    /\ UNCHANGED <<clock, calls, started, expires, outcome, asked, replyTo, metrics, local>>

HandshakePrefix ==
    /\ stage = "init_prefix"
    /\ \/ PrefixRead /\ stage' = "init_body"
       \/ (StreamEnds \/ Slips) /\ stage' = "refused"
    /\ UNCHANGED <<clock, calls, started, expires, outcome, asked, replyTo, metrics, local>>

\* Ack opens the session; everything else is a SessionError.
HandshakeBody ==
    /\ stage = "init_body"
    /\ \/ \E frame \in Frames :
             /\ BodyRead(frame)
             /\ stage' = IF frame.kind = "Ack" THEN "running" ELSE "refused"
       \/ StreamEnds /\ stage' = "refused"
    /\ UNCHANGED <<clock, calls, started, expires, outcome, asked, replyTo, metrics, local>>

-----------------------------------------------------------------------------
(* BoxEgress::call                                                         *)

\* Mutant: every call gets the whole budget.
RemainingBudget == Deadline

\* deadline.saturating_duration_since(now)
Remaining == IF clock < Deadline THEN Deadline - clock ELSE 0

\* The script calls: a box-direct name, or one for the broker.
StartCall ==
    /\ stage = "running" /\ calls < MaxCalls
    /\ calls' = calls + 1
    /\ started' = clock
    /\ expires' = clock + Remaining
    /\ stage' \in {"call_write", "local_send"}
    /\ UNCHANGED <<clock, wire, outcome, asked, replyTo, metrics, local>>

Returns(code, reply) ==
    /\ outcome' = [outcome EXCEPT ![calls] = code]
    /\ replyTo' = [replyTo EXCEPT ![calls] = reply]
    /\ stage' = "running"
    /\ UNCHANGED <<clock, calls, started, expires, asked, metrics, local>>

Advance(step) ==
    /\ stage' = step
    /\ UNCHANGED <<clock, calls, started, expires, outcome, asked, replyTo, metrics, local>>

\* BrokerEgress::call -> roundtrip: the write.
CallWrite ==
    /\ stage = "call_write"
    /\ \/ /\ Written(calls)
          /\ stage' = "call_prefix" /\ asked' = asked \cup {calls}
          /\ UNCHANGED <<clock, calls, started, expires, outcome, replyTo, metrics, local>>
       \/ WriteFails(calls) /\ Returns("IO_TRANSPORT", 0)

CallPrefix ==
    /\ stage = "call_prefix"
    /\ \/ PrefixRead /\ Advance("call_body")
       \/ (StreamEnds \/ Slips) /\ Returns("IO_TRANSPORT", 0)

\* What the call returns for a response, whichever request that answers.
ResultOf(kind) ==
    CASE kind = "Reply"       -> "reply"
      [] kind = "Undecodable" -> "IO_TRANSPORT"
      [] OTHER                -> "IO_PROTOCOL"

CallBody ==
    /\ stage = "call_body"
    /\ \/ \E frame \in Frames : BodyRead(frame) /\ Returns(ResultOf(frame.kind), frame.to)
       \/ StreamEnds /\ Returns("IO_TRANSPORT", 0)

\* Mutant: a call in its read is not timed out.
CallTimeoutWriteOnly ==
    /\ stage = "call_write" /\ clock >= expires
    /\ cut' \in {cut, TRUE}
    /\ UNCHANGED <<outq, inq, torn, sending, peer>>
    /\ Returns("IO_TIMEOUT", 0)

\* The timer wins: the round trip was polled first and is pending.  What is
\* dropped may have sent, or taken, part of a frame.
CallTimeout ==
    /\ stage \in BrokerCall /\ clock >= expires
    /\ \/ /\ stage = "call_write" /\ cut' \in {cut, TRUE}
          /\ UNCHANGED <<outq, inq, torn, sending, peer>>
       \/ /\ stage # "call_write" /\ ReadPending
          /\ torn' \in {torn \/ stage = "call_body", TRUE}
          /\ UNCHANGED <<outq, cut, inq, sending, peer>>
       \/ stage = "call_prefix" /\ Slips
    /\ Returns("IO_TIMEOUT", 0)

LocalReturns(code) ==
    /\ outcome' = [outcome EXCEPT ![calls] = code]
    /\ local' = local + 1
    /\ stage' = "running"
    /\ UNCHANGED <<clock, wire, calls, started, expires, asked, replyTo, metrics>>

\* call_local: the response head arrives, the request fails, or its timer
\* fires.
LocalSend ==
    /\ stage = "local_send"
    /\ \/ Advance("local_text") /\ UNCHANGED wire
       \/ LocalReturns("local_error")

\* response.text().await, which no timer covers.
LocalText ==
    /\ stage = "local_text"
    /\ LocalReturns("local_ok") \/ LocalReturns("local_error")

-----------------------------------------------------------------------------
(* The script has ended: drain_metrics, and the session is dropped         *)

ScriptEnds ==
    /\ stage = "running"
    /\ stage' = "drain_write"
    /\ UNCHANGED <<clock, wire, calls, started, expires, outcome, asked, replyTo, metrics, local>>

Drained(m) ==
    /\ metrics' = m
    /\ stage' = "closed"
    /\ UNCHANGED <<clock, calls, started, expires, outcome, asked, replyTo, local>>

DrainWrite ==
    /\ stage = "drain_write"
    /\ \/ Written(DrainRequest) /\ Advance("drain_prefix")
       \/ WriteFails(DrainRequest) /\ Drained("default")

DrainPrefix ==
    /\ stage = "drain_prefix"
    /\ \/ PrefixRead /\ Advance("drain_body")
       \/ (StreamEnds \/ Slips) /\ Drained("default")

\* Mutant: whatever is read last passes for the metrics.
DrainBodyAny ==
    /\ stage = "drain_body"
    /\ \/ \E frame \in Frames : BodyRead(frame) /\ Drained("metrics")
       \/ StreamEnds /\ Drained("default")

DrainBody ==
    /\ stage = "drain_body"
    /\ \/ \E frame \in Frames :
             /\ BodyRead(frame)
             /\ Drained(IF frame.kind = "Metrics" THEN "metrics" ELSE "default")
       \/ StreamEnds /\ Drained("default")

-----------------------------------------------------------------------------
(* The environment                                                         *)

\* What it may answer; a body that is not a WireResponse answers anything.
Answers(request) ==
    {"Undecodable"} \cup
    CASE request = InitRequest  -> {"Ack", "InitError", "ProtocolError"}
      [] request = DrainRequest -> {"Metrics"}
      [] OTHER                  -> {"Reply", "ProtocolError"}

\* The broker answers the oldest request: the prefix of its response.
BrokerAnswers ==
    /\ peer = "open" /\ outq # <<>> /\ sending = NoFrame
    /\ \E kind \in Answers(Head(outq)) :
          LET frame == [kind |-> kind, to |-> Head(outq)] IN
          /\ sending' = frame
          /\ inq' = Append(inq, Part("prefix", frame))
    /\ outq' = Tail(outq)
    /\ UNCHANGED <<clock, box, cut, torn, peer>>

BrokerSendsBody ==
    /\ peer = "open" /\ sending # NoFrame
    /\ inq' = Append(inq, Part("body", sending))
    /\ sending' = NoFrame
    /\ UNCHANGED <<clock, box, outq, cut, torn, peer>>

BrokerCloses ==
    /\ peer = "open"
    /\ peer' = "closed"
    /\ UNCHANGED <<clock, box, outq, cut, inq, torn, sending>>

\* A pending call does not outlive its timer, nor the head of a box-direct one.
SessionTick ==
    /\ clock < MaxClock /\ stage \notin {"closed", "refused"}
    /\ stage \in BrokerCall \cup {"local_send"} => clock < expires
    /\ clock' = clock + 1
    /\ UNCHANGED <<box, wire>>

-----------------------------------------------------------------------------

BoxStep ==
    \/ HandshakeWrite \/ HandshakePrefix \/ HandshakeBody
    \/ CallWrite \/ CallPrefix \/ CallBody \/ CallTimeout
    \/ LocalSend
    \/ DrainWrite \/ DrainPrefix \/ DrainBody

SessionNext ==
    \/ BoxStep \/ StartCall \/ LocalText \/ ScriptEnds
    \/ BrokerAnswers \/ BrokerSendsBody \/ BrokerCloses \/ SessionTick

SessionSpec == SessionInit /\ [][SessionNext]_sessionVars

\* Time passes, the thread is scheduled and the script ends; the broker and
\* the box-direct service owe nothing.
SessionFairSpec ==
    /\ SessionSpec
    /\ WF_sessionVars(BoxStep) /\ WF_sessionVars(SessionTick) /\ WF_sessionVars(ScriptEnds)

-----------------------------------------------------------------------------
(* Properties                                                              *)

\* The state is well formed; in particular an await never starts with a budget
\* beyond the deadline it was computed from (remaining() saturates at zero).
SessionTypeOK ==
    /\ clock \in 0..MaxClock /\ stage \in Stages /\ calls \in 0..MaxCalls
    /\ started \in 0..MaxClock /\ expires \in started..MaxClock
    /\ outq \in Seq(Requests) /\ cut \in BOOLEAN /\ torn \in BOOLEAN
    /\ inq \in Seq([part : {"prefix", "body"}, frame : Frames])
    /\ sending \in Frames \cup {NoFrame} /\ peer \in {"open", "closed"}
    /\ outcome \in [Calls -> Outcomes] /\ replyTo \in [Calls -> 0..MaxCalls]
    /\ asked \subseteq Calls
    /\ metrics \in {"none", "metrics", "default"} /\ local \in 0..MaxCalls

OwnReply(c) == replyTo[c] \in {0, c}

\* Until a call has timed out, a call reads no response but its own, on whatever
\* schedule the two parts of the frames arrive, and whichever writes fail or
\* bodies do not decode; and driver metrics are reported only for a session in
\* which every request that was written had its own response read: one that fell
\* out of step never comes back into step, and drains to the default, short of a
\* response that a timed-out call left half read.
SessionInStep ==
    /\ \A c \in Calls : OwnReply(c) \/ \E d \in 1..(c - 1) : outcome[d] = "IO_TIMEOUT"
    /\ metrics = "metrics" => torn \/ \A c \in asked : replyTo[c] = c

\* A broker call, and a box-direct one up to its response head, never wait
\* beyond the execution's deadline; one that begins after it does not wait at
\* all (Remaining of broker.rs call and local_io.rs call_local).
CallsMeetDeadline ==
    stage \in BrokerCall \cup {"local_send"} => clock <= Deadline \/ clock = started

\* A broker call returns although the broker never answers and never closes.
BrokerCallsReturn == stage \in BrokerCall ~> stage = "running"

-----------------------------------------------------------------------------
(* Claims of comments and specifications that the code does not meet; the   *)
(* README describes the counterexamples                                     *)

\* wire.rs:290, a Reply is "The result of a [`WireRequest::Call`]", which
\* BrokerEgress::call returns as its own.
RepliesMatch == \A c \in Calls : outcome[c] = "reply" => replyTo[c] = c

\* local_io.rs:87, "Absolute per-execution deadline bounding every box-direct
\* round-trip."
LocalCallsMeetDeadline ==
    stage \in LocalCall => clock <= Deadline \/ clock = started

\* docs/design/resource-egress.md:292-293, "a hung `fabricd` cannot pin a
\* `spawn_blocking` thread": a thread that serves the session comes back when
\* the box-direct services do.
ThreadNotPinned == stage = "running" ~> stage \in {"closed"} \cup LocalCall
=============================================================================
