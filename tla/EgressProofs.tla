---------------------------- MODULE EgressProofs ----------------------------
(***************************************************************************)
(* Proofs about the ways out of the box: the circuit breaker, for every    *)
(* number of callers and every setting, and the egress of one execution,   *)
(* for every number of calls and every deadline.                           *)
(***************************************************************************)
EXTENDS CircuitBreaker, EgressSession, TLAPS

-----------------------------------------------------------------------------
(* The circuit breaker                                                     *)

\* The two fields of TargetState, and the trip counter, agree.
BreakerInv == TypeOK /\ OpenIffTripped /\ TripsAreTransitions

\* The invariant holds of allow() and record() in any interleaving.
LEMMA BreakerInvHolds == Spec => []BreakerInv
<1>1. Init => BreakerInv
  <2> SUFFICES ASSUME Init PROVE BreakerInv
    OBVIOUS
  <2>1. ~open /\ failures = 0 /\ tripsInARow = 0 /\ open \in BOOLEAN /\ up \in BOOLEAN
    BY Zenon DEF Init
  <2>2. /\ left = 0 /\ trips = 0 /\ probing = {}
        /\ pc = [c \in Callers |-> "idle"] /\ age = [c \in Callers |-> 0]
    BY Zenon DEF Init
  <2>3. TypeOK
    BY <2>1, <2>2, BreakerAssumption DEF TypeOK
  <2>4. OpenIffTripped /\ TripsAreTransitions
    BY <2>1, BreakerAssumption DEF OpenIffTripped, TripsAreTransitions
  <2> QED BY <2>3, <2>4 DEF BreakerInv
<1>2. BreakerInv /\ [Next]_vars => BreakerInv'
  <2> SUFFICES ASSUME BreakerInv, [Next]_vars
               PROVE  BreakerInv'
    OBVIOUS
  <2> USE BreakerAssumption DEF BreakerInv, TypeOK, OpenIffTripped, TripsAreTransitions
  <2>1. ASSUME NEW c \in Callers, Ask(c) PROVE BreakerInv'
    BY <2>1 DEF Ask
  <2>2. ASSUME NEW c \in Callers, AllowClosed(c) PROVE BreakerInv'
    BY <2>2 DEF AllowClosed
  <2>3. ASSUME NEW c \in Callers, AllowRefuses(c) PROVE BreakerInv'
    BY <2>3 DEF AllowRefuses
  <2>4. ASSUME NEW c \in Callers, AllowProbes(c) PROVE BreakerInv'
    <3>1. age[c] \in 0..MaxCall
      OBVIOUS
    <3>2. Cooldown - age[c] \in -MaxCall..Cooldown
      BY <3>1
    <3> QED BY <2>4, <3>2 DEF AllowProbes
  <2>5. ASSUME NEW c \in Callers, RecordSuccess(c) PROVE BreakerInv'
    <3>1. /\ ~open' /\ open' \in BOOLEAN /\ failures' = 0 /\ tripsInARow' = 0
          /\ UNCHANGED <<left, trips, age, up>>
      BY <2>5, Zenon DEF RecordSuccess
    <3>2. pc' = [pc EXCEPT ![c] = "idle"] /\ probing' = probing \ {c}
      BY <2>5, Zenon DEF RecordSuccess, Recorded
    <3>3. TypeOK'
      BY <3>1, <3>2
    <3> QED BY <3>1, <3>3
  <2>6. ASSUME NEW c \in Callers, RecordFailure(c) PROVE BreakerInv'
    <3>1. (trips + 1) % TripsModulus \in 0..TripsModulus - 1
      OBVIOUS
    <3>2. AddFailure \in 0..MaxFailures /\ AddFailure >= failures
      BY DEF AddFailure
    <3>3. failures >= Threshold => AddFailure >= Threshold
      BY <3>2
    <3>4. pc' = [pc EXCEPT ![c] = "idle"] /\ probing' = probing \ {c} /\ failures' = AddFailure
          /\ age' = age /\ up' = up
      BY <2>6 DEF RecordFailure, Recorded
    <3>5. CASE AddFailure >= Threshold
      <4>1. /\ open' = TRUE /\ left' = Cooldown
            /\ trips' = IF open THEN trips ELSE (trips + 1) % TripsModulus
            /\ tripsInARow' = IF open THEN tripsInARow ELSE tripsInARow + 1
        BY <2>6, <3>5 DEF RecordFailure
      <4> QED BY <3>1, <3>2, <3>4, <3>5, <4>1
    <3>6. CASE ~(AddFailure >= Threshold)
      <4>1. UNCHANGED <<trips, tripsInARow, open, left>>
        BY <2>6, <3>6 DEF RecordFailure
      <4> QED BY <3>2, <3>3, <3>4, <3>6, <4>1
    <3> QED BY <3>5, <3>6
  <2>7. CASE Tick
    BY <2>7 DEF Tick, Pending
  <2>8. CASE Flip
    BY <2>8 DEF Flip
  <2>9. CASE UNCHANGED vars
    BY <2>9 DEF vars
  <2> QED BY <2>1, <2>2, <2>3, <2>4, <2>5, <2>6, <2>7, <2>8, <2>9 DEF Next, CallerStep
<1> QED BY <1>1, <1>2, PTL DEF Spec

\* The breaker is open exactly when Threshold connects have failed in a row,
\* although allow() and record() of concurrent callers interleave.
THEOREM BreakerOpenIffTripped == Spec => []OpenIffTripped
  BY BreakerInvHolds, PTL DEF BreakerInv

\* runlet_db_breaker_trips_total counts closed-to-open transitions only.
THEOREM BreakerTripsAreTransitions == Spec => []TripsAreTransitions
  BY BreakerInvHolds, PTL DEF BreakerInv

\* While a probe is out, the window it armed is: open_until is at least a whole
\* cool-down after the clock the probe read.
ProbeWindow == \A c \in probing : open => left + age[c] >= Cooldown

\* However long the probes take, the clocks that two of them read are a cool-down apart:
\* allow() arms the window again before it admits one.
THEOREM BreakerProbesSpaced == Spec => []ProbesSpaced
<1> DEFINE Inv == ProbeWindow /\ ProbesSpaced
<1>1. Init => Inv
  BY DEF Init, ProbeWindow, ProbesSpaced
<1>2. BreakerInv /\ Inv /\ [Next]_vars => Inv'
  <2> SUFFICES ASSUME BreakerInv, Inv, [Next]_vars
               PROVE  Inv'
    OBVIOUS
  <2> USE BreakerAssumption DEF BreakerInv, TypeOK, ProbeWindow, ProbesSpaced
  <2>0. \A c \in probing : c \in Callers /\ age[c] \in 0..MaxCall /\ pc[c] = "calling"
    OBVIOUS
  <2>1. ASSUME NEW c \in Callers, Ask(c) PROVE Inv'
    <3>1. c \notin probing
      BY <2>1, <2>0 DEF Ask
    <3>2. \A d \in probing : age'[d] = age[d]
      BY <2>1, <2>0, <3>1 DEF Ask
    <3> QED BY <2>1, <3>2 DEF Ask
  <2>2. ASSUME NEW c \in Callers, AllowClosed(c) PROVE Inv'
    BY <2>2 DEF AllowClosed
  <2>3. ASSUME NEW c \in Callers, AllowRefuses(c) PROVE Inv'
    BY <2>3 DEF AllowRefuses
  <2>4. ASSUME NEW c \in Callers, AllowProbes(c) PROVE Inv'
    <3>1. age[c] \in 0..MaxCall /\ open /\ left <= -age[c]
      BY <2>4 DEF AllowProbes, Early
    <3>2. ASSUME NEW d \in probing PROVE age[d] - age[c] >= Cooldown
      <4>1. left + age[d] >= Cooldown /\ age[d] \in 0..MaxCall
        BY <3>1, <2>0
      <4> QED BY <3>1, <4>1
    <3>3. left' = Cooldown - age[c] /\ probing' = probing \cup {c} /\ age' = age /\ open' = open
      BY <2>4 DEF AllowProbes
    <3>4. ProbeWindow'
      <4> SUFFICES ASSUME NEW d \in probing' PROVE left' + age[d] >= Cooldown
        BY <3>3
      <4>1. CASE d = c
        BY <3>1, <3>3, <4>1
      <4>2. CASE d \in probing
        BY <2>0, <3>1, <3>2, <3>3, <4>2
      <4> QED BY <3>3, <4>1, <4>2
    <3>5. ProbesSpaced'
      <4> SUFFICES ASSUME NEW d \in probing', NEW e \in probing', d # e, age[d] <= age[e]
                   PROVE  age[e] - age[d] >= Cooldown
        BY <3>3
      <4>1. CASE d = c
        BY <3>2, <3>3, <4>1
      <4>2. CASE e = c
        <5>1. d \in probing
          BY <3>3, <4>2
        <5> QED BY <2>0, <3>1, <3>2, <4>2, <5>1
      <4>3. CASE d \in probing /\ e \in probing
        BY <4>3
      <4> QED BY <3>3, <4>1, <4>2, <4>3
    <3> QED BY <3>4, <3>5
  <2>5. ASSUME NEW c \in Callers, RecordSuccess(c) PROVE Inv'
    BY <2>5 DEF RecordSuccess, Recorded
  <2>6. ASSUME NEW c \in Callers, RecordFailure(c) PROVE Inv'
    <3>1. probing' \subseteq probing /\ age' = age
      BY <2>6 DEF RecordFailure, Recorded
    <3>2. (open' /\ left' = Cooldown) \/ (open' = open /\ left' = left)
      BY <2>6 DEF RecordFailure
    <3> QED BY <2>0, <3>1, <3>2
  <2>7. CASE Tick
    <3>1. \A d \in probing : d \in Pending /\ age'[d] = age[d] + 1
      BY <2>7, <2>0 DEF Tick, Pending
    <3>2. left' >= left - 1 /\ left' \in Int
      BY <2>7 DEF Tick
    <3>3. open' = open /\ probing' = probing
      BY <2>7 DEF Tick
    <3> QED BY <2>0, <3>1, <3>2, <3>3
  <2>8. CASE Flip
    BY <2>8 DEF Flip
  <2>9. CASE UNCHANGED vars
    BY <2>9 DEF vars
  <2> QED BY <2>1, <2>2, <2>3, <2>4, <2>5, <2>6, <2>7, <2>8, <2>9 DEF Next, CallerStep
<1> QED BY <1>1, <1>2, BreakerInvHolds, PTL DEF Spec

-----------------------------------------------------------------------------
(* The egress of an execution                                              *)

\* The parts of the stream, and the types of its two ends.
Parts == [part : {"prefix", "body"}, frame : Frames]
WireTyped ==
    /\ outq \in Seq(Requests) /\ cut \in BOOLEAN /\ inq \in Seq(Parts) /\ torn \in BOOLEAN
    /\ sending \in Frames \cup {NoFrame} /\ peer \in {"open", "closed"}
BoxTyped ==
    /\ clock \in 0..MaxClock /\ stage \in Stages /\ calls \in 0..MaxCalls
    /\ started \in 0..MaxClock /\ expires \in started..MaxClock
    /\ outcome \in [Calls -> Outcomes] /\ replyTo \in [Calls -> 0..MaxCalls]
    /\ asked \subseteq Calls /\ metrics \in {"none", "metrics", "default"} /\ local \in 0..MaxCalls

\* The stages in which a response is awaited, up to its prefix and up to its body.
AwaitPrefix == {"init_prefix", "call_prefix", "drain_prefix"}
AwaitBody == {"init_body", "call_body", "drain_body"}
Over == {"closed", "refused"}

\* The request whose response the box awaits.
Awaited ==
    IF stage \in {"init_prefix", "init_body"} THEN InitRequest
    ELSE IF stage \in Drain THEN DrainRequest ELSE calls

\* The parts of responses that the requests written so far have coming, and how many
\* of them the box is about to read.
Half == IF sending = NoFrame THEN 0 ELSE 1
Owed == Len(inq) + Half + 2 * Len(outq)
Due == IF stage \in AwaitPrefix THEN 2 ELSE IF stage \in AwaitBody THEN 1 ELSE 0

\* Nothing will ever be read again.
Dead == peer = "closed" /\ inq = <<>>

\* The clocks of a call.
Timed ==
    stage \in BrokerCall \cup {"local_send"} =>
        /\ started <= clock /\ clock <= expires
        /\ expires = IF started < Deadline THEN Deadline ELSE started

\* The calls made so far.
Counted ==
    /\ stage \in {"init_write", "init_prefix", "init_body"} => calls = 0
    /\ stage \in BrokerCall \cup LocalCall => 0 < calls /\ local < calls /\ outcome[calls] = "none"
    /\ local <= calls /\ asked \subseteq 1..calls
    /\ stage \in LocalCall \cup {"call_write"} => calls \notin asked
    /\ \A c \in Calls : c > calls => outcome[c] = "none"

\* The shape of the stream: prefixes and bodies alternate, and the box is where it thinks
\* it is in a frame it has begun.
Framed ==
    /\ \A i \in 1..Len(inq) : i < Len(inq) => inq[i].part # inq[i + 1].part
    /\ inq # <<>> => (inq[Len(inq)].part = "prefix" <=> sending # NoFrame)
    /\ stage \in AwaitBody /\ inq # <<>> => inq[1].part = "body"
    /\ stage \in AwaitBody /\ inq = <<>> => sending # NoFrame

\* A response is one its request can have.
Answered ==
    /\ \A i \in 1..Len(inq) : inq[i].frame.kind \in Answers(inq[i].frame.to)
    /\ sending # NoFrame => sending.kind \in Answers(sending.to)

\* The request written last is the last of the stream.
LastWritten ==
    stage \in AwaitPrefix \cup AwaitBody /\ ~cut =>
        /\ outq # <<>> => outq[Len(outq)] = Awaited
        /\ outq = <<>> /\ sending # NoFrame => sending.to = Awaited
        /\ outq = <<>> /\ sending = NoFrame /\ inq # <<>> => inq[Len(inq)].frame.to = Awaited

\* The drain is written once, last, and never after a broken frame.
DrainLast ==
    /\ stage \notin {"drain_prefix", "drain_body", "closed"} \/ cut =>
          /\ \A i \in 1..Len(outq) : outq[i] # DrainRequest
          /\ sending.to # DrainRequest
          /\ \A i \in 1..Len(inq) : inq[i].frame.to # DrainRequest
    /\ \A i \in 1..Len(outq) : outq[i] = DrainRequest => i = Len(outq)
    /\ sending.to = DrainRequest => outq = <<>>
    /\ \A i \in 1..Len(inq) : inq[i].frame.to = DrainRequest =>
          /\ outq = <<>>
          /\ inq[i].part = "body" => i = Len(inq) /\ sending = NoFrame

\* Every request so far has had its own response, the current one excepted.
Current(c) == c = calls /\ stage \in {"call_prefix", "call_body"}
Clean == \A c \in asked : replyTo[c] = c \/ Current(c)

\* The box never reads more than it is owed; as long as it is owed no more than it is about
\* to read, every request has had its own response; and only a timeout, or the end of the
\* stream, makes the difference.
Steady ==
    /\ stage \notin Over /\ ~cut /\ ~torn => Due <= Owed
    /\ stage \notin Over /\ ~cut /\ ~torn /\ Owed = Due => Clean
    /\ stage \notin Over /\ (\A d \in Calls : outcome[d] # "IO_TIMEOUT") =>
          ~cut /\ ~torn /\ (Owed = Due \/ Dead)
    /\ stage \notin Over => metrics = "none"

SessionInv ==
    /\ SessionTypeOK /\ Timed /\ Counted /\ Framed /\ Answered /\ LastWritten /\ DrainLast
    /\ Steady /\ SessionInStep

\* The clocks: a call is given what is left until the deadline, and time stops at its timer.
LEMMA SessionTimedStep == SessionTypeOK /\ Timed /\ [SessionNext]_sessionVars => Timed'
<1> SUFFICES ASSUME SessionTypeOK, Timed, [SessionNext]_sessionVars PROVE Timed'
    OBVIOUS
<1>0. /\ clock \in 0..MaxClock /\ started \in 0..MaxClock /\ expires \in started..MaxClock
      /\ stage \in Stages
    BY DEF SessionTypeOK
<1> USE <1>0, EgressAssumption DEF Stages, BrokerCall, LocalCall, Drain, Timed, box, wire
<1>1. CASE HandshakeWrite
    BY <1>1 DEF HandshakeWrite, Written, WriteFails
<1>2. CASE HandshakePrefix
    BY <1>2 DEF HandshakePrefix, PrefixRead, StreamEnds, Slips
<1>3. CASE HandshakeBody
    BY <1>3 DEF HandshakeBody, BodyRead, StreamEnds
<1>4. CASE StartCall
    BY <1>4 DEF StartCall, Remaining
<1>5. CASE CallWrite
    BY <1>5 DEF CallWrite, Written, WriteFails, Returns
<1>6. CASE CallPrefix
    BY <1>6 DEF CallPrefix, PrefixRead, StreamEnds, Slips, Advance, Returns
<1>7. CASE CallBody
    BY <1>7 DEF CallBody, BodyRead, StreamEnds, Returns
<1>8. CASE CallTimeout
    BY <1>8 DEF CallTimeout, ReadPending, Returns
<1>9. CASE LocalSend
    BY <1>9 DEF LocalSend, Advance, LocalReturns
<1>10. CASE LocalText
    BY <1>10 DEF LocalText, LocalReturns
<1>11. CASE ScriptEnds
    BY <1>11 DEF ScriptEnds
<1>12. CASE DrainWrite
    BY <1>12 DEF DrainWrite, Written, WriteFails, Advance, Drained
<1>13. CASE DrainPrefix
    BY <1>13 DEF DrainPrefix, PrefixRead, StreamEnds, Slips, Advance, Drained
<1>14. CASE DrainBody
    BY <1>14 DEF DrainBody, BodyRead, StreamEnds, Drained
<1>15. CASE BrokerAnswers
    BY <1>15 DEF BrokerAnswers, Part
<1>16. CASE BrokerSendsBody
    BY <1>16 DEF BrokerSendsBody, Part
<1>17. CASE BrokerCloses
    BY <1>17 DEF BrokerCloses
<1>18. CASE SessionTick
    BY <1>18 DEF SessionTick
<1>19. CASE UNCHANGED sessionVars
    BY <1>19 DEF sessionVars
<1> QED BY <1>1, <1>2, <1>3, <1>4, <1>5, <1>6, <1>7, <1>8, <1>9, <1>10, <1>11,
           <1>12, <1>13, <1>14, <1>15, <1>16, <1>17, <1>18, <1>19
        DEF SessionNext, BoxStep

\* The calls are counted, and their outcomes written, one by one.
LEMMA SessionCountedStep == SessionTypeOK /\ Counted /\ [SessionNext]_sessionVars => Counted'
<1> SUFFICES ASSUME SessionTypeOK, Counted, [SessionNext]_sessionVars PROVE Counted'
    OBVIOUS
<1>0. /\ calls \in 0..MaxCalls /\ local \in 0..MaxCalls /\ stage \in Stages
      /\ outcome \in [Calls -> Outcomes]
    BY DEF SessionTypeOK
<1> USE <1>0, EgressAssumption DEF Stages, BrokerCall, LocalCall, Drain, Calls, Outcomes,
           Counted, box, wire
<1>1. CASE HandshakeWrite
    BY <1>1 DEF HandshakeWrite, Written, WriteFails
<1>2. CASE HandshakePrefix
    BY <1>2 DEF HandshakePrefix, PrefixRead, StreamEnds, Slips
<1>3. CASE HandshakeBody
    BY <1>3 DEF HandshakeBody, BodyRead, StreamEnds
<1>4. CASE StartCall
    BY <1>4 DEF StartCall, Remaining
<1>20. ASSUME NEW code, stage \in BrokerCall \cup LocalCall, stage' = "running",
             outcome' = [outcome EXCEPT ![calls] = code], UNCHANGED <<calls, asked>>,
             local' \in {local, local + 1}
      PROVE  Counted'
    <2>1. /\ 0 < calls /\ local < calls /\ asked \subseteq 1..calls
          /\ \A c \in Calls : c > calls => outcome[c] = "none"
        BY <1>20
    <2>2. \A c \in Calls : c > calls => outcome'[c] = "none"
        BY <1>20, <2>1
    <2> QED BY <1>20, <2>1, <2>2
<1>5. CASE CallWrite
    <2>1. CASE Returns("IO_TRANSPORT", 0)
        BY <1>5, <1>20, <2>1 DEF CallWrite, Returns
    <2>2. CASE /\ stage' = "call_prefix" /\ asked' = asked \cup {calls}
               /\ UNCHANGED <<clock, calls, started, expires, outcome, replyTo, metrics, local>>
        BY <1>5, <2>2 DEF CallWrite
    <2> QED BY <1>5, <2>1, <2>2, Zenon DEF CallWrite
<1>6. CASE CallPrefix
    <2>1. CASE Returns("IO_TRANSPORT", 0)
        BY <1>6, <1>20, <2>1 DEF CallPrefix, Returns
    <2>2. CASE Advance("call_body")
        BY <1>6, <2>2 DEF CallPrefix, Advance
    <2> QED BY <1>6, <2>1, <2>2, Zenon DEF CallPrefix
<1>7. CASE CallBody
    <2>1. PICK code : outcome' = [outcome EXCEPT ![calls] = code]
        BY <1>7, Zenon DEF CallBody, Returns
    <2>2. stage = "call_body" /\ stage' = "running" /\ UNCHANGED <<calls, asked, local>>
        BY <1>7, Zenon DEF CallBody, Returns
    <2> QED BY <1>20, <2>1, <2>2
<1>8. CASE CallTimeout
    BY <1>8, <1>20 DEF CallTimeout, Returns
<1>9. CASE LocalSend
    <2>1. CASE LocalReturns("local_error")
        BY <1>9, <1>20, <2>1 DEF LocalSend, LocalReturns
    <2>2. CASE Advance("local_text")
        BY <1>9, <2>2 DEF LocalSend, Advance
    <2> QED BY <1>9, <2>1, <2>2, Zenon DEF LocalSend
<1>10. CASE LocalText
    BY <1>10, <1>20 DEF LocalText, LocalReturns
<1>11. CASE ScriptEnds
    BY <1>11 DEF ScriptEnds
<1>12. CASE DrainWrite
    BY <1>12 DEF DrainWrite, Written, WriteFails, Advance, Drained
<1>13. CASE DrainPrefix
    BY <1>13, Zenon DEF DrainPrefix, PrefixRead, StreamEnds, Slips, Advance, Drained
<1>14. CASE DrainBody
    BY <1>14 DEF DrainBody, BodyRead, StreamEnds, Drained
<1>15. CASE BrokerAnswers
    BY <1>15 DEF BrokerAnswers, Part
<1>16. CASE BrokerSendsBody
    BY <1>16 DEF BrokerSendsBody, Part
<1>17. CASE BrokerCloses
    BY <1>17 DEF BrokerCloses
<1>18. CASE SessionTick
    BY <1>18 DEF SessionTick
<1>19. CASE UNCHANGED sessionVars
    BY <1>19 DEF sessionVars
<1> QED BY <1>1, <1>2, <1>3, <1>4, <1>5, <1>6, <1>7, <1>8, <1>9, <1>10, <1>11,
           <1>12, <1>13, <1>14, <1>15, <1>16, <1>17, <1>18, <1>19
        DEF SessionNext, BoxStep

-----------------------------------------------------------------------------
(* What a step does to the stream                                          *)

Waiting == AwaitPrefix \cup AwaitBody
Draining == {"drain_prefix", "drain_body", "closed"}

\* A request is written, and its response awaited.
Asks ==
    /\ stage \notin Waiting \cup Over /\ stage' \in AwaitPrefix
    /\ \E r \in Requests :
          /\ Written(r) /\ r = Awaited'
          /\ r = DrainRequest => stage' \in Draining

\* The prefix of a response is read.
Begins ==
    /\ stage \in AwaitPrefix /\ stage' \in AwaitBody /\ Awaited' = Awaited
    /\ stage \in Draining => stage' \in Draining
    /\ PrefixRead

\* Its body is read.
Completes ==
    /\ stage \in AwaitBody /\ stage' \notin Waiting
    /\ stage \in Draining => stage' \in Draining
    /\ \E frame \in Frames : BodyRead(frame)

\* The stream is left alone.
Keeps ==
    /\ UNCHANGED wire
    /\ \/ stage' = stage /\ calls' = calls
       \/ /\ stage \notin Over /\ stage' \notin Waiting
          /\ stage \in Draining => stage' \in Draining
          /\ stage \in Waiting => Dead

\* A frame may be left half written, or half read.
Breaks ==
    /\ UNCHANGED <<outq, inq, sending, peer>>
    /\ cut' \in BOOLEAN /\ (cut => cut') /\ torn' \in BOOLEAN /\ (torn => torn')
    /\ stage \in BrokerCall /\ stage' = "running"
    /\ outcome' = [outcome EXCEPT ![calls] = "IO_TIMEOUT"]

\* A read that lost the framing fails, somewhere in the stream.
Slides ==
    /\ Slips
    /\ stage \in AwaitPrefix /\ stage' \notin Waiting
    /\ stage \in Draining => stage' \in Draining

Moves ==
    Asks \/ Begins \/ Completes \/ Keeps \/ Breaks \/ Slides
    \/ BrokerAnswers \/ BrokerSendsBody \/ BrokerCloses

\* Every step is one of these.
LEMMA StepMoves == SessionTypeOK /\ [SessionNext]_sessionVars => Moves
<1> SUFFICES ASSUME SessionTypeOK, [SessionNext]_sessionVars PROVE Moves
    OBVIOUS
<1> USE EgressAssumption
    DEF Waiting, Draining, AwaitPrefix, AwaitBody, Over, Awaited, Drain, InitRequest,
        DrainRequest, Requests
<1>1. CASE HandshakeWrite
    <2>1. CASE Written(InitRequest) /\ stage' = "init_prefix"
        BY <1>1, <2>1 DEF HandshakeWrite, Moves, Asks
    <2>2. CASE WriteFails(InitRequest) /\ stage' = "refused"
        BY <1>1, <2>2 DEF HandshakeWrite, WriteFails, Moves, Keeps
    <2> QED BY <1>1, <2>1, <2>2 DEF HandshakeWrite
<1>2. CASE HandshakePrefix
    BY <1>2, Zenon DEF HandshakePrefix, StreamEnds, Dead, Moves, Begins, Keeps, Slides
<1>3. CASE HandshakeBody
    BY <1>3 DEF HandshakeBody, StreamEnds, Dead, Moves, Completes, Keeps
<1>4. CASE StartCall
    BY <1>4 DEF StartCall, Moves, Keeps
<1>5. CASE CallWrite
    <2>1. CASE Written(calls) /\ stage' = "call_prefix" /\ calls' = calls
        <3>1. calls \in Requests /\ calls # DrainRequest
            BY DEF SessionTypeOK
        <3>2. stage = "call_write"
            BY <1>5, Zenon DEF CallWrite
        <3> QED BY <2>1, <3>1, <3>2 DEF Moves, Asks
    <2>2. CASE WriteFails(calls) /\ Returns("IO_TRANSPORT", 0)
        BY <1>5, <2>2 DEF CallWrite, WriteFails, Returns, Moves, Keeps
    <2> QED BY <1>5, <2>1, <2>2, Zenon DEF CallWrite
<1>6. CASE CallPrefix
    <2>1. CASE PrefixRead /\ Advance("call_body")
        BY <1>6, <2>1 DEF CallPrefix, Advance, Moves, Begins
    <2>2. CASE (StreamEnds \/ Slips) /\ Returns("IO_TRANSPORT", 0)
        BY <1>6, <2>2, Zenon DEF CallPrefix, Returns, StreamEnds, Dead, Moves, Keeps, Slides
    <2> QED BY <1>6, <2>1, <2>2, Zenon DEF CallPrefix
<1>7. CASE CallBody
    <2>1. stage = "call_body" /\ stage' = "running"
        BY <1>7, Zenon DEF CallBody, Returns
    <2>2. StreamEnds \/ \E frame \in Frames : BodyRead(frame)
        BY <1>7, Zenon DEF CallBody
    <2> QED BY <2>1, <2>2 DEF StreamEnds, Dead, Moves, Completes, Keeps
<1>8. CASE CallTimeout
    <2>0. /\ stage \in BrokerCall /\ stage' = "running"
          /\ outcome' = [outcome EXCEPT ![calls] = "IO_TIMEOUT"]
        BY <1>8, Zenon DEF CallTimeout, Returns
    <2>1. CASE cut' \in {cut, TRUE} /\ UNCHANGED <<outq, inq, torn, sending, peer>>
        <3>1. cut' \in BOOLEAN /\ (cut => cut') /\ torn' \in BOOLEAN /\ (torn => torn')
            BY <2>1, Zenon DEF SessionTypeOK
        <3> QED BY <2>0, <2>1, <3>1, Zenon DEF Moves, Breaks
    <2>2. CASE /\ torn' \in {torn \/ stage = "call_body", TRUE}
               /\ UNCHANGED <<outq, cut, inq, sending, peer>>
        <3>1. cut' \in BOOLEAN /\ (cut => cut') /\ torn' \in BOOLEAN /\ (torn => torn')
            BY <2>2, Zenon DEF SessionTypeOK
        <3> QED BY <2>0, <2>2, <3>1, Zenon DEF Moves, Breaks
    <2>3. CASE stage = "call_prefix" /\ Slips
        BY <2>0, <2>3, Zenon DEF Moves, Slides
    <2> QED BY <1>8, <2>1, <2>2, <2>3, Zenon DEF CallTimeout
<1>9. CASE LocalSend
    BY <1>9 DEF LocalSend, Advance, LocalReturns, Moves, Keeps
<1>10. CASE LocalText
    BY <1>10 DEF LocalText, LocalReturns, Moves, Keeps
<1>11. CASE ScriptEnds
    BY <1>11 DEF ScriptEnds, Moves, Keeps
<1>12. CASE DrainWrite
    <2>1. CASE Written(DrainRequest) /\ Advance("drain_prefix")
        BY <1>12, <2>1 DEF DrainWrite, Advance, Moves, Asks
    <2>2. CASE WriteFails(DrainRequest) /\ Drained("default")
        BY <1>12, <2>2 DEF DrainWrite, WriteFails, Drained, Moves, Keeps
    <2> QED BY <1>12, <2>1, <2>2 DEF DrainWrite
<1>13. CASE DrainPrefix
    <2>1. CASE PrefixRead /\ Advance("drain_body")
        BY <1>13, <2>1 DEF DrainPrefix, Advance, Moves, Begins
    <2>2. CASE (StreamEnds \/ Slips) /\ Drained("default")
        BY <1>13, <2>2, Zenon DEF DrainPrefix, Drained, StreamEnds, Dead, Moves, Keeps, Slides
    <2> QED BY <1>13, <2>1, <2>2, Zenon DEF DrainPrefix
<1>14. CASE DrainBody
    BY <1>14 DEF DrainBody, Drained, StreamEnds, Dead, Moves, Completes, Keeps
<1>15. CASE BrokerAnswers \/ BrokerSendsBody \/ BrokerCloses
    BY <1>15 DEF Moves
<1>16. CASE SessionTick
    BY <1>16 DEF SessionTick, box, Moves, Keeps
<1>17. CASE UNCHANGED sessionVars
    BY <1>17 DEF sessionVars, box, Moves, Keeps
<1> QED BY <1>1, <1>2, <1>3, <1>4, <1>5, <1>6, <1>7, <1>8, <1>9, <1>10, <1>11, <1>12, <1>13,
           <1>14, <1>15, <1>16, <1>17
        DEF SessionNext, BoxStep

\* The types, by the two ends.
LEMMA SessionTypes == SessionTypeOK <=> BoxTyped /\ WireTyped
    BY DEF SessionTypeOK, BoxTyped, WireTyped, Parts

\* What the operations on the stream do to it.
LEMMA Popped ==
    ASSUME NEW S, NEW q \in Seq(S), q # <<>>
    PROVE  /\ Tail(q) \in Seq(S) /\ Len(Tail(q)) = Len(q) - 1 /\ Len(q) \in Nat \ {0}
           /\ Head(q) = q[1] /\ q[1] \in S
           /\ \A i \in 1..Len(Tail(q)) : Tail(q)[i] = q[i + 1]
    OBVIOUS

LEMMA Pushed ==
    ASSUME NEW S, NEW q \in Seq(S), NEW x \in S
    PROVE  /\ Append(q, x) \in Seq(S) /\ Len(Append(q, x)) = Len(q) + 1 /\ Len(q) \in Nat
           /\ \A i \in 1..Len(q) : Append(q, x)[i] = q[i]
           /\ Append(q, x)[Len(q) + 1] = x
    OBVIOUS

LEMMA Dropped ==
    ASSUME NEW S, NEW q \in Seq(S), NEW k \in 0..Len(q)
    PROVE  /\ SubSeq(q, k + 1, Len(q)) \in Seq(S) /\ Len(SubSeq(q, k + 1, Len(q))) = Len(q) - k
           /\ \A i \in 1..(Len(q) - k) : SubSeq(q, k + 1, Len(q))[i] = q[i + k]
    OBVIOUS

LEMMA Element ==
    ASSUME NEW S, NEW q \in Seq(S), NEW i \in 1..Len(q)
    PROVE  q[i] \in S
    OBVIOUS

LEMMA Empty ==
    ASSUME NEW S, NEW q \in Seq(S)
    PROVE  Len(q) \in Nat /\ (q = <<>> <=> Len(q) = 0)
    OBVIOUS

\* The broker's answer, and its two parts.
LEMMA AnswerSent ==
    ASSUME WireTyped, BrokerAnswers
    PROVE  /\ outq # <<>> /\ outq' = Tail(outq) /\ sending = NoFrame /\ sending' \in Frames
           /\ sending'.to = outq[1] /\ sending'.kind \in Answers(outq[1])
           /\ Part("prefix", sending') \in Parts
           /\ inq' = Append(inq, Part("prefix", sending'))
           /\ UNCHANGED <<clock, box, cut, torn, peer>>
<1>1. PICK kind \in Answers(Head(outq)) :
          /\ sending' = [kind |-> kind, to |-> Head(outq)]
          /\ inq' = Append(inq, Part("prefix", [kind |-> kind, to |-> Head(outq)]))
    BY DEF BrokerAnswers
<1>2. /\ outq # <<>> /\ outq' = Tail(outq) /\ sending = NoFrame
      /\ UNCHANGED <<clock, box, cut, torn, peer>>
    BY DEF BrokerAnswers
<1>3. Head(outq) \in Requests /\ Head(outq) = outq[1]
    BY <1>2, Popped DEF WireTyped
<1>4. kind \in Kinds
    BY <1>1, Zenon DEF Answers, Kinds
<1>5. sending' \in Frames /\ sending'.to = outq[1] /\ sending'.kind \in Answers(outq[1])
    BY <1>1, <1>3, <1>4 DEF Frames
<1>6. Part("prefix", sending') \in Parts
    BY <1>5 DEF Part, Parts
<1> QED BY <1>1, <1>2, <1>5, <1>6

LEMMA BodySent ==
    ASSUME WireTyped, BrokerSendsBody
    PROVE  /\ sending # NoFrame /\ sending \in Frames /\ Part("body", sending) \in Parts
           /\ inq' = Append(inq, Part("body", sending)) /\ sending' = NoFrame
           /\ UNCHANGED <<clock, box, outq, cut, torn, peer>>
<1>1. sending # NoFrame /\ sending \in Frames
    BY DEF BrokerSendsBody, WireTyped
<1>2. Part("body", sending) \in Parts
    BY <1>1 DEF Part, Parts
<1> QED BY <1>1, <1>2 DEF BrokerSendsBody

\* NoFrame is not a frame.
LEMMA NoFrameIsNone == NoFrame \notin Frames
    BY DEF NoFrame, Frames, Kinds

\* The types of the stream.
LEMMA WireTypedStep == WireTyped /\ Moves => WireTyped'
<1> SUFFICES ASSUME WireTyped, Moves PROVE WireTyped'
    OBVIOUS
<1>1. CASE Asks
    <2>1. PICK r \in Requests : Written(r)
        BY <1>1 DEF Asks
    <2>2. outq' \in Seq(Requests)
        BY <2>1, Pushed DEF Written, WireTyped
    <2> QED BY <2>1, <2>2 DEF Written, WireTyped
<1>2. CASE Begins \/ Completes
    <2>1. inq # <<>> /\ inq' = Tail(inq) /\ UNCHANGED <<outq, cut, torn, sending, peer>>
        BY <1>2 DEF Begins, Completes, PrefixRead, BodyRead
    <2> QED BY <2>1, Popped DEF WireTyped
<1>3. CASE Keeps
    BY <1>3 DEF Keeps, wire, WireTyped
<1>4. CASE Breaks
    BY <1>4 DEF Breaks, WireTyped
<1>5. CASE BrokerAnswers
    <2>1. outq' \in Seq(Requests)
        BY <1>5, AnswerSent, Popped, ZenonT(30) DEF WireTyped
    <2>2. inq' \in Seq(Parts)
        BY <1>5, AnswerSent, Pushed, ZenonT(30) DEF WireTyped
    <2> QED BY <1>5, <2>1, <2>2, AnswerSent DEF WireTyped
<1>6. CASE BrokerSendsBody
    BY <1>6, BodySent, Pushed, SMTT(30) DEF WireTyped
<1>7. CASE BrokerCloses
    BY <1>7 DEF BrokerCloses, WireTyped
<1>8. CASE Slides
    <2>1. PICK k \in 0..Len(inq) : inq' = SubSeq(inq, k + 1, Len(inq))
        BY <1>8, Zenon DEF Slides, Slips
    <2>2. inq' \in Seq(Parts)
        BY <2>1, Dropped, Zenon DEF WireTyped
    <2> QED BY <1>8, <2>2, Zenon DEF Slides, Slips, WireTyped
<1> QED BY <1>1, <1>2, <1>3, <1>4, <1>5, <1>6, <1>7, <1>8 DEF Moves

\* The types of the box; the response a call reads is not one to the drain.
LEMMA BoxTypedStep ==
    BoxTyped /\ WireTyped /\ Counted /\ DrainLast /\ [SessionNext]_sessionVars => BoxTyped'
<1> SUFFICES ASSUME BoxTyped, WireTyped, Counted, DrainLast, [SessionNext]_sessionVars
             PROVE  BoxTyped'
    OBVIOUS
<1> USE EgressAssumption DEF BoxTyped, Stages, BrokerCall, LocalCall, Drain, Calls, Outcomes,
           Counted, box, wire
<1>1. CASE HandshakeWrite
    BY <1>1 DEF HandshakeWrite
<1>2. CASE HandshakePrefix
    BY <1>2 DEF HandshakePrefix
<1>3. CASE HandshakeBody
    BY <1>3 DEF HandshakeBody
<1>4. CASE StartCall
    BY <1>4 DEF StartCall, Remaining
<1>5. CASE CallWrite
    <2>1. CASE /\ stage' = "call_prefix" /\ asked' = asked \cup {calls}
               /\ UNCHANGED <<clock, calls, started, expires, outcome, replyTo, metrics, local>>
        BY <1>5, <2>1 DEF CallWrite
    <2>2. CASE Returns("IO_TRANSPORT", 0)
        BY <1>5, <2>2 DEF CallWrite, Returns
    <2> QED BY <1>5, <2>1, <2>2, Zenon DEF CallWrite
<1>6. CASE CallPrefix
    <2>1. CASE Advance("call_body")
        BY <2>1 DEF Advance
    <2>2. CASE Returns("IO_TRANSPORT", 0)
        BY <1>6, <2>2 DEF CallPrefix, Returns
    <2> QED BY <1>6, <2>1, <2>2, Zenon DEF CallPrefix
<1>7. CASE CallBody
    <2>0. stage = "call_body"
        BY <1>7, Zenon DEF CallBody
    <2>1. ASSUME NEW f \in Frames, BodyRead(f) PROVE f.to \in 0..MaxCalls
        <3>1. inq # <<>> /\ f = inq[1].frame /\ 1 \in 1..Len(inq)
            BY <2>1, Popped DEF BodyRead, WireTyped
        <3>2. f.to # DrainRequest
            BY <2>0, <3>1 DEF DrainLast
        <3>3. f.to \in Requests
            BY DEF Frames
        <3> QED BY <3>2, <3>3 DEF Requests, DrainRequest
    <2>2. ASSUME NEW code \in Outcomes, NEW to \in 0..MaxCalls, Returns(code, to)
          PROVE  BoxTyped'
        BY <2>0, <2>2 DEF Returns
    <2>3. \A kind : ResultOf(kind) \in Outcomes
        BY Zenon DEF ResultOf, Outcomes
    <2>4. CASE \E f \in Frames : BodyRead(f) /\ Returns(ResultOf(f.kind), f.to)
        <3>1. PICK f \in Frames : BodyRead(f) /\ Returns(ResultOf(f.kind), f.to)
            BY <2>4, Zenon
        <3> HIDE DEF Outcomes
        <3> QED BY <2>1, <2>2, <2>3, <3>1, Zenon
    <2>5. CASE Returns("IO_TRANSPORT", 0)
        BY <2>2, <2>5
    <2> QED BY <1>7, <2>4, <2>5, Zenon DEF CallBody
<1>8. CASE CallTimeout
    BY <1>8 DEF CallTimeout, Returns
<1>9. CASE LocalSend
    <2>1. ASSUME NEW code \in {"local_error"}, LocalReturns(code) PROVE BoxTyped'
        <3>1. outcome' \in [Calls -> Outcomes]
            BY <1>9, <2>1 DEF LocalSend, LocalReturns
        <3>2. local' \in 0..MaxCalls
            BY <1>9, <2>1 DEF LocalSend, LocalReturns
        <3> QED BY <2>1, <3>1, <3>2 DEF LocalReturns
    <2>2. CASE Advance("local_text")
        BY <2>2 DEF Advance
    <2> QED BY <1>9, <2>1, <2>2, SMTT(30) DEF LocalSend
<1>10. CASE LocalText
    <2>1. ASSUME NEW code \in {"local_ok", "local_error"}, LocalReturns(code) PROVE BoxTyped'
        <3>1. outcome' \in [Calls -> Outcomes]
            BY <1>10, <2>1 DEF LocalText, LocalReturns
        <3>2. local' \in 0..MaxCalls
            BY <1>10, <2>1 DEF LocalText, LocalReturns
        <3> QED BY <2>1, <3>1, <3>2 DEF LocalReturns
    <2> QED BY <1>10, <2>1 DEF LocalText
<1>11. CASE ScriptEnds
    BY <1>11 DEF ScriptEnds
<1>12. CASE DrainWrite
    BY <1>12 DEF DrainWrite, Advance, Drained
<1>13. CASE DrainPrefix
    BY <1>13 DEF DrainPrefix, Advance, Drained
<1>14. CASE DrainBody
    BY <1>14 DEF DrainBody, Drained
<1>15. CASE BrokerAnswers
    BY <1>15 DEF BrokerAnswers
<1>16. CASE BrokerSendsBody
    BY <1>16 DEF BrokerSendsBody
<1>17. CASE BrokerCloses
    BY <1>17 DEF BrokerCloses
<1>18. CASE SessionTick
    BY <1>18 DEF SessionTick
<1>19. CASE UNCHANGED sessionVars
    BY <1>19 DEF sessionVars
<1> QED BY <1>1, <1>2, <1>3, <1>4, <1>5, <1>6, <1>7, <1>8, <1>9, <1>10, <1>11, <1>12,
           <1>13, <1>14, <1>15, <1>16, <1>17, <1>18, <1>19, Zenon
        DEF SessionNext, BoxStep

\* What a read leaves of the stream.
LEMMA ReadLeaves ==
    ASSUME WireTyped, Begins \/ Completes
    PROVE  /\ inq # <<>> /\ inq' = Tail(inq) /\ UNCHANGED <<outq, cut, torn, sending, peer>>
           /\ inq' \in Seq(Parts) /\ Len(inq) \in Nat \ {0} /\ Len(inq') = Len(inq) - 1
           /\ \A i \in 1..Len(inq') : inq'[i] = inq[i + 1]
<1>1. inq # <<>> /\ inq' = Tail(inq) /\ UNCHANGED <<outq, cut, torn, sending, peer>>
    BY Zenon DEF Begins, Completes, PrefixRead, BodyRead
<1> QED BY <1>1, Popped DEF WireTyped

\* What a read that lost the framing leaves.
LEMMA SlideLeaves ==
    ASSUME WireTyped, Slides
    PROVE  \E k \in 0..Len(inq) :
              /\ Len(inq) \in Nat /\ inq' \in Seq(Parts) /\ Len(inq') = Len(inq) - k
              /\ \A i \in 1..Len(inq') : i + k \in 1..Len(inq) /\ inq'[i] = inq[i + k]
<1>1. PICK k \in 0..Len(inq) : inq' = SubSeq(inq, k + 1, Len(inq))
    BY Zenon DEF Slides, Slips
<1>2. inq \in Seq(Parts) /\ Len(inq) \in Nat
    BY Empty DEF WireTyped
<1>3. /\ inq' \in Seq(Parts) /\ Len(inq') = Len(inq) - k
      /\ \A i \in 1..(Len(inq) - k) : inq'[i] = inq[i + k]
    BY <1>1, <1>2, Dropped, Zenon
<1>4. \A i \in 1..(Len(inq) - k) : i + k \in 1..Len(inq)
    BY <1>2
<1> QED BY <1>2, <1>3, <1>4

\* What the broker adds to it.
LEMMA SendAdds ==
    ASSUME WireTyped, BrokerAnswers \/ BrokerSendsBody
    PROVE  /\ inq' \in Seq(Parts) /\ Len(inq) \in Nat /\ Len(inq') = Len(inq) + 1
           /\ \A i \in 1..Len(inq) : inq'[i] = inq[i]
           /\ BrokerAnswers => inq'[Len(inq')] = Part("prefix", sending')
           /\ BrokerSendsBody => inq'[Len(inq')] = Part("body", sending)
           /\ UNCHANGED <<clock, box, cut, torn, peer>>
<1>1. CASE BrokerAnswers
    <2>1. ~BrokerSendsBody
        BY <1>1 DEF BrokerAnswers, BrokerSendsBody
    <2>2. /\ inq \in Seq(Parts) /\ Part("prefix", sending') \in Parts
          /\ inq' = Append(inq, Part("prefix", sending'))
        BY <1>1, AnswerSent DEF WireTyped
    <2>3. UNCHANGED <<clock, box, cut, torn, peer>>
        BY <1>1, AnswerSent
    <2>4. inq' \in Seq(Parts) /\ Len(inq) \in Nat /\ Len(inq') = Len(inq) + 1
        BY <2>2, Pushed
    <2>5. \A i \in 1..Len(inq) : inq'[i] = inq[i]
        BY <2>2, Pushed
    <2>6. inq'[Len(inq')] = Part("prefix", sending')
        BY <2>2, Pushed
    <2> QED BY <1>1, <2>1, <2>3, <2>4, <2>5, <2>6
<1>2. CASE BrokerSendsBody
    <2>1. ~BrokerAnswers
        BY <1>2 DEF BrokerAnswers, BrokerSendsBody
    <2>2. /\ inq \in Seq(Parts) /\ Part("body", sending) \in Parts
          /\ inq' = Append(inq, Part("body", sending))
        BY <1>2, BodySent DEF WireTyped
    <2>3. UNCHANGED <<clock, box, cut, torn, peer>>
        BY <1>2, BodySent
    <2>4. inq' \in Seq(Parts) /\ Len(inq) \in Nat /\ Len(inq') = Len(inq) + 1
        BY <2>2, Pushed
    <2>5. \A i \in 1..Len(inq) : inq'[i] = inq[i]
        BY <2>2, Pushed
    <2>6. inq'[Len(inq')] = Part("body", sending)
        BY <2>2, Pushed
    <2> QED BY <1>2, <2>1, <2>3, <2>4, <2>5, <2>6
<1> QED BY <1>1, <1>2

\* The shape of the stream.
LEMMA FramedStep == WireTyped /\ Framed /\ Moves => Framed'
<1> SUFFICES ASSUME WireTyped, Framed, Moves PROVE Framed'
    OBVIOUS
<1>1. CASE Asks
    BY <1>1 DEF Asks, Written, Framed, AwaitPrefix, AwaitBody
<1>2. CASE Begins \/ Completes
    <2> USE <1>2, ReadLeaves
    <2>1. \A i \in 1..Len(inq') : i < Len(inq') => inq'[i].part # inq'[i + 1].part
        <3> SUFFICES ASSUME NEW i \in 1..Len(inq'), i < Len(inq')
                     PROVE  inq'[i].part # inq'[i + 1].part
            OBVIOUS
        <3>1. inq'[i] = inq[i + 1] /\ inq'[i + 1] = inq[(i + 1) + 1]
            OBVIOUS
        <3>2. i + 1 \in 1..Len(inq) /\ i + 1 < Len(inq)
            OBVIOUS
        <3> QED BY <3>1, <3>2 DEF Framed
    <2>2. inq' # <<>> => inq'[Len(inq')] = inq[Len(inq)]
        BY Empty
    <2>3. inq' # <<>> => (inq'[Len(inq')].part = "prefix" <=> sending' # NoFrame)
        BY <2>2 DEF Framed
    <2>4. CASE Begins
        <3>1. inq[1].part = "prefix"
            BY <2>4, Popped DEF Begins, PrefixRead, WireTyped
        <3>2. inq' # <<>> => inq'[1].part = "body"
            <4> SUFFICES ASSUME inq' # <<>> PROVE inq'[1].part = "body"
                OBVIOUS
            <4>1. 1 \in 1..Len(inq') /\ 1 < Len(inq) /\ 1 \in 1..Len(inq)
                BY Empty
            <4>2. inq'[1] = inq[2] /\ inq[2] \in Parts
                BY <4>1 DEF WireTyped
            <4> QED BY <3>1, <4>1, <4>2 DEF Framed, Parts
        <3>3. inq' = <<>> => sending' # NoFrame
            <4> SUFFICES ASSUME inq' = <<>> PROVE sending # NoFrame
                OBVIOUS
            <4>1. Len(inq) = 1
                BY Empty, SMTT(30)
            <4> QED BY <3>1, <4>1 DEF Framed
        <3> QED BY <2>1, <2>3, <3>2, <3>3 DEF Framed
    <2>5. CASE Completes
        BY <2>1, <2>3, <2>5, SMTT(30) DEF Completes, Framed, Waiting
    <2> QED BY <1>2, <2>4, <2>5
<1>3. CASE Keeps
    BY <1>3 DEF Keeps, wire, Framed, Waiting
<1>4. CASE Breaks
    BY <1>4, SMTT(30) DEF Breaks, Framed, AwaitBody
<1>5. CASE BrokerAnswers
    <2>1. UNCHANGED stage /\ sending = NoFrame /\ sending' # NoFrame
        BY <1>5, AnswerSent, NoFrameIsNone DEF box
    <2>2. inq'[Len(inq')].part = "prefix"
        BY <1>5, SendAdds, SMTT(30) DEF Part
    <2>3. inq # <<>> => inq[Len(inq)].part # "prefix" /\ Len(inq) \in 1..Len(inq)
        BY <2>1, SendAdds, <1>5, Empty DEF Framed, WireTyped
    <2>4. \A i \in 1..Len(inq') : i < Len(inq') => inq'[i].part # inq'[i + 1].part
        <3> SUFFICES ASSUME NEW i \in 1..Len(inq'), i < Len(inq')
                     PROVE  inq'[i].part # inq'[i + 1].part
            OBVIOUS
        <3>0. Len(inq) \in Nat /\ Len(inq') = Len(inq) + 1
            BY <1>5, SendAdds, ZenonT(30)
        <3>1. i \in 1..Len(inq) /\ inq'[i] = inq[i]
            <4>1. i \in 1..Len(inq)
                BY <3>0
            <4> QED BY <1>5, <4>1, SendAdds
        <3>2. CASE i = Len(inq)
            BY <1>5, <3>1, <3>2, <2>2, <2>3, SendAdds, Empty, SMTT(30) DEF WireTyped
        <3>3. CASE i # Len(inq)
            <4>1. i + 1 \in 1..Len(inq) /\ i < Len(inq)
                BY <1>5, <3>1, <3>3, SendAdds
            <4> QED BY <1>5, <3>1, <4>1, SendAdds DEF Framed
        <3> QED BY <3>2, <3>3
    <2>5. stage \in AwaitBody => inq # <<>>
        BY <2>1, SMTT(30) DEF Framed
    <2>6. stage' \in AwaitBody => inq'[1].part = "body"
        BY <1>5, <2>1, <2>5, SendAdds, Empty, SMTT(30) DEF Framed, WireTyped
    <2> QED BY <1>5, <2>1, <2>2, <2>4, <2>6, SendAdds, Empty DEF Framed, WireTyped
<1>6. CASE BrokerSendsBody
    <2>1. UNCHANGED stage /\ sending # NoFrame /\ sending' = NoFrame
        BY <1>6, BodySent DEF box
    <2>2. inq'[Len(inq')].part = "body"
        BY <1>6, SendAdds, SMTT(30) DEF Part
    <2>3. inq # <<>> => inq[Len(inq)].part = "prefix" /\ Len(inq) \in 1..Len(inq)
        BY <2>1, SendAdds, <1>6, Empty DEF Framed, WireTyped
    <2>4. \A i \in 1..Len(inq') : i < Len(inq') => inq'[i].part # inq'[i + 1].part
        <3> SUFFICES ASSUME NEW i \in 1..Len(inq'), i < Len(inq')
                     PROVE  inq'[i].part # inq'[i + 1].part
            OBVIOUS
        <3>0. Len(inq) \in Nat /\ Len(inq') = Len(inq) + 1
            BY <1>6, SendAdds, Zenon
        <3>1. i \in 1..Len(inq) /\ inq'[i] = inq[i]
            <4>1. i \in 1..Len(inq)
                BY <3>0
            <4> QED BY <1>6, <4>1, SendAdds, SMTT(30)
        <3>2. CASE i = Len(inq)
            BY <1>6, <3>1, <3>2, <2>2, <2>3, SendAdds, Empty, SMTT(30) DEF WireTyped
        <3>3. CASE i # Len(inq)
            <4>1. i + 1 \in 1..Len(inq) /\ i < Len(inq)
                BY <1>6, <3>1, <3>3, SendAdds, SMTT(30)
            <4> QED BY <1>6, <3>1, <4>1, SendAdds DEF Framed
        <3> QED BY <3>2, <3>3
    <2>5. stage' \in AwaitBody => inq'[1].part = "body"
        BY <1>6, <2>1, <2>2, SendAdds, Empty, SMTT(30) DEF Framed, WireTyped
    <2> QED BY <1>6, <2>1, <2>2, <2>4, <2>5, SendAdds, Empty DEF Framed, WireTyped
<1>7. CASE BrokerCloses
    BY <1>7 DEF BrokerCloses, box, Framed
<1>8. CASE Slides
    <2>1. PICK k \in 0..Len(inq) :
              /\ Len(inq) \in Nat /\ inq' \in Seq(Parts) /\ Len(inq') = Len(inq) - k
              /\ \A i \in 1..Len(inq') : i + k \in 1..Len(inq) /\ inq'[i] = inq[i + k]
        BY <1>8, SlideLeaves, Zenon
    <2>2. UNCHANGED sending /\ stage' \notin AwaitBody
        BY <1>8, Zenon DEF Slides, Slips, Waiting
    <2>3. ASSUME NEW i \in 1..Len(inq'), i < Len(inq') PROVE inq'[i].part # inq'[i + 1].part
        <3>1. i + 1 \in 1..Len(inq') /\ i + k < Len(inq) /\ (i + 1) + k = (i + k) + 1
            BY <2>1, <2>3
        <3>2. inq'[i] = inq[i + k] /\ inq'[i + 1] = inq[(i + k) + 1] /\ i + k \in 1..Len(inq)
            BY <2>1, <3>1
        <3> QED BY <3>1, <3>2, Zenon DEF Framed
    <2>4. ASSUME inq' # <<>> PROVE inq'[Len(inq')].part = "prefix" <=> sending # NoFrame
        <3>1. Len(inq') \in 1..Len(inq') /\ Len(inq') + k = Len(inq) /\ inq # <<>>
            BY <2>1, <2>4, Empty DEF WireTyped
        <3>2. inq'[Len(inq')] = inq[Len(inq)]
            BY <2>1, <3>1, Zenon
        <3> QED BY <3>1, <3>2, Zenon DEF Framed
    <2> QED BY <2>2, <2>3, <2>4, Zenon DEF Framed
<1> QED BY <1>1, <1>2, <1>3, <1>4, <1>5, <1>6, <1>7, <1>8 DEF Moves

\* A response is one its request can have.
LEMMA AnsweredStep == WireTyped /\ Answered /\ Moves => Answered'
<1> SUFFICES ASSUME WireTyped, Answered, Moves PROVE Answered'
    OBVIOUS
<1>1. CASE Asks \/ Keeps \/ Breaks \/ BrokerCloses
    BY <1>1 DEF Asks, Written, Keeps, wire, Breaks, BrokerCloses, Answered
<1>2. CASE Begins \/ Completes
    <2> SUFFICES ASSUME NEW i \in 1..Len(inq')
                 PROVE  inq'[i].frame.kind \in Answers(inq'[i].frame.to)
        BY <1>2, ReadLeaves DEF Answered
    <2>1. inq'[i] = inq[i + 1] /\ i + 1 \in 1..Len(inq)
        BY <1>2, ReadLeaves
    <2> QED BY <2>1, Zenon DEF Answered
<1>3. CASE BrokerAnswers \/ BrokerSendsBody
    <2>1. \E f \in Frames : f.kind \in Answers(f.to) /\ inq'[Len(inq')].frame = f
        BY <1>3, SendAdds, AnswerSent, BodySent DEF Answered, Part
    <2>2. sending' # NoFrame => sending'.kind \in Answers(sending'.to)
        BY <1>3, AnswerSent, BodySent
    <2>3. ASSUME NEW i \in 1..Len(inq') PROVE inq'[i].frame.kind \in Answers(inq'[i].frame.to)
        <3>1. CASE i = Len(inq')
            BY <2>1, <3>1
        <3>2. CASE i # Len(inq')
            <4>1. i \in 1..Len(inq) /\ inq'[i] = inq[i]
                BY <1>3, <3>2, SendAdds
            <4> QED BY <4>1, ZenonT(30) DEF Answered
        <3> QED BY <3>1, <3>2
    <2> QED BY <2>2, <2>3, SMTT(30) DEF Answered
<1>4. CASE Slides
    <2>1. PICK k \in 0..Len(inq) :
              \A i \in 1..Len(inq') : i + k \in 1..Len(inq) /\ inq'[i] = inq[i + k]
        BY <1>4, SlideLeaves, Zenon
    <2>2. \A i \in 1..Len(inq') : inq'[i].frame.kind \in Answers(inq'[i].frame.to)
        BY <2>1, Zenon DEF Answered
    <2> QED BY <1>4, <2>2, Zenon DEF Slides, Slips, Answered
<1> QED BY <1>1, <1>2, <1>3, <1>4, Zenon DEF Moves

\* The request written last is the last of the stream.
LEMMA LastWrittenStep == WireTyped /\ LastWritten /\ Moves => LastWritten'
<1> SUFFICES ASSUME WireTyped, LastWritten, Moves PROVE LastWritten'
    OBVIOUS
<1>1. CASE Asks
    <2> SUFFICES ASSUME ~cut PROVE outq' # <<>> /\ outq'[Len(outq')] = Awaited'
        BY <1>1 DEF Asks, Written, LastWritten
    <2>1. PICK r \in Requests : Written(r) /\ r = Awaited'
        BY <1>1 DEF Asks
    <2>2. outq \in Seq(Requests) /\ outq' = Append(outq, r)
        BY <2>1 DEF Written, WireTyped
    <2> QED BY <2>1, <2>2, Pushed, Empty
<1>2. CASE Begins
    <2>1. inq' # <<>> => inq'[Len(inq')] = inq[Len(inq)]
        BY <1>2, ReadLeaves, Empty
    <2>2. stage \in AwaitPrefix /\ Awaited' = Awaited
        BY <1>2 DEF Begins
    <2>3. inq # <<>> /\ UNCHANGED <<outq, cut, sending>>
        BY <1>2, ReadLeaves
    <2> QED BY <2>1, <2>2, <2>3 DEF LastWritten
<1>3. CASE Completes
    BY <1>3 DEF Completes, Waiting, LastWritten
<1>4. CASE Keeps
    <2>1. stage' \in Waiting => Awaited' = Awaited /\ stage \in Waiting
        BY <1>4 DEF Keeps, Awaited
    <2> QED BY <1>4, <2>1 DEF Keeps, wire, LastWritten, Waiting
<1>5. CASE Breaks
    BY <1>5 DEF Breaks, LastWritten, AwaitPrefix, AwaitBody
<1>6. CASE BrokerAnswers
    <2>1. Awaited' = Awaited /\ stage' = stage /\ cut' = cut
        BY <1>6, AnswerSent DEF box, Awaited
    <2>2. outq # <<>> /\ outq' = Tail(outq) /\ sending' # NoFrame /\ sending'.to = outq[1]
        BY <1>6, AnswerSent, NoFrameIsNone
    <2>3. outq' # <<>> => outq'[Len(outq')] = outq[Len(outq)]
        BY <2>2, Popped, Empty DEF WireTyped
    <2>4. outq' = <<>> => sending'.to = outq[Len(outq)]
        <3> SUFFICES ASSUME outq' = <<>> PROVE sending'.to = outq[Len(outq)]
            OBVIOUS
        <3>1. Len(outq') = Len(outq) - 1 /\ Len(outq) \in Nat
            BY <2>2, Popped, Zenon DEF WireTyped
        <3>2. Len(outq) = 1
            BY <3>1
        <3> QED BY <2>2, <3>2
    <2> QED BY <2>1, <2>2, <2>3, <2>4 DEF LastWritten
<1>7. CASE BrokerSendsBody
    <2>1. Awaited' = Awaited /\ stage' = stage /\ cut' = cut
        BY <1>7, BodySent DEF box, Awaited
    <2>2. inq'[Len(inq')].frame = sending
        BY <1>7, SendAdds, SMTT(30) DEF Part
    <2> QED BY <1>7, <2>1, <2>2, BodySent DEF LastWritten
<1>8. CASE BrokerCloses
    BY <1>8 DEF BrokerCloses, box, LastWritten, Awaited
<1>9. CASE Slides
    BY <1>9, Zenon DEF Slides, Waiting, LastWritten
<1> QED BY <1>1, <1>2, <1>3, <1>4, <1>5, <1>6, <1>7, <1>8, <1>9 DEF Moves

\* Nothing of the drain is in the stream.
NoDrain ==
    /\ \A i \in 1..Len(outq) : outq[i] # DrainRequest
    /\ sending.to # DrainRequest
    /\ \A i \in 1..Len(inq) : inq[i].frame.to # DrainRequest

LEMMA NoFrameIsNoDrain == NoFrame.to # DrainRequest
    BY EgressAssumption, SMTT(30) DEF NoFrame, DrainRequest

\* The drain is last.
LEMMA DrainLastStep == WireTyped /\ DrainLast /\ Moves => DrainLast'
<1> SUFFICES ASSUME WireTyped, DrainLast, Moves PROVE DrainLast'
    OBVIOUS
<1>0. stage \notin Draining \/ cut => NoDrain
    BY DEF DrainLast, Draining, NoDrain
<1>1. CASE Asks
    <2>1. NoDrain
        BY <1>0, <1>1 DEF Asks, Waiting, Over, AwaitPrefix, AwaitBody, Draining
    <2>2. PICK r \in Requests : Written(r) /\ (r = DrainRequest => stage' \in Draining)
        BY <1>1, Zenon DEF Asks
    <2>3. CASE cut
        BY <2>1, <2>2, <2>3, ZenonT(30) DEF Written, DrainLast, NoDrain
    <2>4. CASE ~cut
        <3>1. outq \in Seq(Requests) /\ outq' = Append(outq, r) /\ UNCHANGED <<cut, inq, sending>>
            BY <2>2, <2>4 DEF Written, WireTyped
        <3>2. \A i \in 1..Len(outq') : outq'[i] = DrainRequest => i = Len(outq') /\ r = DrainRequest
            <4> SUFFICES ASSUME NEW i \in 1..Len(outq'), outq'[i] = DrainRequest
                         PROVE  i = Len(outq') /\ r = DrainRequest
                BY SMTT(30)
            <4>1. CASE i \in 1..Len(outq)
                BY <2>1, <3>1, <4>1, Pushed DEF NoDrain
            <4>2. CASE i \notin 1..Len(outq)
                BY <3>1, <4>2, Pushed, SMTT(30)
            <4> QED BY <4>1, <4>2
        <3> QED BY <2>1, <2>2, <2>4, <3>1, <3>2 DEF DrainLast, NoDrain, Draining
    <2> QED BY <2>3, <2>4
<1>2. CASE Begins \/ Completes
    <2>1. stage \in Draining => stage' \in Draining
        BY <1>2 DEF Begins, Completes
    <2>2. \A i \in 1..Len(inq') : i + 1 \in 1..Len(inq) /\ inq'[i] = inq[i + 1]
        BY <1>2, ReadLeaves
    <2>3. UNCHANGED <<outq, cut, sending>>
        BY <1>2, ReadLeaves, SMTT(30)
    <2>4. stage' \notin Draining \/ cut' => NoDrain'
        BY <1>0, <2>1, <2>2, <2>3, SMTT(30) DEF NoDrain
    <2>5. ASSUME NEW i \in 1..Len(inq'), inq'[i].frame.to = DrainRequest
          PROVE  outq' = <<>> /\ (inq'[i].part = "body" => i = Len(inq') /\ sending' = NoFrame)
        <3>1. i + 1 \in 1..Len(inq) /\ inq[i + 1].frame.to = DrainRequest /\ inq'[i] = inq[i + 1]
            BY <2>2, <2>5
        <3>2. outq = <<>> /\ (inq[i + 1].part = "body" => i + 1 = Len(inq) /\ sending = NoFrame)
            BY <3>1, Zenon DEF DrainLast
        <3> QED BY <1>2, <2>3, <3>1, <3>2, ReadLeaves
    <2> QED BY <2>3, <2>4, <2>5 DEF DrainLast, Draining, NoDrain
<1>3. CASE Keeps
    <2>1. stage \in Draining => stage' \in Draining
        BY <1>3, Zenon DEF Keeps
    <2> QED BY <1>3, <2>1 DEF Keeps, wire, DrainLast, Draining
<1>4. CASE Breaks
    <2>1. NoDrain
        BY <1>0, <1>4, Zenon DEF Breaks, BrokerCall, Draining
    <2> QED BY <1>4, <2>1 DEF Breaks, DrainLast, NoDrain
<1>5. CASE BrokerAnswers
    <2>1. /\ outq # <<>> /\ outq' = Tail(outq) /\ sending = NoFrame /\ sending'.to = outq[1]
          /\ UNCHANGED <<stage, cut>>
        BY <1>5, AnswerSent DEF box
    <2>2. \A i \in 1..Len(outq') : i + 1 \in 1..Len(outq) /\ outq'[i] = outq[i + 1]
        BY <2>1, Popped DEF WireTyped
    <2>3. 1 \in 1..Len(outq) /\ Len(outq') = Len(outq) - 1 /\ Len(outq) \in Nat
        BY <2>1, Popped, SMTT(30) DEF WireTyped
    <2>4. \A i \in 1..Len(inq) : inq[i].frame.to # DrainRequest
        BY <2>1 DEF DrainLast
    <2>5. ASSUME NEW i \in 1..Len(inq')
          PROVE  \/ inq'[i].frame.to # DrainRequest
                 \/ inq'[i].frame.to = outq[1] /\ inq'[i].part = "prefix"
        <3>1. CASE i \in 1..Len(inq)
            BY <1>5, <2>4, <3>1, SendAdds, SMTT(30)
        <3>2. CASE i \notin 1..Len(inq)
            <4>1. i = Len(inq')
                BY <1>5, <3>2, SendAdds
            <4> QED BY <1>5, <2>1, <4>1, SendAdds DEF Part
        <3> QED BY <3>1, <3>2, SMTT(30)
    <2>6. outq[1] = DrainRequest => outq' = <<>>
        <3> SUFFICES ASSUME outq[1] = DrainRequest PROVE outq' = <<>>
            OBVIOUS
        <3>1. Len(outq) = 1
            BY <2>3 DEF DrainLast
        <3>2. outq' \in Seq(Requests)
            BY <2>1, Popped DEF WireTyped
        <3>3. Len(outq') = 0
            BY <2>3, <3>1, SMTT(30)
        <3> QED BY <3>2, <3>3, Empty, Zenon
    <2>7. stage' \notin Draining \/ cut' => NoDrain'
        BY <1>0, <2>1, <2>2, <2>3, <2>5 DEF NoDrain
    <2>8. \A i \in 1..Len(outq') : outq'[i] = DrainRequest => i = Len(outq')
        <3> SUFFICES ASSUME NEW i \in 1..Len(outq'), outq'[i] = DrainRequest PROVE i = Len(outq')
            OBVIOUS
        <3>1. i + 1 \in 1..Len(outq) /\ outq[i + 1] = DrainRequest
            BY <2>2, Zenon
        <3>2. i + 1 = Len(outq)
            BY <3>1, ZenonT(30) DEF DrainLast
        <3> QED BY <2>3, <3>2
    <2> QED BY <2>1, <2>5, <2>6, <2>7, <2>8 DEF DrainLast, Draining, NoDrain
<1>6. CASE BrokerSendsBody
    <2>1. /\ sending # NoFrame /\ sending' = NoFrame /\ UNCHANGED <<stage, outq, cut>>
        BY <1>6, BodySent DEF box
    <2>2. ASSUME NEW i \in 1..Len(inq')
          PROVE  \/ i \in 1..Len(inq) /\ inq'[i] = inq[i]
                 \/ i = Len(inq') /\ inq'[i].frame = sending
        <3>1. CASE i \in 1..Len(inq)
            BY <1>6, <3>1, SendAdds, SMTT(30)
        <3>2. CASE i \notin 1..Len(inq)
            <4>1. i = Len(inq')
                BY <1>6, <3>2, SendAdds
            <4> QED BY <1>6, <4>1, SendAdds, SMTT(30) DEF Part
        <3> QED BY <3>1, <3>2, Zenon
    <2>3. stage' \notin Draining \/ cut' => NoDrain'
        BY <1>0, <2>1, <2>2, NoFrameIsNoDrain, Zenon DEF NoDrain
    <2>4. ASSUME NEW i \in 1..Len(inq'), inq'[i].frame.to = DrainRequest
          PROVE  outq' = <<>> /\ (inq'[i].part = "body" => i = Len(inq') /\ sending' = NoFrame)
        BY <2>1, <2>2, <2>4, ZenonT(30) DEF DrainLast
    <2> QED BY <2>1, <2>3, <2>4, NoFrameIsNoDrain DEF DrainLast, Draining, NoDrain
<1>7. CASE BrokerCloses
    BY <1>7 DEF BrokerCloses, box, DrainLast
<1>8. CASE Slides
    <2>1. PICK k \in 0..Len(inq) :
              /\ Len(inq) \in Nat /\ Len(inq') = Len(inq) - k
              /\ \A i \in 1..Len(inq') : i + k \in 1..Len(inq) /\ inq'[i] = inq[i + k]
        BY <1>8, SlideLeaves, Zenon
    <2>2. UNCHANGED <<outq, cut, sending>> /\ (stage \in Draining => stage' \in Draining)
        BY <1>8, Zenon DEF Slides, Slips
    <2>3. stage' \notin Draining \/ cut' => NoDrain'
        BY <1>0, <2>1, <2>2, Zenon DEF NoDrain
    <2>4. ASSUME NEW i \in 1..Len(inq'), inq'[i].frame.to = DrainRequest
          PROVE  outq' = <<>> /\ (inq'[i].part = "body" => i = Len(inq') /\ sending' = NoFrame)
        <3>1. i + k \in 1..Len(inq) /\ inq[i + k].frame.to = DrainRequest /\ inq'[i] = inq[i + k]
            BY <2>1, <2>4, Zenon
        <3>2. outq = <<>> /\ (inq[i + k].part = "body" => i + k = Len(inq) /\ sending = NoFrame)
            BY <3>1, Zenon DEF DrainLast
        <3>3. i + k = Len(inq) => i = Len(inq')
            BY <2>1
        <3> QED BY <2>2, <3>1, <3>2, <3>3, Zenon
    <2> QED BY <2>2, <2>3, <2>4 DEF DrainLast, Draining, NoDrain
<1> QED BY <1>1, <1>2, <1>3, <1>4, <1>5, <1>6, <1>7, <1>8 DEF Moves

LEMMA OwedSum ==
    ASSUME WireTyped
    PROVE  /\ Len(inq) \in Nat /\ Len(outq) \in Nat /\ Half \in {0, 1} /\ Owed \in Nat
           /\ Owed = Len(inq) + Half + 2 * Len(outq)
           /\ Half = 0 <=> sending = NoFrame
<1>1. Len(inq) \in Nat /\ Len(outq) \in Nat
    BY DEF WireTyped
<1>2. Half \in {0, 1} /\ (Half = 0 <=> sending = NoFrame)
    BY DEF Half
<1>3. Owed = Len(inq) + Half + 2 * Len(outq)
    BY DEF Owed
<1>4. Owed \in Nat
    BY <1>1, <1>2, <1>3
<1> QED BY <1>1, <1>2, <1>3, <1>4

\* The broker owes two parts more for a request written and one less for a part read.
LEMMA OwedStep ==
    ASSUME WireTyped, Moves
    PROVE  /\ Owed \in Nat /\ Owed' \in Nat
           /\ Asks => cut' = cut /\ (~cut => Owed' = Owed + 2)
           /\ Begins \/ Completes => cut' = cut /\ Owed' = Owed - 1
           /\ Keeps \/ Breaks \/ BrokerAnswers \/ BrokerSendsBody \/ BrokerCloses => Owed' = Owed
           /\ Keeps \/ BrokerAnswers \/ BrokerSendsBody \/ BrokerCloses => cut' = cut
           /\ ~torn' => ~torn /\ ~Slides
           /\ ~Breaks => torn' = torn
<1>0. WireTyped'
    BY WireTypedStep
<1>1. /\ Len(inq) \in Nat /\ Len(outq) \in Nat /\ Half \in {0, 1} /\ Owed \in Nat
      /\ Owed = Len(inq) + Half + 2 * Len(outq) /\ (Half = 0 <=> sending = NoFrame)
    BY OwedSum
<1>2. /\ Len(inq') \in Nat /\ Len(outq') \in Nat /\ Half' \in {0, 1} /\ Owed' \in Nat
      /\ Owed' = Len(inq') + Half' + 2 * Len(outq') /\ (Half' = 0 <=> sending' = NoFrame)
    <2>1. Len(inq') \in Nat /\ Len(outq') \in Nat
        BY <1>0 DEF WireTyped
    <2>2. Half' \in {0, 1} /\ (Half' = 0 <=> sending' = NoFrame)
        BY DEF Half
    <2>3. Owed' = Len(inq') + Half' + 2 * Len(outq')
        BY DEF Owed
    <2>4. Owed' \in Nat
        BY <2>1, <2>2, <2>3
    <2> QED BY <2>1, <2>2, <2>3, <2>4
<1>3. ASSUME Asks PROVE cut' = cut /\ (~cut => Owed' = Owed + 2)
    <2>1. PICK r \in Requests : Written(r)
        BY <1>3 DEF Asks
    <2>2. UNCHANGED <<cut, inq, sending>>
        BY <2>1 DEF Written
    <2>3. ~cut => Len(outq') = Len(outq) + 1
        BY <2>1, Pushed DEF Written, WireTyped
    <2>4. Half' = Half
        BY <2>2 DEF Half
    <2> QED BY <1>1, <1>2, <2>2, <2>3, <2>4
<1>4. ASSUME Begins \/ Completes PROVE cut' = cut /\ Owed' = Owed - 1
    <2>1. UNCHANGED <<outq, cut, sending>> /\ Len(inq') = Len(inq) - 1
        BY <1>4, ReadLeaves
    <2>2. Half' = Half
        BY <2>1 DEF Half
    <2> QED BY <1>1, <1>2, <2>1, <2>2
<1>5. ASSUME Keeps \/ Breaks \/ BrokerCloses PROVE Owed' = Owed
    BY <1>5, Zenon DEF Keeps, wire, Breaks, BrokerCloses, Owed, Half
<1>6. ASSUME BrokerAnswers PROVE Owed' = Owed
    <2>1. sending = NoFrame /\ sending' # NoFrame /\ outq # <<>> /\ outq' = Tail(outq)
        BY <1>6, AnswerSent, NoFrameIsNone
    <2>2. Len(inq') = Len(inq) + 1
        BY <1>6, SendAdds
    <2>3. Len(outq') = Len(outq) - 1
        BY <2>1, Popped DEF WireTyped
    <2> QED BY <1>1, <1>2, <2>1, <2>2, <2>3
<1>7. ASSUME BrokerSendsBody PROVE Owed' = Owed
    <2>1. sending # NoFrame /\ sending' = NoFrame /\ UNCHANGED outq
        BY <1>7, BodySent, Zenon
    <2>2. Len(inq') = Len(inq) + 1
        BY <1>7, SendAdds, Zenon
    <2> QED BY <1>1, <1>2, <2>1, <2>2
<1>8. Keeps \/ BrokerAnswers \/ BrokerSendsBody \/ BrokerCloses => cut' = cut
    BY DEF Keeps, wire, BrokerAnswers, BrokerSendsBody, BrokerCloses
<1>9. ~Breaks => torn' = torn
    BY Zenon DEF Moves, Asks, Written, Begins, PrefixRead, Completes, BodyRead, Keeps, wire, Slides,
       Slips, BrokerAnswers, BrokerSendsBody, BrokerCloses
<1>10. ~torn' => ~torn /\ ~Slides
    <2>1. Breaks /\ torn => torn'
        BY Zenon DEF Breaks
    <2>2. Slides => torn
        BY Zenon DEF Slides, Slips
    <2> QED BY <1>9, <2>1, <2>2
<1> QED BY <1>1, <1>2, <1>3, <1>4, <1>5, <1>6, <1>7, <1>8, <1>9, <1>10

\* What the box is about to read.
LEMMA DueStep ==
    ASSUME WireTyped, Moves
    PROVE  /\ Due \in 0..2 /\ Due' \in 0..2
           /\ Asks => Due = 0 /\ Due' = 2
           /\ Begins => Due = 2 /\ Due' = 1
           /\ Completes => Due = 1 /\ Due' = 0
           /\ Keeps => (stage' = stage /\ Due' = Due) \/ Due' = 0
           /\ Breaks => Due' = 0
           /\ BrokerAnswers \/ BrokerSendsBody \/ BrokerCloses => Due' = Due /\ stage' = stage
<1>0. Due \in 0..2 /\ Due' \in 0..2
    BY DEF Due
<1>1. Asks => Due = 0 /\ Due' = 2
    BY DEF Due, Asks, Waiting
<1>2. Begins => Due = 2 /\ Due' = 1
    BY DEF Due, Begins, AwaitPrefix, AwaitBody
<1>3. Completes => Due = 1 /\ Due' = 0
    BY DEF Due, Completes, Waiting, AwaitPrefix, AwaitBody
<1>4. Keeps => (stage' = stage /\ Due' = Due) \/ Due' = 0
    BY DEF Due, Keeps, Waiting
<1>5. Breaks => Due' = 0
    BY Zenon DEF Due, Breaks, AwaitPrefix, AwaitBody
<1>6. BrokerAnswers \/ BrokerSendsBody \/ BrokerCloses => stage' = stage
    BY DEF BrokerAnswers, BrokerSendsBody, BrokerCloses, box
<1>7. stage' = stage => Due' = Due
    BY DEF Due
<1> QED BY <1>0, <1>1, <1>2, <1>3, <1>4, <1>5, <1>6, <1>7

\* The box falls further behind or stays where it is.
LEMMA NeverCatchesUp ==
    ASSUME WireTyped, Moves, ~cut', cut \in BOOLEAN, ~torn'
    PROVE  ~cut /\ ~torn /\ Owed + Due' <= Owed' + Due
<1>1. ~torn /\ ~Slides
    BY OwedStep, Zenon
<1>2. ~cut
    BY <1>1, OwedStep, ZenonT(30) DEF Moves, Breaks
<1> QED BY <1>1, <1>2, OwedStep, DueStep DEF Moves

\* A dead stream stays dead, and a session that is over stays so.
LEMMA DeadStays == WireTyped /\ Moves /\ Dead => Dead'
<1> SUFFICES ASSUME WireTyped, Moves, Dead PROVE Dead'
    OBVIOUS
<1>1. CASE Slides
    <2>1. PICK k \in 0..Len(inq) :
              Len(inq) \in Nat /\ inq' \in Seq(Parts) /\ Len(inq') = Len(inq) - k
        BY <1>1, SlideLeaves, Zenon
    <2>2. Len(inq) = 0
        BY Empty DEF Dead, WireTyped
    <2>3. inq' = <<>>
        BY <2>1, <2>2, Empty
    <2> QED BY <1>1, <2>3, Zenon DEF Slides, Slips, Dead
<1>2. CASE ~Slides
    BY <1>2, SMTT(30)
       DEF Moves, Asks, Written, Begins, PrefixRead, Completes, BodyRead, Keeps, wire, Breaks,
           BrokerAnswers, BrokerSendsBody, BrokerCloses, Dead
<1> QED BY <1>1, <1>2

LEMMA OverStays == Moves /\ stage \in Over => stage' \in Over /\ stage' = stage
    BY DEF Moves, Asks, Begins, Completes, Keeps, Breaks, Slides, BrokerAnswers, BrokerSendsBody,
           BrokerCloses, box, Over, AwaitPrefix, AwaitBody, BrokerCall

\* The one frame that a box in step reads is the response it awaits.
LEMMA InStepReads ==
    ASSUME WireTyped, LastWritten, ~cut, stage \in AwaitBody, Owed = 1,
           NEW f \in Frames, BodyRead(f)
    PROVE  f.to = Awaited
<1>1. inq # <<>> /\ f = inq[1].frame /\ Len(inq) # 0
    BY Popped, Empty DEF BodyRead, WireTyped
<1>2. Len(inq) = 1 /\ Len(outq) = 0 /\ sending = NoFrame
    <2>1. ASSUME NEW a \in Nat, NEW b \in Nat, NEW h \in {0, 1}, a # 0, 1 = a + h + 2 * b
          PROVE  a = 1 /\ b = 0 /\ h = 0
        BY <2>1
    <2>2. Len(inq) = 1 /\ Len(outq) = 0 /\ Half = 0
        BY <1>1, <2>1, OwedSum, Zenon
    <2> QED BY <2>2, OwedSum
<1>3. outq = <<>>
    BY <1>2, Empty DEF WireTyped
<1> QED BY <1>1, <1>2, <1>3 DEF LastWritten

-----------------------------------------------------------------------------
(* What a step does to the outcomes                                        *)

Quiet == UNCHANGED <<outcome, replyTo>>
InCall == {"call_prefix", "call_body"}

\* No call returns: the request of the current one may be written.
Stays ==
    /\ Quiet
    /\ stage \in InCall => stage' \in InCall /\ calls' = calls
    /\ \/ asked' = asked
       \/ asked' = asked \cup {calls} /\ stage' = "call_prefix" /\ calls' = calls

\* The current call returns, and records no response or the one that it has read.
Settles(code, reply) ==
    /\ stage \in BrokerCall \cup LocalCall /\ stage' = "running"
    /\ outcome' = [outcome EXCEPT ![calls] = code]
    /\ asked' = asked
    /\ \A c \in Calls : c # calls => replyTo'[c] = replyTo[c]
    /\ replyTo'[calls] = reply
    /\ \/ reply \in {0, replyTo[calls]} /\ (stage = "call_body" => inq' = inq)
       \/ stage = "call_body" /\ \E f \in Frames : BodyRead(f) /\ reply = f.to

LEMMA StepSettles ==
    SessionTypeOK /\ Counted /\ [SessionNext]_sessionVars =>
        Stays \/ \E code, reply : Settles(code, reply)
<1> SUFFICES ASSUME SessionTypeOK, Counted, [SessionNext]_sessionVars
             PROVE  Stays \/ \E code, reply : Settles(code, reply)
    OBVIOUS
<1>0. /\ stage \in BrokerCall \cup LocalCall => calls \in Calls
      /\ outcome \in [Calls -> Outcomes] /\ replyTo \in [Calls -> 0..MaxCalls]
    BY EgressAssumption, SMTT(30) DEF SessionTypeOK, Counted, Calls
<1>1. ASSUME NEW code, NEW reply, stage \in BrokerCall, Returns(code, reply),
             \/ reply = 0 /\ (stage = "call_body" => inq' = inq)
             \/ stage = "call_body" /\ \E f \in Frames : BodyRead(f) /\ reply = f.to
      PROVE  Settles(code, reply)
    <2>1. calls \in Calls /\ replyTo' = [replyTo EXCEPT ![calls] = reply]
        BY <1>0, <1>1 DEF Returns
    <2>2. /\ \A c \in Calls : c # calls => replyTo'[c] = replyTo[c]
          /\ replyTo'[calls] = reply
        BY <1>0, <2>1
    <2> QED BY <1>1, <2>2, Zenon DEF Returns, Settles
<1>2. CASE CallWrite
    <2>1. stage = "call_write"
        BY <1>2, Zenon DEF CallWrite
    <2>2. CASE Returns("IO_TRANSPORT", 0)
        BY <1>1, <2>1, <2>2 DEF BrokerCall
    <2>3. CASE /\ stage' = "call_prefix" /\ asked' = asked \cup {calls}
               /\ UNCHANGED <<clock, calls, started, expires, outcome, replyTo, metrics, local>>
        BY <2>1, <2>3, Zenon DEF Stays, Quiet, InCall
    <2> QED BY <1>2, <2>2, <2>3, Zenon DEF CallWrite
<1>3. CASE CallPrefix
    <2>1. stage = "call_prefix"
        BY <1>3, Zenon DEF CallPrefix
    <2>2. CASE Returns("IO_TRANSPORT", 0)
        BY <1>1, <2>1, <2>2 DEF BrokerCall
    <2>3. CASE Advance("call_body")
        BY <2>1, <2>3, Zenon DEF Advance, Stays, Quiet, InCall
    <2> QED BY <1>3, <2>2, <2>3, Zenon DEF CallPrefix
<1>4. CASE CallBody
    <2>0. stage = "call_body" /\ stage \in BrokerCall
        BY <1>4, Zenon DEF CallBody, BrokerCall
    <2>1. CASE StreamEnds /\ Returns("IO_TRANSPORT", 0)
        BY <1>1, <2>0, <2>1, Zenon DEF StreamEnds, wire
    <2>2. ASSUME NEW f \in Frames, BodyRead(f), Returns(ResultOf(f.kind), f.to)
          PROVE  \E code, reply : Settles(code, reply)
        <3>1. Settles(ResultOf(f.kind), f.to)
            BY <1>1, <2>0, <2>2, Zenon
        <3> QED BY <3>1, Zenon
    <2> QED BY <1>4, <2>1, <2>2, Zenon DEF CallBody
<1>5. CASE CallTimeout
    <2>1. Returns("IO_TIMEOUT", 0) /\ stage \in BrokerCall
        BY <1>5, Zenon DEF CallTimeout
    <2>2. stage = "call_body" => inq' = inq
        BY <1>5 DEF CallTimeout
    <2> QED BY <1>1, <2>1, <2>2, Zenon
<1>6. CASE LocalSend \/ LocalText
    <2>1. stage \in LocalCall /\ stage \notin InCall
        BY <1>6, SMTT(30) DEF LocalSend, LocalText, LocalCall, InCall
    <2>2. ASSUME NEW code \in {"local_ok", "local_error"}, LocalReturns(code)
          PROVE  \E c, reply : Settles(c, reply)
        <3>1. /\ stage' = "running" /\ replyTo' = replyTo /\ asked' = asked
              /\ outcome' = [outcome EXCEPT ![calls] = code]
            BY <2>2, Zenon DEF LocalReturns
        <3>2. stage # "call_body" /\ stage \in BrokerCall \cup LocalCall
            BY <2>1 DEF InCall
        <3>3. \A c \in Calls : c # calls => replyTo'[c] = replyTo[c]
            BY <3>1
        <3>4. Settles(code, replyTo[calls])
            BY <3>1, <3>2, <3>3, Zenon DEF Settles
        <3> QED BY <3>4, Zenon
    <2>3. CASE Advance("local_text")
        BY <2>1, <2>3, Zenon DEF Advance, Stays, Quiet
    <2> QED BY <1>6, <2>2, <2>3 DEF LocalSend, LocalText
<1>7. CASE HandshakeWrite \/ HandshakePrefix \/ HandshakeBody
    BY <1>7 DEF HandshakeWrite, HandshakePrefix, HandshakeBody, Stays, Quiet, InCall
<1>8. CASE StartCall \/ ScriptEnds
    BY <1>8 DEF StartCall, ScriptEnds, Stays, Quiet, InCall
<1>9. CASE DrainWrite \/ DrainPrefix \/ DrainBody
    <2>1. stage \notin InCall
        BY <1>9 DEF DrainWrite, DrainPrefix, DrainBody, InCall
    <2> QED BY <1>9, <2>1, Zenon DEF DrainWrite, DrainPrefix, DrainBody, Advance, Drained, Stays, Quiet
<1>10. CASE BrokerAnswers \/ BrokerSendsBody \/ BrokerCloses \/ SessionTick \/ UNCHANGED sessionVars
    <2>1. UNCHANGED box
        BY <1>10, Zenon DEF BrokerAnswers, BrokerSendsBody, BrokerCloses, SessionTick, sessionVars
    <2> QED BY <2>1, Zenon DEF box, Stays, Quiet
<1> QED BY <1>2, <1>3, <1>4, <1>5, <1>6, <1>7, <1>8, <1>9, <1>10, Zenon DEF SessionNext, BoxStep

\* The metrics are taken by the drain, from the response to it.
LEMMA StepMetrics ==
    [SessionNext]_sessionVars =>
        \/ UNCHANGED metrics
        \/ /\ stage' \in Over /\ Quiet /\ asked' = asked /\ calls' = calls
           /\ metrics' = "metrics" =>
                 stage = "drain_body" /\ \E f \in Frames : BodyRead(f) /\ f.kind = "Metrics"
<1> SUFFICES ASSUME [SessionNext]_sessionVars, metrics' # metrics
             PROVE  /\ stage' \in Over /\ Quiet /\ asked' = asked /\ calls' = calls
                    /\ metrics' = "metrics" =>
                          stage = "drain_body" /\ \E f \in Frames : BodyRead(f) /\ f.kind = "Metrics"
    OBVIOUS
<1>1. DrainWrite \/ DrainPrefix \/ DrainBody
    <2>1. ~(HandshakeWrite \/ HandshakePrefix \/ HandshakeBody \/ StartCall \/ ScriptEnds)
        BY DEF HandshakeWrite, HandshakePrefix, HandshakeBody, StartCall, ScriptEnds
    <2>2. ~(CallWrite \/ CallPrefix \/ CallBody \/ CallTimeout \/ LocalSend \/ LocalText)
        BY Zenon
           DEF CallWrite, CallPrefix, CallBody, CallTimeout, LocalSend, LocalText, Advance, Returns,
               LocalReturns
    <2>3. ~(BrokerAnswers \/ BrokerSendsBody \/ BrokerCloses \/ SessionTick \/ UNCHANGED sessionVars)
        BY DEF BrokerAnswers, BrokerSendsBody, BrokerCloses, SessionTick, sessionVars, box
    <2> QED BY <2>1, <2>2, <2>3 DEF SessionNext, BoxStep
<1> QED BY <1>1 DEF DrainWrite, DrainPrefix, DrainBody, Advance, Drained, Over, Quiet

\* Until a call has timed out the box is in step or the stream is dead.
LEMMA InStepStep ==
    ASSUME SessionTypeOK, Counted, Framed, Steady, [SessionNext]_sessionVars, Moves,
           stage' \notin Over, \A d \in Calls : outcome'[d] # "IO_TIMEOUT"
    PROVE  ~cut' /\ ~torn' /\ (Owed' = Due' \/ Dead')
<1>0. WireTyped /\ outcome \in [Calls -> Outcomes]
    BY SessionTypes, Zenon DEF BoxTyped
<1>1. \A d \in Calls : outcome[d] # "IO_TIMEOUT"
    <2>1. CASE Stays
        BY <2>1, Zenon DEF Stays, Quiet
    <2>2. ASSUME NEW code, NEW reply, Settles(code, reply)
          PROVE  \A d \in Calls : outcome[d] # "IO_TIMEOUT"
        BY <1>0, <2>2 DEF Settles, Counted
    <2> QED BY <2>1, <2>2, StepSettles, Zenon
<1>2. stage \notin Over
    BY OverStays, SMTT(30)
<1>3. ~cut /\ ~torn /\ (Owed = Due \/ Dead)
    BY <1>1, <1>2, Zenon DEF Steady
<1>4. ~Breaks
    <2> SUFFICES ASSUME Breaks PROVE FALSE
        BY SMTT(30)
    <2>1. calls \in Calls
        BY EgressAssumption DEF Breaks, Counted, Calls, SessionTypeOK
    <2> QED BY <1>0, <2>1 DEF Breaks
<1>5. ~torn' /\ ~Slides
    <2>1. ~torn'
        BY <1>0, <1>3, <1>4, OwedStep
    <2> QED BY <1>0, <2>1, OwedStep, Zenon
<1>6. ~cut'
    BY <1>0, <1>3, <1>4, <1>5, OwedStep, Zenon DEF Moves
<1>7. CASE Dead
    BY <1>0, <1>5, <1>6, <1>7, DeadStays
<1>8. CASE Owed = Due /\ ~Dead
    <2>1. CASE Keeps
        <3>1. Owed' = Owed
            BY <1>0, <2>1, OwedStep
        <3>2. CASE stage' = stage
            BY <1>5, <1>6, <1>8, <3>1, <3>2 DEF Due
        <3>3. CASE stage' # stage
            <4>1. stage' \notin Waiting /\ stage \notin Waiting
                BY <1>8, <2>1, <3>3, Zenon DEF Keeps
            <4>2. Due = 0 /\ Due' = 0
                BY <4>1 DEF Due, Waiting
            <4> QED BY <1>5, <1>6, <1>8, <3>1, <4>2
        <3> QED BY <3>2, <3>3
    <2>2. CASE ~Keeps
        <3>1. Owed' = Due'
            BY <1>0, <1>3, <1>4, <1>5, <1>8, <2>2, OwedStep, DueStep DEF Moves
        <3> QED BY <1>5, <1>6, <3>1
    <2> QED BY <2>1, <2>2
<1> QED BY <1>3, <1>7, <1>8

\* A session in step stays clean.
LEMMA CleanStep ==
    ASSUME SessionTypeOK, Counted, LastWritten, Steady, [SessionNext]_sessionVars, Moves,
           stage' \notin Over, ~cut', ~torn', Owed' = Due'
    PROVE  Clean'
<1>0. WireTyped /\ outcome \in [Calls -> Outcomes] /\ replyTo \in [Calls -> 0..MaxCalls]
    BY SessionTypes DEF BoxTyped
<1>1. stage \notin Over
    BY OverStays
<1>2. ~cut /\ ~torn /\ Owed + Due' <= Owed' + Due
    BY <1>0, NeverCatchesUp, Zenon DEF WireTyped
<1>3. Owed = Due
    BY <1>0, <1>1, <1>2, OwedStep, DueStep DEF Steady
<1>4. Clean
    BY <1>1, <1>2, <1>3, Zenon DEF Steady
<1> SUFFICES ASSUME NEW c \in asked' PROVE replyTo'[c] = c \/ Current(c)'
    BY Zenon DEF Clean
<1>5. CASE Stays
    <2>1. CASE c \in asked
        BY <1>4, <1>5, <2>1, Zenon DEF Stays, Quiet, Clean, Current, InCall
    <2>2. CASE c \notin asked
        BY <1>5, <2>2, Zenon DEF Stays, Current
    <2> QED BY <2>1, <2>2
<1>6. ASSUME NEW code, NEW reply, Settles(code, reply) PROVE replyTo'[c] = c
    <2>1. c \in asked /\ asked \subseteq Calls
        BY <1>6, Zenon DEF Settles, SessionTypeOK
    <2>2. CASE c # calls
        BY <1>4, <1>6, <2>1, <2>2, Zenon DEF Settles, Clean, Current
    <2>3. CASE c = calls
        <3>1. stage \in InCall
            BY <1>6, <2>1, <2>3 DEF Counted, Settles, BrokerCall, LocalCall, InCall
        <3>2. Due # 0 /\ Due' = 0 /\ (stage = "call_body" => Due = 1)
            BY <1>6, <3>1 DEF InCall, Due, AwaitPrefix, AwaitBody, Settles
        <3>3. Owed' # Owed
            BY <1>3, <3>2
        <3>4. Completes
            BY <1>0, <1>6, <3>1, <3>3, OwedStep, Zenon
               DEF Moves, Asks, Begins, Slides, Waiting, AwaitPrefix, AwaitBody, InCall, Settles,
                   Slips
        <3>5. stage = "call_body" /\ stage \in AwaitBody /\ Owed = 1 /\ Awaited = calls
            BY <1>3, <3>1, <3>2, <3>4 DEF Completes, AwaitBody, InCall, Awaited, Drain
        <3>6. inq' # inq
            BY <1>0, <3>4, ReadLeaves
        <3>7. PICK f \in Frames : BodyRead(f) /\ reply = f.to
            BY <1>6, <3>5, <3>6, Zenon DEF Settles
        <3>8. f.to = Awaited
            BY <1>0, <1>2, <3>5, <3>7, InStepReads, Zenon
        <3> QED BY <1>6, <2>3, <3>5, <3>7, <3>8, Zenon DEF Settles
    <2> QED BY <2>2, <2>3
<1> QED BY <1>5, <1>6, StepSettles

\* Steady is preserved.
LEMMA SteadyStep ==
    ASSUME SessionTypeOK, Counted, Framed, LastWritten, Steady, [SessionNext]_sessionVars
    PROVE  Steady'
<1>0. WireTyped /\ Moves
    BY SessionTypes, StepMoves
<1>1. stage' \notin Over => stage \notin Over
    BY <1>0, OverStays
<1>2. stage' \notin Over /\ ~cut' /\ ~torn' => Due' <= Owed'
    <2> SUFFICES ASSUME stage' \notin Over, ~cut', ~torn' PROVE Due' <= Owed'
        BY Zenon
    <2>1. ~cut /\ ~torn /\ Owed + Due' <= Owed' + Due
        BY <1>0, NeverCatchesUp, Zenon DEF WireTyped
    <2>2. Due <= Owed
        BY <1>1, <2>1, Zenon DEF Steady
    <2> QED BY <1>0, <2>1, <2>2, OwedStep, DueStep
<1>3. stage' \notin Over /\ ~cut' /\ ~torn' /\ Owed' = Due' => Clean'
    BY <1>0, CleanStep, Zenon
<1>4. stage' \notin Over /\ (\A d \in Calls : outcome'[d] # "IO_TIMEOUT") =>
          ~cut' /\ ~torn' /\ (Owed' = Due' \/ Dead')
    BY <1>0, InStepStep, Zenon
<1>5. stage' \notin Over => metrics' = "none"
    BY <1>1, StepMetrics DEF Steady
<1> QED BY <1>2, <1>3, <1>4, <1>5, Zenon DEF Steady

\* A call reads its own response, unless an earlier one timed out.
LEMMA RepliesStep ==
    ASSUME SessionTypeOK, Counted, LastWritten, Steady, SessionInStep, [SessionNext]_sessionVars,
           NEW c \in Calls
    PROVE  OwnReply(c)' \/ \E d \in 1..(c - 1) : outcome'[d] = "IO_TIMEOUT"
<1>0. WireTyped /\ outcome \in [Calls -> Outcomes] /\ replyTo \in [Calls -> 0..MaxCalls]
    BY SessionTypes DEF BoxTyped
<1>1. OwnReply(c) \/ \E d \in 1..(c - 1) : outcome[d] = "IO_TIMEOUT"
    BY Zenon DEF SessionInStep
<1>2. CASE Stays
    BY <1>1, <1>2, Zenon DEF Stays, Quiet, OwnReply
<1>3. ASSUME NEW code, NEW reply, Settles(code, reply)
      PROVE  OwnReply(c)' \/ \E d \in 1..(c - 1) : outcome'[d] = "IO_TIMEOUT"
    <2>1. ASSUME NEW d \in Calls, outcome[d] = "IO_TIMEOUT"
          PROVE  outcome'[d] = "IO_TIMEOUT" /\ d \in 1..(calls - 1)
        <3>1. d # calls
            BY <1>3, <2>1 DEF Settles, Counted
        <3>2. ~(d > calls)
            BY <2>1 DEF Counted
        <3>3. outcome'[d] = "IO_TIMEOUT"
            BY <1>0, <1>3, <2>1, <3>1 DEF Settles
        <3> QED BY <3>1, <3>2, <3>3, SMTT(30) DEF Calls, SessionTypeOK
    <2>2. CASE replyTo'[c] = replyTo[c]
        <3>1. CASE OwnReply(c)
            BY <2>2, <3>1, Zenon DEF OwnReply
        <3>2. ASSUME NEW d \in 1..(c - 1), outcome[d] = "IO_TIMEOUT"
              PROVE  outcome'[d] = "IO_TIMEOUT"
            <4>1. d \in Calls
                BY EgressAssumption DEF Calls
            <4> QED BY <2>1, <3>2, <4>1
        <3> QED BY <1>1, <3>1, <3>2
    <2>3. CASE c = calls /\ reply = 0
        BY <1>3, <2>3, Zenon DEF Settles, OwnReply
    <2>4. ASSUME c = calls, stage = "call_body", NEW f \in Frames, BodyRead(f), reply = f.to
          PROVE  OwnReply(c)' \/ \E d \in 1..(c - 1) : outcome'[d] = "IO_TIMEOUT"
        <3>1. CASE \E d \in Calls : outcome[d] = "IO_TIMEOUT"
            BY <2>1, <2>4, <3>1
        <3>2. CASE \A d \in Calls : outcome[d] # "IO_TIMEOUT"
            <4>1. ~cut /\ (Owed = Due \/ Dead)
                BY <2>4, <3>2, SMTT(30) DEF Steady, Over
            <4>2. Owed = 1 /\ stage \in AwaitBody /\ Awaited = calls
                BY <2>4, <4>1 DEF Due, Dead, BodyRead, AwaitPrefix, AwaitBody, Awaited, Drain
            <4>3. f.to = Awaited
                BY <1>0, <2>4, <4>1, <4>2, InStepReads, Zenon
            <4> QED BY <1>3, <2>4, <4>2, <4>3, Zenon DEF Settles, OwnReply
        <3> QED BY <3>1, <3>2, Zenon
    <2>5. c # calls => replyTo'[c] = replyTo[c]
        BY <1>3, Zenon DEF Settles
    <2>6. CASE c = calls
        BY <1>3, <2>2, <2>3, <2>4, <2>6, Zenon DEF Settles
    <2> QED BY <2>2, <2>5, <2>6
<1> QED BY <1>2, <1>3, StepSettles

\* Driver metrics are those of a session that stayed in step.
LEMMA MetricsStep ==
    ASSUME SessionTypeOK, Framed, Answered, DrainLast, Counted, Steady, SessionInStep,
           [SessionNext]_sessionVars, metrics' = "metrics"
    PROVE  torn' \/ \A c \in asked' : replyTo'[c] = c
<1>0. WireTyped /\ Moves
    BY SessionTypes, StepMoves, SMTT(30)
<1>1. CASE UNCHANGED metrics
    <2>1. stage \in Over /\ (torn \/ \A c \in asked : replyTo[c] = c)
        BY <1>1, SMTT(30) DEF Steady, SessionInStep
    <2>2. ~\E code, reply : Settles(code, reply)
        BY <2>1 DEF Settles, Over, BrokerCall, LocalCall
    <2>3. Stays /\ stage' \in Over
        BY <1>0, <2>1, <2>2, StepSettles, OverStays, SMTT(30)
    <2>4. asked' = asked /\ replyTo' = replyTo
        BY <2>3 DEF Stays, Quiet, Over
    <2>5. torn => torn'
        BY <1>0, OwedStep, Zenon DEF Breaks
    <2> QED BY <2>1, <2>4, <2>5, Zenon
<1>2. CASE metrics' # metrics
    <2>1. Quiet /\ stage = "drain_body" /\ asked' = asked
        BY <1>2, StepMetrics
    <2>2. PICK f \in Frames : BodyRead(f) /\ f.kind = "Metrics"
        BY <1>2, StepMetrics
    <2>3. inq # <<>> /\ f = inq[1].frame /\ 1 \in 1..Len(inq)
        BY <1>0, <2>2, Popped DEF BodyRead, WireTyped
    <2>4. inq[1].part = "body"
        BY <2>1, <2>3 DEF Framed, AwaitBody
    <2>5. f.to = DrainRequest
        <3>1. f.kind \in Answers(f.to)
            BY <2>3, SMTT(30) DEF Answered
        <3> QED BY <2>2, <3>1, SMTT(30) DEF Answers
    <2>6. outq = <<>> /\ Len(inq) = 1 /\ sending = NoFrame
        BY <2>3, <2>4, <2>5 DEF DrainLast
    <2>7. ~cut
        BY <2>3, <2>5 DEF DrainLast
    <2>8. Half = 0 /\ Len(outq) = 0
        BY <2>6 DEF Half
    <2>9. Owed = 1 /\ Due = 1
        BY <2>1, <2>6, <2>8 DEF Owed, Due, AwaitPrefix, AwaitBody
    <2>10. stage \notin Over /\ \A c : ~Current(c)
        BY <2>1, SMTT(30) DEF Over, Current
    <2>11. torn \/ Clean
        BY <2>7, <2>9, <2>10, Zenon DEF Steady
    <2>12. torn => torn'
        BY <1>0, OwedStep, Zenon DEF Breaks
    <2> QED BY <2>1, <2>10, <2>11, <2>12, Zenon DEF Quiet, Clean
<1> QED BY <1>1, <1>2

\* SessionInv is inductive.
LEMMA SessionInductive == SessionSpec => []SessionInv
<1>1. SessionInit => SessionInv
    <2> SUFFICES ASSUME SessionInit PROVE SessionInv
        OBVIOUS
    <2> USE EgressAssumption DEF SessionInit
    <2>1. SessionTypeOK
        <3>1. outq \in Seq(Requests) /\ inq \in Seq(Parts)
            OBVIOUS
        <3>2. WireTyped
            BY <3>1, Zenon DEF WireTyped
        <3>3. BoxTyped
            BY DEF BoxTyped, Stages, Calls, Outcomes
        <3> QED BY <3>2, <3>3, SessionTypes
    <2>2. Timed /\ Counted
        BY DEF Timed, Counted, BrokerCall, LocalCall, Calls
    <2>3. Len(inq) = 0 /\ Len(outq) = 0 /\ Half = 0
        BY Zenon DEF Half
    <2>4. Framed /\ Answered /\ LastWritten
        BY <2>3, SMTT(30) DEF Framed, Answered, LastWritten, AwaitPrefix, AwaitBody
    <2>5. DrainLast
        BY <2>3, NoFrameIsNoDrain DEF DrainLast
    <2>6. Owed = 0 /\ Due = 0
        BY <2>3 DEF Owed, Due, AwaitPrefix, AwaitBody
    <2>7. Clean /\ SessionInStep
        BY DEF Clean, OwnReply, SessionInStep, Calls
    <2>8. Steady
        BY <2>6, <2>7 DEF Steady
    <2> QED BY <2>1, <2>2, <2>4, <2>5, <2>7, <2>8 DEF SessionInv
<1>2. SessionInv /\ [SessionNext]_sessionVars => SessionInv'
    <2> SUFFICES ASSUME SessionInv, [SessionNext]_sessionVars PROVE SessionInv'
        OBVIOUS
    <2>1. /\ SessionTypeOK /\ Timed /\ Counted /\ Framed /\ Answered /\ LastWritten /\ DrainLast
          /\ Steady /\ SessionInStep
        BY DEF SessionInv
    <2>2. WireTyped /\ BoxTyped /\ Moves
        BY <2>1, SessionTypes, StepMoves
    <2>3. WireTyped' /\ BoxTyped'
        BY <2>1, <2>2, WireTypedStep, BoxTypedStep, SMTT(30)
    <2>4. SessionTypeOK'
        BY <2>3 DEF SessionTypeOK, BoxTyped, WireTyped, Parts
    <2>5. Timed' /\ Counted'
        BY <2>1, SessionTimedStep, SessionCountedStep
    <2>6. Framed' /\ Answered' /\ LastWritten' /\ DrainLast'
        BY <2>1, <2>2, FramedStep, AnsweredStep, LastWrittenStep, DrainLastStep
    <2>7. Steady'
        BY <2>1, SteadyStep
    <2>8. \A c \in Calls : OwnReply(c)' \/ \E d \in 1..(c - 1) : outcome'[d] = "IO_TIMEOUT"
        BY <2>1, RepliesStep
    <2>9. metrics' = "metrics" => torn' \/ \A c \in asked' : replyTo'[c] = c
        BY <2>1, MetricsStep
    <2>10. SessionInStep'
        BY <2>8, <2>9, Zenon DEF SessionInStep
    <2> QED BY <2>4, <2>5, <2>6, <2>7, <2>10 DEF SessionInv
<1> QED BY <1>1, <1>2, PTL DEF SessionSpec

\* For every number of calls and every deadline, on every schedule of the parts of frames, of
\* writes that fail and bodies that do not decode: a call reads its own response until a call
\* has timed out, and driver metrics are reported only for a session in which every request
\* written had its own response read, unless a timed-out call left a response half read
\* (roundtrip, call and drain_metrics of the broker session).
THEOREM EgressInStep == SessionSpec => []SessionInStep
<1>1. SessionInv => SessionInStep
    BY Zenon DEF SessionInv
<1> QED BY <1>1, SessionInductive, PTL

\* For every number of calls and every deadline, a broker call, and a box-direct one up to
\* its response head, waits no longer than the deadline (remaining of call and call_local).
THEOREM EgressDeadline == SessionSpec => []CallsMeetDeadline
<1>1. SessionInv => CallsMeetDeadline
    BY EgressAssumption DEF SessionInv, SessionTypeOK, Timed, CallsMeetDeadline
<1> QED BY <1>1, SessionInductive, PTL

\* The types of the session, for every number of calls: no await starts with a budget beyond
\* the deadline it was computed from.
THEOREM EgressTypes == SessionSpec => []SessionTypeOK
<1>1. SessionInv => SessionTypeOK
    BY DEF SessionInv
<1> QED BY <1>1, SessionInductive, PTL
=============================================================================
