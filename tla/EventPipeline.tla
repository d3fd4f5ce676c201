---------------------------- MODULE EventPipeline ----------------------------
(***************************************************************************)
(* The event pipeline (runlet/src/events.rs): usage and audit events on a  *)
(* precious bounded channel, diagnostic logs on a channel of their own,    *)
(* one writer task per channel, and the flush at shutdown (main.rs).       *)
(*                                                                         *)
(* A bounded tokio channel hands its free slots to the senders that wait,  *)
(* in the order they began to wait, and a send that has been given its     *)
(* slot completes although its timer is due.  A writer prints to stdout in *)
(* its runtime thread: it may be slow, or panic because stdout is gone;    *)
(* then the receiver is dropped and the channel is closed.  Once the       *)
(* reader of stdout stalls for good, whoever prints stands still with its  *)
(* thread: the writers, and the main task, whose log lines go there too.   *)
(***************************************************************************)
EXTENDS Naturals, FiniteSets, Sequences

CONSTANTS
    Precious,      \* the usage and audit events the requests emit
    Logs,          \* the diagnostic entries they emit
    Bound,         \* capacity of the precious channel
    LogBound,      \* capacity of the log channel
    Window,        \* LogSink.block_timeout, in ticks
    FlushBudget,   \* EventPipeline::FLUSH_BUDGET, in ticks
    None           \* nothing

ASSUME PipelineAssumption ==
    /\ IsFiniteSet(Precious) /\ IsFiniteSet(Logs) /\ Precious \cap Logs = {}
    /\ Bound \in Nat /\ LogBound \in Nat /\ Window \in Nat /\ FlushBudget \in Nat
    /\ None \notin Precious \cup Logs

Events == Precious \cup Logs
Channels == {"precious", "log"}
ChannelOf(e) == IF e \in Precious THEN "precious" ELSE "log"

VARIABLES
    place,     \* event -> where it is
    waiting,   \* the precious sends that wait for a slot, oldest first
    age,       \* precious event -> ticks its send has waited
    buf,       \* channel -> what it holds
    hand,      \* channel -> the event its writer is printing
    writer,    \* channel -> its writer task: "running", "exited" or "panicked"
    dropped,   \* channel -> LogSink.dropped, log_dropped
    stalled,   \* stdout takes nothing any more
    phase,     \* "serving", "flush", "flush_log", "stopping" or "exited"
    flushing,  \* ticks the current flush has taken
    accepted,  \* channel -> the events it took, in order (history)
    written,   \* channel -> the lines on stdout, in order (history)
    overran,   \* the channels whose flush was given up (history)
    hadRoom    \* the events a slot was once free for (history)

vars == <<place, waiting, age, buf, hand, writer, dropped, stalled, phase, flushing,
          accepted, written, overran, hadRoom>>

\* mpsc::channel(bound.max(1))
Capacity(ch) ==
    LET bound == IF ch = "precious" THEN Bound ELSE LogBound
    IN IF bound = 0 THEN 1 ELSE bound

\* The waiting sends whose slot is free.
Granted(queue, held) ==
    {queue[i] : i \in {j \in 1..Len(queue) : j <= Capacity("precious") - held}}

\* EventPipeline::spawn
Init ==
    /\ place = [e \in Events |-> "new"]
    /\ waiting = <<>> /\ age = [e \in Precious |-> 0]
    /\ buf = [ch \in Channels |-> <<>>]
    /\ hand = [ch \in Channels |-> None]
    /\ writer = [ch \in Channels |-> "running"]
    /\ dropped = [ch \in Channels |-> 0]
    /\ stalled = FALSE /\ phase = "serving" /\ flushing = 0
    /\ accepted = [ch \in Channels |-> <<>>]
    /\ written = [ch \in Channels |-> <<>>]
    /\ overran = {} /\ hadRoom = {}

-----------------------------------------------------------------------------

Put(e, to) == place' = [place EXCEPT ![e] = to]

\* The event is given up, and counted.
DropAndCount(e) ==
    /\ Put(e, "dropped")
    /\ dropped' = [dropped EXCEPT ![ChannelOf(e)] = @ + 1]

\* The event is in the channel.
Accept(e) ==
    /\ Put(e, "buffered")
    /\ buf' = [buf EXCEPT ![ChannelOf(e)] = Append(@, e)]
    /\ accepted' = [accepted EXCEPT ![ChannelOf(e)] = Append(@, e)]

\* As in SequencesExt, of which nothing else is needed.
Range(s) == {s[i] : i \in DOMAIN s}
RemoveAt(s, i) == SubSeq(s, 1, i - 1) \o SubSeq(s, i + 1, Len(s))

\* The send of e waits no longer.
LeaveLine(e) == waiting' = RemoveAt(waiting, CHOOSE i \in DOMAIN waiting : waiting[i] = e)

NoteRoom == hadRoom' = hadRoom \cup Granted(waiting', Len(buf'["precious"]))

\* The reader of stdout stands still, for good.
StdoutStalls ==
    /\ ~stalled /\ phase # "exited"
    /\ stalled' = TRUE
    /\ UNCHANGED <<place, waiting, age, buf, hand, writer, dropped, phase, flushing,
                   accepted, written, overran, hadRoom>>

\* Mutant: record tries once, as record_log does.
RecordTry(e) ==
    /\ e \in Precious /\ place[e] = "new" /\ phase = "serving"
    /\ IF writer["precious"] = "running" /\ Len(buf["precious"]) < Capacity("precious")
         THEN Accept(e) /\ UNCHANGED dropped
         ELSE DropAndCount(e) /\ UNCHANGED <<buf, accepted>>
    /\ UNCHANGED <<waiting, age, hand, writer, stalled, phase, flushing, written, overran, hadRoom>>

\* record: send_timeout takes a slot that is free, or begins to wait; a closed
\* channel refuses at once.
Record(e) ==
    /\ e \in Precious /\ place[e] = "new" /\ phase = "serving"
    /\ \/ /\ writer["precious"] # "running"
          /\ DropAndCount(e)
          /\ UNCHANGED <<waiting, buf, accepted>>
       \/ /\ writer["precious"] = "running"
          /\ Len(waiting) + Len(buf["precious"]) < Capacity("precious")
          /\ Accept(e)
          /\ UNCHANGED <<waiting, dropped>>
       \/ /\ writer["precious"] = "running"
          /\ Len(waiting) + Len(buf["precious"]) >= Capacity("precious")
          /\ Put(e, "waiting")
          /\ waiting' = Append(waiting, e)
          /\ UNCHANGED <<dropped, buf, accepted>>
    /\ UNCHANGED <<age, hand, writer, stalled, phase, flushing, written, overran>>
    /\ NoteRoom

\* send_timeout: the send has its slot.
SendCompletes(e) ==
    /\ writer["precious"] = "running"
    /\ e \in Granted(waiting, Len(buf["precious"]))
    /\ LeaveLine(e)
    /\ Accept(e)
    /\ UNCHANGED <<age, hand, writer, dropped, stalled, phase, flushing, written, overran>>
    /\ NoteRoom

\* Mutant: a closed channel does not end the wait.
SendTimesOutOpen(e) ==
    /\ place[e] = "waiting"
    /\ age[e] = Window /\ e \notin Granted(waiting, Len(buf["precious"]))
    /\ LeaveLine(e)
    /\ DropAndCount(e)
    /\ UNCHANGED <<age, buf, hand, writer, stalled, phase, flushing, accepted, written, overran>>
    /\ NoteRoom

\* send_timeout: the channel is still full when the window ends, or closed.
SendTimesOut(e) ==
    /\ place[e] = "waiting"
    /\ \/ writer["precious"] # "running"
       \/ age[e] = Window /\ e \notin Granted(waiting, Len(buf["precious"]))
    /\ LeaveLine(e)
    /\ DropAndCount(e)
    /\ UNCHANGED <<age, buf, hand, writer, stalled, phase, flushing, accepted, written, overran>>
    /\ NoteRoom

\* The client leaves: its handler, and the send it awaits, are dropped.
Cancelled(e) ==
    /\ place[e] = "waiting"
    /\ Put(e, "cancelled")
    /\ LeaveLine(e)
    /\ UNCHANGED <<age, buf, hand, writer, dropped, stalled, phase, flushing, accepted, written, overran>>
    /\ NoteRoom

\* Mutant: diagnostics go to the precious channel.
RecordLogShared(e) ==
    /\ e \in Logs /\ place[e] = "new" /\ phase = "serving"
    /\ IF writer["precious"] = "running" /\ Len(buf["precious"]) < Capacity("precious")
         THEN /\ Put(e, "buffered")
              /\ buf' = [buf EXCEPT !["precious"] = Append(@, e)]
              /\ UNCHANGED <<accepted, dropped>>
         ELSE DropAndCount(e) /\ UNCHANGED <<buf, accepted>>
    /\ UNCHANGED <<waiting, age, hand, writer, stalled, phase, flushing, written, overran, hadRoom>>

\* record_log: try_send
RecordLog(e) ==
    /\ e \in Logs /\ place[e] = "new" /\ phase = "serving"
    /\ IF writer["log"] = "running" /\ Len(buf["log"]) < Capacity("log")
         THEN Accept(e) /\ UNCHANGED dropped
         ELSE DropAndCount(e) /\ UNCHANGED <<buf, accepted>>
    /\ UNCHANGED <<waiting, age, hand, writer, stalled, phase, flushing, written, overran, hadRoom>>

-----------------------------------------------------------------------------

Alive(ch) == writer[ch] = "running" /\ phase # "exited"

\* writer_loop: rx.recv().await
Receive(ch) ==
    /\ Alive(ch) /\ hand[ch] = None /\ buf[ch] # <<>>
    /\ hand' = [hand EXCEPT ![ch] = Head(buf[ch])]
    /\ buf' = [buf EXCEPT ![ch] = Tail(@)]
    /\ Put(Head(buf[ch]), "writing")
    /\ UNCHANGED <<waiting, age, writer, dropped, stalled, phase, flushing, accepted, written, overran>>
    /\ NoteRoom

\* writer_loop: println!
Write(ch) ==
    /\ Alive(ch) /\ hand[ch] # None /\ ~stalled
    /\ written' = [written EXCEPT ![ch] = Append(@, hand[ch])]
    /\ Put(hand[ch], "written")
    /\ hand' = [hand EXCEPT ![ch] = None]
    /\ UNCHANGED <<waiting, age, buf, writer, dropped, stalled, phase, flushing, accepted,
                   overran, hadRoom>>

\* println! panics: the task ends, and what its channel holds goes with it.
WriterPanics(ch) ==
    /\ Alive(ch) /\ hand[ch] # None /\ ~stalled
    /\ writer' = [writer EXCEPT ![ch] = "panicked"]
    /\ place' = [e \in Events |-> IF e = hand[ch] \/ e \in Range(buf[ch])
                                    THEN "lost" ELSE place[e]]
    /\ hand' = [hand EXCEPT ![ch] = None]
    /\ buf' = [buf EXCEPT ![ch] = <<>>]
    /\ UNCHANGED <<waiting, age, dropped, stalled, phase, flushing, accepted, written, overran, hadRoom>>

\* writer_loop: recv returns None: no sender, and nothing left.
WriterExits(ch) ==
    /\ Alive(ch) /\ phase # "serving" /\ hand[ch] = None /\ buf[ch] = <<>>
    /\ writer' = [writer EXCEPT ![ch] = "exited"]
    /\ UNCHANGED <<place, waiting, age, buf, hand, dropped, stalled, phase, flushing, accepted,
                   written, overran, hadRoom>>

\* serve has returned: no request is left, and the sink goes with the router.
CloseSink ==
    /\ phase = "serving" /\ waiting = <<>>
    /\ phase' = "flush" /\ flushing' = 0
    /\ UNCHANGED <<place, waiting, age, buf, hand, writer, dropped, stalled, accepted,
                   written, overran, hadRoom>>

FlushedChannel == IF phase = "flush" THEN "precious" ELSE "log"

\* shutdown: each writer in turn is joined, for at most the budget; what went wrong
\* is logged.
FlushEnds ==
    /\ phase \in {"flush", "flush_log"}
    /\ \/ writer[FlushedChannel] = "exited" /\ UNCHANGED overran
       \/ writer[FlushedChannel] = "panicked" /\ ~stalled /\ UNCHANGED overran
       \/ /\ writer[FlushedChannel] = "running" /\ flushing = FlushBudget /\ ~stalled
          /\ overran' = overran \cup {FlushedChannel}
    /\ phase' = IF phase = "flush" THEN "flush_log" ELSE "stopping"
    /\ flushing' = 0
    /\ UNCHANGED <<place, waiting, age, buf, hand, writer, dropped, stalled, accepted,
                   written, hadRoom>>

\* main logs its last line and returns; the runtime waits for the threads that print,
\* and drops the tasks.
Exit ==
    /\ phase = "stopping" /\ ~stalled
    /\ \A ch \in Channels : hand[ch] = None
    /\ phase' = "exited"
    /\ UNCHANGED <<place, waiting, age, buf, hand, writer, dropped, stalled, flushing,
                   accepted, written, overran, hadRoom>>

\* A tick; timers that are due are served first.
Tick ==
    /\ phase # "exited"
    /\ \A e \in Range(waiting) : age[e] < Window
    /\ phase \in {"flush", "flush_log"} => flushing < FlushBudget
    /\ age' = [e \in Precious |-> IF place[e] = "waiting" THEN age[e] + 1 ELSE age[e]]
    /\ flushing' = IF phase \in {"flush", "flush_log"} THEN flushing + 1 ELSE flushing
    /\ UNCHANGED <<place, waiting, buf, hand, writer, dropped, stalled, phase, accepted, written,
                   overran, hadRoom>>

Next ==
    \/ \E e \in Precious : Record(e) \/ SendCompletes(e) \/ SendTimesOut(e) \/ Cancelled(e)
    \/ \E e \in Logs : RecordLog(e)
    \/ \E ch \in Channels : Receive(ch) \/ Write(ch) \/ WriterPanics(ch) \/ WriterExits(ch)
    \/ CloseSink \/ FlushEnds \/ Exit \/ Tick \/ StdoutStalls

Spec == Init /\ [][Next]_vars

\* As long as stdout takes lines, however slowly, the threads are not held up: sends,
\* timers, writers and the main task run, and the server is told to stop at last.  Once
\* it is stalled nothing is assumed: a writer holds its thread, and a send that it has
\* just woken may be queued on that thread.
FairSpec ==
    /\ Spec
    /\ \A e \in Precious : WF_vars(~stalled /\ (SendCompletes(e) \/ SendTimesOut(e)))
    /\ \A ch \in Channels : WF_vars(Write(ch) \/ WriterPanics(ch))
    /\ WF_vars(~stalled /\ Tick) /\ WF_vars(~stalled /\ CloseSink)
    /\ WF_vars(~stalled /\ FlushEnds) /\ WF_vars(Exit)

-----------------------------------------------------------------------------

\* Types; and a channel never holds more than its capacity.
TypeOK ==
    /\ place \in [Events -> {"new", "waiting", "buffered", "writing", "written", "dropped",
                             "cancelled", "lost"}]
    /\ \A e \in Precious : place[e] = "waiting" <=> e \in Range(waiting)
    /\ age \in [Precious -> 0..Window]
    /\ \A ch \in Channels : Len(buf[ch]) <= Capacity(ch) /\ hand[ch] \in Events \cup {None}
    /\ writer \in [Channels -> {"running", "exited", "panicked"}]
    /\ phase \in {"serving", "flush", "flush_log", "stopping", "exited"} /\ stalled \in BOOLEAN
    /\ flushing \in 0..FlushBudget

\* events.rs:10-13: an event on the precious channel is given up only after the
\* whole window, and only if the channel had no room for it at any moment of
\* it, whatever other requests, the log channel and the writers do; or because
\* the writer is gone.
DropsOnlyWhenSaturated ==
    \A e \in Precious :
        place[e] = "dropped" => writer["precious"] = "panicked"
                                \/ (age[e] = Window /\ e \notin hadRoom)

\* While its writer lives, a channel neither loses, repeats nor reorders what
\* it took: the lines written, the one in hand and the buffer are what was sent.
AcceptedIsWritten ==
    \A ch \in Channels :
        writer[ch] # "panicked" =>
            accepted[ch] = written[ch] \o (IF hand[ch] = None THEN <<>> ELSE <<hand[ch]>>)
                                       \o buf[ch]

\* openspec tenant-metering, "Graceful shutdown flushes the precious channel":
\* once its flush is over, every precious event that was accepted is on
\* stdout, unless the writer overran the budget or panicked.
FlushLosesNothing ==
    phase \in {"flush_log", "stopping", "exited"} /\ "precious" \notin overran
        /\ writer["precious"] # "panicked" => written["precious"] = accepted["precious"]

\* What a channel took is written, in order and once, up to what is left in it; and nothing
\* is left in the precious one when its flush is over (record, writer loop, flush).
AcceptedReachesSink == AcceptedIsWritten /\ FlushLosesNothing

\* Neither a request nor the exit of the process waits for a writer for ever, slow or
\* panicked, whatever the channels still hold; unless stdout is stalled (record, writer
\* loop, shutdown, main).
OnlyStdoutHoldsUp ==
    /\ \A e \in Precious : place[e] = "waiting" ~> place[e] # "waiting" \/ stalled
    /\ phase = "flush" ~> phase = "exited" \/ stalled

-----------------------------------------------------------------------------
(* Claims of comments and specifications that the code does not meet; the   *)
(* README describes the counterexamples                                     *)

\* openspec tenant-metering/spec.md:68-69, "Every dropped usage/audit event
\* SHALL increment a dropped-events counter": no precious event that a request
\* began to record vanishes without being counted.
LossesAreCounted == \A e \in Precious : place[e] \notin {"cancelled", "lost"}

\* events.rs:307, "a stuck writer can never hang process exit", and events.rs:328,
\* "can never hang on a stuck stdout writer".
ExitReached == phase = "flush" ~> phase = "exited"
=============================================================================
