---------------------------- MODULE EventProofs ----------------------------
(***************************************************************************)
(* The event pipeline, for any number of events, any capacities and any    *)
(* window: what is dropped, and what reaches the sink.                     *)
(***************************************************************************)
EXTENDS EventPipeline, TLAPS

Places == {"new", "waiting", "buffered", "writing", "written", "dropped", "cancelled", "lost"}

Typed ==
    /\ place \in [Events -> Places] /\ waiting \in Seq(Precious)
    /\ age \in [Precious -> Nat]
    /\ buf \in [Channels -> Seq(Events)] /\ hand \in [Channels -> Events \cup {None}]
    /\ writer \in [Channels -> {"running", "exited", "panicked"}]
    /\ phase \in {"serving", "flush", "flush_log", "stopping", "exited"}
    /\ DOMAIN dropped = Channels
    /\ accepted \in [Channels -> Seq(Events)] /\ written \in [Channels -> Seq(Events)]

\* The sends that wait are in the line, once, and not in a channel; there are none once
\* the sink is closed.
Line ==
    /\ \A i, j \in 1..Len(waiting) : waiting[i] = waiting[j] => i = j
    /\ \A i \in 1..Len(waiting) : place[waiting[i]] = "waiting"
    /\ \A e \in Precious : place[e] = "waiting" => \E i \in 1..Len(waiting) : waiting[i] = e
    /\ waiting # <<>> => phase = "serving"

\* What a channel holds was recorded before.
Held ==
    \A ch \in Channels :
        /\ \A i \in 1..Len(buf[ch]) : place[buf[ch][i]] \notin {"new", "waiting"}
        /\ hand[ch] # None => place[hand[ch]] \notin {"new", "waiting"}

\* A writer exits at the end only, and with nothing left to write; the flush is over when
\* it has, or when it was given up.
Writers ==
    /\ \A ch \in Channels :
          writer[ch] = "exited" => phase # "serving" /\ hand[ch] = None /\ buf[ch] = <<>>
    /\ phase \in {"flush_log", "stopping", "exited"} /\ "precious" \notin overran =>
          writer["precious"] # "running"

\* A send that was given a slot keeps it.
Slots ==
    /\ \A e \in hadRoom : e \in Precious /\ place[e] # "new"
    /\ writer["precious"] = "running" =>
          \A i \in 1..Len(waiting) :
              waiting[i] \in hadRoom => i + Len(buf["precious"]) <= Capacity("precious")

LineInv == Typed /\ Line /\ Held /\ Writers /\ Slots /\ DropsOnlyWhenSaturated

-----------------------------------------------------------------------------

LEMMA SameSeq ==
    ASSUME NEW S, NEW s \in Seq(S), NEW t \in Seq(S),
           Len(s) = Len(t), \A i \in 1..Len(s) : s[i] = t[i]
    PROVE  s = t
    OBVIOUS

LEMMA Joined ==
    ASSUME NEW S, NEW s \in Seq(S), NEW t \in Seq(S)
    PROVE  /\ s \o t \in Seq(S) /\ Len(s \o t) = Len(s) + Len(t)
           /\ \A i \in 1..(Len(s) + Len(t)) :
                 (s \o t)[i] = IF i <= Len(s) THEN s[i] ELSE t[i - Len(s)]
    OBVIOUS

LEMMA JoinedEmpty == ASSUME NEW S, NEW s \in Seq(S) PROVE s \o <<>> = s
    OBVIOUS

LEMMA AppendJoins ==
    ASSUME NEW S, NEW s \in Seq(S), NEW e \in S
    PROVE  <<e>> \in Seq(S) /\ Append(s, e) \in Seq(S) /\ Append(s, e) = s \o <<e>>
<1>1. <<e>> \in Seq(S) /\ Append(s, e) \in Seq(S) /\ s \o <<e>> \in Seq(S)
    OBVIOUS
<1>2. Len(Append(s, e)) = Len(s \o <<e>>)
    OBVIOUS
<1>3. \A i \in 1..Len(Append(s, e)) : Append(s, e)[i] = (s \o <<e>>)[i]
    OBVIOUS
<1> QED BY <1>1, <1>2, <1>3, SameSeq

LEMMA JoinedThrice ==
    ASSUME NEW S, NEW s \in Seq(S), NEW t \in Seq(S), NEW u \in Seq(S)
    PROVE  (s \o t) \o u = s \o (t \o u)
<1>1. /\ (s \o t) \o u \in Seq(S) /\ s \o (t \o u) \in Seq(S)
      /\ Len((s \o t) \o u) = Len(s \o (t \o u))
    OBVIOUS
<1>2. \A i \in 1..Len((s \o t) \o u) : ((s \o t) \o u)[i] = (s \o (t \o u))[i]
    OBVIOUS
<1> QED BY <1>1, <1>2, SameSeq, SMTT(30)

\* A sequence from which the one occurrence of e is taken out.
LEMMA TakenOut ==
    ASSUME NEW S, NEW s \in Seq(S), NEW k \in 1..Len(s)
    PROVE  /\ RemoveAt(s, k) \in Seq(S) /\ Len(RemoveAt(s, k)) = Len(s) - 1
           /\ \A i \in 1..(Len(s) - 1) :
                 RemoveAt(s, k)[i] = IF i < k THEN s[i] ELSE s[i + 1]
<1> DEFINE a == SubSeq(s, 1, k - 1)
           b == SubSeq(s, k + 1, Len(s))
<1>1. a \in Seq(S) /\ Len(a) = k - 1 /\ \A i \in 1..(k - 1) : a[i] = s[i]
    OBVIOUS
<1>2. b \in Seq(S) /\ Len(b) = Len(s) - k /\ \A i \in 1..(Len(s) - k) : b[i] = s[k + i]
    OBVIOUS
<1>3. RemoveAt(s, k) = a \o b
    BY DEF RemoveAt
<1> HIDE DEF a, b
<1>4. /\ a \o b \in Seq(S) /\ Len(a \o b) = Len(s) - 1
      /\ \A i \in 1..(Len(s) - 1) : (a \o b)[i] = IF i <= k - 1 THEN a[i] ELSE b[i - (k - 1)]
    <2>1. /\ a \o b \in Seq(S) /\ Len(a \o b) = Len(a) + Len(b)
          /\ \A i \in 1..(Len(a) + Len(b)) :
                (a \o b)[i] = IF i <= Len(a) THEN a[i] ELSE b[i - Len(a)]
        BY <1>1, <1>2, Joined, Zenon
    <2>2. Len(s) \in Nat /\ (k - 1) + (Len(s) - k) = Len(s) - 1
        OBVIOUS
    <2> QED BY <1>1, <1>2, <2>1, <2>2
<1>5. ASSUME NEW i \in 1..(Len(s) - 1)
      PROVE  (a \o b)[i] = IF i < k THEN s[i] ELSE s[i + 1]
    <2>1. CASE i < k
        BY <1>1, <1>4, <2>1
    <2>2. CASE ~(i < k)
        <3>1. i - (k - 1) \in 1..(Len(s) - k) /\ k + (i - (k - 1)) = i + 1
            BY <2>2
        <3>2. (a \o b)[i] = b[i - (k - 1)]
            BY <1>4, <2>2
        <3> QED BY <1>2, <2>2, <3>1, <3>2
    <2> QED BY <2>1, <2>2, Zenon
<1> QED BY <1>3, <1>4, <1>5

\* Out of the line: those before keep their place, those behind move up by one.
LEMMA LineShrinks ==
    ASSUME Typed, Line, NEW e \in Precious, place[e] = "waiting", LeaveLine(e)
    PROVE  \E k \in 1..Len(waiting) :
              /\ waiting[k] = e
              /\ waiting' \in Seq(Precious) /\ Len(waiting') = Len(waiting) - 1
              /\ \A i \in 1..Len(waiting') :
                    waiting'[i] = IF i < k THEN waiting[i] ELSE waiting[i + 1]
<1> DEFINE k == CHOOSE i \in DOMAIN waiting : waiting[i] = e
<1>1. waiting \in Seq(Precious) /\ DOMAIN waiting = 1..Len(waiting)
    BY DEF Typed
<1>2. \E i \in DOMAIN waiting : waiting[i] = e
    BY <1>1 DEF Line
<1>3. k \in 1..Len(waiting) /\ waiting[k] = e
    BY <1>1, <1>2
<1>4. waiting' = RemoveAt(waiting, k)
    BY DEF LeaveLine
<1> HIDE DEF k
<1>5. /\ waiting' \in Seq(Precious) /\ Len(waiting') = Len(waiting) - 1
      /\ \A i \in 1..(Len(waiting) - 1) :
            waiting'[i] = IF i < k THEN waiting[i] ELSE waiting[i + 1]
    BY <1>1, <1>3, <1>4, TakenOut, Zenon
<1> QED BY <1>3, <1>5

\* The same line, with the index in the old line of each who is still in it.
LEMMA LineMoves ==
    ASSUME Typed, Line, NEW e \in Precious, place[e] = "waiting", LeaveLine(e)
    PROVE  /\ waiting' \in Seq(Precious) /\ Len(waiting') < Len(waiting)
           /\ \A i \in 1..Len(waiting') : waiting'[i] # e
           /\ \A i, j \in 1..Len(waiting') : waiting'[i] = waiting'[j] => i = j
           /\ \A i \in 1..Len(waiting') : \E j \in 1..Len(waiting) :
                 waiting'[i] = waiting[j] /\ i <= j
           /\ \A j \in 1..Len(waiting) : waiting[j] # e =>
                 \E i \in 1..Len(waiting') : waiting'[i] = waiting[j]
           /\ waiting # <<>>
<1>0. Len(waiting) \in Nat /\ waiting \in Seq(Precious)
    BY DEF Typed
<1>1. PICK k \in 1..Len(waiting) :
         /\ waiting[k] = e
         /\ waiting' \in Seq(Precious) /\ Len(waiting') = Len(waiting) - 1
         /\ \A i \in 1..Len(waiting') :
               waiting'[i] = IF i < k THEN waiting[i] ELSE waiting[i + 1]
    BY LineShrinks
<1>2. \A i, j \in 1..Len(waiting) : waiting[i] = waiting[j] => i = j
    BY DEF Line
<1>3. \A i \in 1..Len(waiting') : waiting'[i] # e
    BY <1>0, <1>1, <1>2, SMTT(30)
<1>4. \A i, j \in 1..Len(waiting') : waiting'[i] = waiting'[j] => i = j
    BY <1>0, <1>1, <1>2, SMTT(30)
<1>5. ASSUME NEW i \in 1..Len(waiting')
      PROVE  \E j \in 1..Len(waiting) : waiting'[i] = waiting[j] /\ i <= j
    <2>1. CASE i < k
        BY <1>0, <1>1, <2>1
    <2>2. CASE ~(i < k)
        <3>1. i + 1 \in 1..Len(waiting) /\ waiting'[i] = waiting[i + 1] /\ i <= i + 1
            BY <1>0, <1>1, <2>2
        <3> QED BY <3>1
    <2> QED BY <2>1, <2>2
<1>6. ASSUME NEW j \in 1..Len(waiting), waiting[j] # e
      PROVE  \E i \in 1..Len(waiting') : waiting'[i] = waiting[j]
    <2>1. CASE j < k
        BY <1>0, <1>1, <2>1
    <2>2. CASE j > k
        <3>1. /\ j - 1 \in 1..Len(waiting') /\ ~(j - 1 < k) /\ (j - 1) + 1 = j
            BY <1>0, <1>1, <2>2
        <3> QED BY <1>1, <3>1, Zenon
    <2>3. j # k
        BY <1>1, <1>6
    <2> QED BY <1>0, <2>1, <2>2, <2>3
<1> QED BY <1>0, <1>1, <1>3, <1>4, <1>5, <1>6

LEMMA CapacityNat == \A ch \in Channels : Capacity(ch) \in Nat /\ Capacity(ch) > 0
BY PipelineAssumption DEF Capacity, Channels

LEMMA Lengths ==
    ASSUME Typed
    PROVE  /\ Len(waiting) \in Nat
           /\ Len(buf["precious"]) \in Nat /\ Capacity("precious") \in Nat
<1>1. waiting \in Seq(Precious) /\ buf["precious"] \in Seq(Events)
    BY DEF Typed, Channels
<1> QED BY <1>1, CapacityNat DEF Channels

\* Every variable keeps its type.
LEMMA TypedStep == Typed /\ Line /\ [Next]_vars => Typed'
<1> SUFFICES ASSUME Typed, Line, [Next]_vars PROVE Typed'
    OBVIOUS
<1> USE DEF Typed
<1>0. Precious \subseteq Events /\ Logs \subseteq Events /\ None \notin Events
    BY PipelineAssumption DEF Events
<1>a. ASSUME NEW e \in Events PROVE ChannelOf(e) \in Channels
    BY DEF ChannelOf, Channels
<1>b. ASSUME NEW e \in Events, Accept(e)
      PROVE  /\ place' \in [Events -> Places] /\ buf' \in [Channels -> Seq(Events)]
             /\ accepted' \in [Channels -> Seq(Events)]
    <2>1. ChannelOf(e) \in Channels
        BY <1>a
    <2>2. place' \in [Events -> Places]
        BY <1>b DEF Accept, Put, Places
    <2>3. Append(buf[ChannelOf(e)], e) \in Seq(Events)
          /\ Append(accepted[ChannelOf(e)], e) \in Seq(Events)
        BY <2>1
    <2> QED BY <1>b, <2>1, <2>2, <2>3 DEF Accept
<1>c. ASSUME NEW e \in Events, DropAndCount(e)
      PROVE  place' \in [Events -> Places] /\ DOMAIN dropped' = Channels
    BY <1>c DEF DropAndCount, Put, Places
<1>1. ASSUME NEW e \in Precious, Record(e) PROVE Typed'
    <2>1. UNCHANGED <<age, hand, writer, phase, written>>
        BY <1>1 DEF Record
    <2>2. CASE DropAndCount(e) /\ UNCHANGED <<waiting, buf, accepted>>
        BY <1>0, <1>c, <2>1, <2>2
    <2>3. CASE Accept(e) /\ UNCHANGED <<waiting, dropped>>
        BY <1>0, <1>b, <2>1, <2>3
    <2>4. CASE Put(e, "waiting") /\ waiting' = Append(waiting, e) /\ UNCHANGED <<dropped, buf, accepted>>
        <3>1. place' \in [Events -> Places]
            BY <1>0, <2>4 DEF Put, Places
        <3>2. waiting' \in Seq(Precious)
            BY <2>4
        <3> QED BY <2>1, <2>4, <3>1, <3>2
    <2> QED BY <1>1, <2>2, <2>3, <2>4, Zenon DEF Record
<1>2. ASSUME NEW e \in Precious, SendCompletes(e) PROVE Typed'
    <2>1. e \in Granted(waiting, Len(buf["precious"])) /\ LeaveLine(e) /\ Accept(e)
          /\ UNCHANGED <<age, hand, writer, dropped, phase, written>>
        BY <1>2 DEF SendCompletes
    <2>2. place[e] = "waiting"
        BY <2>1 DEF Granted, Line
    <2>3. waiting' \in Seq(Precious)
        BY <2>1, <2>2, LineMoves
    <2> QED BY <1>0, <1>b, <2>1, <2>3
<1>3. ASSUME NEW e \in Precious, SendTimesOut(e) PROVE Typed'
    <2>1. place[e] = "waiting" /\ LeaveLine(e) /\ DropAndCount(e)
          /\ UNCHANGED <<age, buf, hand, writer, phase, accepted, written>>
        BY <1>3 DEF SendTimesOut
    <2>2. waiting' \in Seq(Precious)
        BY <2>1, LineMoves
    <2> QED BY <1>0, <1>c, <2>1, <2>2
<1>4. ASSUME NEW e \in Precious, Cancelled(e) PROVE Typed'
    <2>1. place[e] = "waiting" /\ LeaveLine(e) /\ Put(e, "cancelled")
          /\ UNCHANGED <<age, buf, hand, writer, dropped, phase, accepted, written>>
        BY <1>4 DEF Cancelled
    <2>2. waiting' \in Seq(Precious)
        BY <2>1, LineMoves
    <2>3. place' \in [Events -> Places]
        BY <1>0, <2>1 DEF Put, Places
    <2> QED BY <2>1, <2>2, <2>3
<1>5. ASSUME NEW e \in Logs, RecordLog(e) PROVE Typed'
    <2>1. UNCHANGED <<waiting, age, hand, writer, phase, written>>
        BY <1>5 DEF RecordLog
    <2>2. CASE Accept(e) /\ UNCHANGED dropped
        BY <1>0, <1>b, <2>1, <2>2
    <2>3. CASE DropAndCount(e) /\ UNCHANGED <<buf, accepted>>
        BY <1>0, <1>c, <2>1, <2>3
    <2> QED BY <1>5, <2>2, <2>3 DEF RecordLog
<1>6. ASSUME NEW ch \in Channels, Receive(ch) PROVE Typed'
    <2>1. /\ buf[ch] # <<>> /\ hand' = [hand EXCEPT ![ch] = Head(buf[ch])]
          /\ buf' = [buf EXCEPT ![ch] = Tail(buf[ch])] /\ Put(Head(buf[ch]), "writing")
          /\ UNCHANGED <<waiting, age, writer, dropped, phase, accepted, written>>
        BY <1>6 DEF Receive
    <2>2. buf[ch] \in Seq(Events) /\ Head(buf[ch]) \in Events /\ Tail(buf[ch]) \in Seq(Events)
        BY <2>1
    <2>3. place' \in [Events -> Places]
        BY <2>1, <2>2 DEF Put, Places
    <2> QED BY <2>1, <2>2, <2>3
<1>7. ASSUME NEW ch \in Channels, Write(ch) PROVE Typed'
    <2>1. /\ hand[ch] \in Events /\ written' = [written EXCEPT ![ch] = Append(written[ch], hand[ch])]
          /\ Put(hand[ch], "written") /\ hand' = [hand EXCEPT ![ch] = None]
          /\ UNCHANGED <<waiting, age, buf, writer, dropped, phase, accepted>>
        BY <1>7 DEF Write
    <2>2. place' \in [Events -> Places]
        BY <2>1 DEF Put, Places
    <2>3. Append(written[ch], hand[ch]) \in Seq(Events)
        BY <2>1
    <2> QED BY <2>1, <2>2, <2>3
<1>8. ASSUME NEW ch \in Channels, WriterPanics(ch) PROVE Typed'
    <2>1. place' \in [Events -> Places]
        BY <1>8 DEF WriterPanics, Places
    <2>2. <<>> \in Seq(Events)
        OBVIOUS
    <2> QED BY <1>8, <2>1, <2>2 DEF WriterPanics
<1>9. ASSUME NEW ch \in Channels, WriterExits(ch) PROVE Typed'
    BY <1>9 DEF WriterExits
<1>10. ASSUME CloseSink \/ FlushEnds \/ Exit \/ StdoutStalls PROVE Typed'
    BY <1>10 DEF CloseSink, FlushEnds, Exit, StdoutStalls
<1>11. ASSUME Tick PROVE Typed'
    BY <1>11 DEF Tick
<1>12. CASE UNCHANGED vars
    BY <1>12 DEF vars
<1> QED BY <1>1, <1>2, <1>3, <1>4, <1>5, <1>6, <1>7, <1>8, <1>9, <1>10, <1>11, <1>12, SMTT(30)
           DEF Next

-----------------------------------------------------------------------------
(* What is dropped                                                         *)

\* A slot is given to a send in the line.
LEMMA GrantedInLine ==
    ASSUME NEW queue, NEW held, NEW e \in Granted(queue, held)
    PROVE  \E i \in 1..Len(queue) : queue[i] = e /\ i <= Capacity("precious") - held
BY DEF Granted

\* NoteRoom notes those who keep their slots.
LEMMA SlotsKept ==
    ASSUME Typed', Line', NoteRoom \/ hadRoom' = hadRoom,
           \A e \in hadRoom : e \in Precious /\ place'[e] # "new",
           writer'["precious"] = "running" =>
               \A i \in 1..Len(waiting') :
                   waiting'[i] \in hadRoom => i + Len(buf'["precious"]) <= Capacity("precious")
    PROVE  Slots'
<1>0. /\ waiting' \in Seq(Precious) /\ Len(buf'["precious"]) \in Nat
      /\ Capacity("precious") \in Nat /\ Len(waiting') \in Nat
    BY CapacityNat DEF Typed, Channels
<1>1. ASSUME NEW e \in hadRoom', e \notin hadRoom
      PROVE  \E i \in 1..Len(waiting') :
                waiting'[i] = e /\ i <= Capacity("precious") - Len(buf'["precious"])
    <2>1. e \in Granted(waiting', Len(buf'["precious"]))
        BY <1>1 DEF NoteRoom
    <2> QED BY <2>1, GrantedInLine
<1>2. ASSUME NEW e \in hadRoom' PROVE e \in Precious /\ place'[e] # "new"
    <2>1. CASE e \in hadRoom
        BY <2>1
    <2>2. CASE e \notin hadRoom
        BY <1>0, <1>1, <1>2, <2>2 DEF Line
    <2> QED BY <2>1, <2>2
<1>3. ASSUME writer'["precious"] = "running", NEW i \in 1..Len(waiting'),
             waiting'[i] \in hadRoom'
      PROVE  i + Len(buf'["precious"]) <= Capacity("precious")
    <2>1. CASE waiting'[i] \in hadRoom
        BY <1>3, <2>1
    <2>2. CASE waiting'[i] \notin hadRoom
        <3>1. PICK j \in 1..Len(waiting') :
                 /\ waiting'[j] = waiting'[i]
                 /\ j <= Capacity("precious") - Len(buf'["precious"])
            BY <1>1, <1>3, <2>2
        <3>2. j = i
            BY <3>1 DEF Line
        <3> QED BY <1>0, <3>1, <3>2
    <2> QED BY <2>1, <2>2
<1> QED BY <1>2, <1>3 DEF Slots

\* A step that gives no precious event up leaves those given up as they were.
LEMMA DropsKept ==
    ASSUME DropsOnlyWhenSaturated, Line', NoteRoom \/ hadRoom' = hadRoom,
           writer["precious"] = "panicked" => writer'["precious"] = "panicked",
           \A e \in Precious : place'[e] = "dropped" => place[e] = "dropped" /\ age'[e] = age[e]
    PROVE  DropsOnlyWhenSaturated'
<1> SUFFICES ASSUME NEW e \in Precious, place'[e] = "dropped"
             PROVE  writer'["precious"] = "panicked" \/ (age'[e] = Window /\ e \notin hadRoom')
    BY DEF DropsOnlyWhenSaturated
<1>1. writer["precious"] = "panicked" \/ (age[e] = Window /\ e \notin hadRoom)
    BY DEF DropsOnlyWhenSaturated
<1>2. \A i \in 1..Len(waiting') : waiting'[i] # e
    BY DEF Line
<1>3. e \notin Granted(waiting', Len(buf'["precious"]))
    BY <1>2, GrantedInLine
<1>4. e \notin hadRoom => e \notin hadRoom'
    BY <1>3 DEF NoteRoom
<1> QED BY <1>1, <1>4

\* What the new state keeps, apart from the types.
LineKept == Line' /\ Held' /\ Writers' /\ Slots' /\ DropsOnlyWhenSaturated'

\* record
LEMMA RecordKeeps ==
    ASSUME LineInv, Typed', NEW e \in Precious, Record(e) PROVE LineKept
<1> USE DEF LineInv
<1>0. /\ Typed /\ e \in Events /\ "precious" \in Channels /\ "log" \in Channels
      /\ ChannelOf(e) = "precious" /\ e # None
    BY PipelineAssumption DEF Events, Channels, ChannelOf
<1>1. /\ place[e] = "new" /\ phase = "serving" /\ NoteRoom
      /\ UNCHANGED <<age, hand, writer, phase, overran>>
    BY DEF Record
<1>2. /\ \A i \in 1..Len(waiting) : waiting[i] # e /\ waiting[i] \in Events
      /\ \A ch \in Channels : \A i \in 1..Len(buf[ch]) : buf[ch][i] # e /\ buf[ch][i] \in Events
      /\ e \notin hadRoom
    <2>1. ASSUME NEW i \in 1..Len(waiting) PROVE waiting[i] # e /\ waiting[i] \in Events
        <3>1. waiting \in Seq(Precious)
            BY <1>0 DEF Typed
        <3>2. waiting[i] \in Precious
            BY <3>1
        <3> QED BY <1>1, <3>2 DEF Line, Events
    <2>2. ASSUME NEW ch \in Channels, NEW i \in 1..Len(buf[ch])
          PROVE  buf[ch][i] # e /\ buf[ch][i] \in Events
        <3>1. buf[ch] \in Seq(Events)
            BY <1>0 DEF Typed
        <3> QED BY <1>1, <3>1 DEF Held
    <2> QED BY <1>1, <2>1, <2>2 DEF Slots
<1>3. CASE writer["precious"] # "running" /\ DropAndCount(e)
           /\ UNCHANGED <<waiting, buf, accepted>>
    <2>1. place'[e] = "dropped" /\ \A f \in Events : f # e => place'[f] = place[f]
        BY <1>0, <1>3 DEF DropAndCount, Put, Typed
    <2>2. Line'
        BY <1>0, <1>1, <1>2, <1>3, <2>1 DEF Line, Events
    <2>3. Held'
        <3>1. ASSUME NEW ch \in Channels, NEW i \in 1..Len(buf'[ch])
              PROVE  place'[buf'[ch][i]] \notin {"new", "waiting"}
            BY <1>2, <1>3, <2>1 DEF Held
        <3>2. ASSUME NEW ch \in Channels, hand'[ch] # None
              PROVE  place'[hand'[ch]] \notin {"new", "waiting"}
            BY <1>0, <1>1, <2>1, <3>2, Zenon DEF Held, Typed
        <3> QED BY <3>1, <3>2 DEF Held
    <2>4. Writers'
        BY <1>1, <1>3 DEF Writers
    <2>5. writer["precious"] = "panicked"
        BY <1>0, <1>1, <1>3 DEF Typed, Writers
    <2>6. \A f \in hadRoom : f \in Precious /\ place'[f] # "new"
        BY <1>0, <2>1 DEF Slots, Events
    <2>7. Slots'
        BY <1>1, <2>2, <2>5, <2>6, SlotsKept
    <2>8. DropsOnlyWhenSaturated'
        BY <1>1, <2>5 DEF DropsOnlyWhenSaturated
    <2> QED BY <2>2, <2>3, <2>4, <2>7, <2>8 DEF LineKept
<1>4. CASE /\ writer["precious"] = "running" /\ Accept(e) /\ UNCHANGED <<waiting, dropped>>
           /\ Len(waiting) + Len(buf["precious"]) < Capacity("precious")
    <2>1. place'[e] = "buffered" /\ \A f \in Events : f # e => place'[f] = place[f]
        BY <1>0, <1>4 DEF Accept, Put, Typed
    <2>2. Line'
        BY <1>0, <1>1, <1>2, <1>4, <2>1 DEF Line, Events
    <2>3. /\ buf'["precious"] = Append(buf["precious"], e) /\ buf'["log"] = buf["log"]
          /\ buf["precious"] \in Seq(Events)
        BY <1>0, <1>4 DEF Accept, Typed
    <2>4. /\ Len(buf'["precious"]) = Len(buf["precious"]) + 1
          /\ \A i \in 1..Len(buf'["precious"]) :
                buf'["precious"][i] = e \/ \E j \in 1..Len(buf["precious"]) :
                                              buf'["precious"][i] = buf["precious"][j]
        BY <2>3
    <2>5. Held'
        <3>1. ASSUME NEW i \in 1..Len(buf'["precious"])
              PROVE  place'[buf'["precious"][i]] \notin {"new", "waiting"}
            BY <1>0, <1>2, <2>1, <2>4 DEF Held
        <3>2. ASSUME NEW i \in 1..Len(buf'["log"])
              PROVE  place'[buf'["log"][i]] \notin {"new", "waiting"}
            BY <1>0, <1>2, <2>1, <2>3 DEF Held
        <3>3. ASSUME NEW ch \in Channels, hand'[ch] # None
              PROVE  place'[hand'[ch]] \notin {"new", "waiting"}
            BY <1>0, <1>1, <2>1, <3>3, Zenon DEF Held, Typed
        <3> QED BY <3>1, <3>2, <3>3 DEF Held, Channels
    <2>6. Writers'
        BY <1>0, <1>1, <1>4, <2>3 DEF Writers, Channels
    <2>7. \A f \in hadRoom : f \in Precious /\ place'[f] # "new"
        BY <1>0, <2>1 DEF Slots, Events
    <2>8. \A i \in 1..Len(waiting') :
             waiting'[i] \in hadRoom => i + Len(buf'["precious"]) <= Capacity("precious")
        <3>1. /\ waiting' = waiting
              /\ Len(waiting) + Len(buf["precious"]) < Capacity("precious")
            BY <1>4
        <3> QED BY <1>0, <2>4, <3>1, Lengths
    <2>9. Slots'
        BY <1>1, <2>2, <2>7, <2>8, SlotsKept
    <2>10. \A f \in Precious : place'[f] = "dropped" => place[f] = "dropped" /\ age'[f] = age[f]
        BY <1>0, <1>1, <2>1 DEF Events
    <2>11. DropsOnlyWhenSaturated'
        BY <1>1, <2>2, <2>10, DropsKept, Zenon
    <2> QED BY <2>2, <2>5, <2>6, <2>9, <2>11 DEF LineKept
<1>5. CASE /\ writer["precious"] = "running" /\ Put(e, "waiting") /\ waiting' = Append(waiting, e)
           /\ UNCHANGED <<dropped, buf, accepted>>
    <2>1. place'[e] = "waiting" /\ \A f \in Events : f # e => place'[f] = place[f]
        BY <1>0, <1>5 DEF Put, Typed
    <2>2. /\ Len(waiting') = Len(waiting) + 1 /\ waiting'[Len(waiting) + 1] = e
          /\ \A i \in 1..Len(waiting) : waiting'[i] = waiting[i]
          /\ Len(waiting) \in Nat /\ waiting' # <<>>
        BY <1>0, <1>5, SMTT(30) DEF Typed
    <2>3. Line'
        <3>1. \A i, j \in 1..Len(waiting') : waiting'[i] = waiting'[j] => i = j
            BY <1>2, <2>2 DEF Line
        <3>2. \A i \in 1..Len(waiting') : place'[waiting'[i]] = "waiting"
            BY <1>2, <2>1, <2>2 DEF Line
        <3>3. ASSUME NEW f \in Precious, place'[f] = "waiting"
              PROVE  \E i \in 1..Len(waiting') : waiting'[i] = f
            <4>1. CASE f = e
                BY <2>2, <4>1
            <4>2. CASE f # e
                <5>1. PICK i \in 1..Len(waiting) : waiting[i] = f
                    BY <2>1, <3>3, <4>2, Zenon DEF Line, Events
                <5> QED BY <2>2, <5>1
            <4> QED BY <4>1, <4>2
        <3> QED BY <1>1, <3>1, <3>2, <3>3 DEF Line
    <2>4. Held'
        BY <1>0, <1>1, <1>2, <1>5, <2>1, ZenonT(30) DEF Held, Typed
    <2>5. Writers'
        BY <1>1, <1>5, Zenon DEF Writers
    <2>6. \A f \in hadRoom : f \in Precious /\ place'[f] # "new"
        BY <1>0, <1>2, <2>1 DEF Slots, Events
    <2>7. \A i \in 1..Len(waiting') :
             waiting'[i] \in hadRoom => i + Len(buf'["precious"]) <= Capacity("precious")
        BY <1>2, <1>5, <2>2 DEF Slots
    <2>8. Slots'
        BY <1>1, <2>3, <2>6, <2>7, SlotsKept
    <2>9. \A f \in Precious : place'[f] = "dropped" => place[f] = "dropped" /\ age'[f] = age[f]
        BY <1>0, <1>1, <2>1 DEF Events
    <2>10. DropsOnlyWhenSaturated'
        BY <1>1, <2>3, <2>9, DropsKept
    <2> QED BY <2>3, <2>4, <2>5, <2>8, <2>10 DEF LineKept
<1> QED BY <1>3, <1>4, <1>5 DEF Record

\* A send leaves the line; nothing else moves.
LEMMA LineLeft ==
    ASSUME LineInv, NEW e \in Precious, place[e] = "waiting", LeaveLine(e), NEW to \in Places,
           to \notin {"new", "waiting"}, Put(e, to), UNCHANGED <<hand, writer, phase, overran>>
    PROVE  /\ Line'
           /\ place'[e] = to /\ \A f \in Events : f # e => place'[f] = place[f]
           /\ \A f \in hadRoom : f \in Precious /\ place'[f] # "new"
           /\ \A ch \in Channels : hand'[ch] # None => place'[hand'[ch]] \notin {"new", "waiting"}
           /\ buf' = buf => Held' /\ Writers'
           /\ phase = "serving"
<1> USE DEF LineInv
<1>0. Typed /\ e \in Events
    BY DEF Events
<1>1. place'[e] = to /\ \A f \in Events : f # e => place'[f] = place[f]
    BY <1>0 DEF Put, Typed
<1>2. /\ waiting' \in Seq(Precious) /\ Len(waiting') < Len(waiting)
      /\ \A i \in 1..Len(waiting') : waiting'[i] # e
      /\ \A i, j \in 1..Len(waiting') : waiting'[i] = waiting'[j] => i = j
      /\ \A i \in 1..Len(waiting') : \E j \in 1..Len(waiting) :
            waiting'[i] = waiting[j] /\ i <= j
      /\ \A j \in 1..Len(waiting) : waiting[j] # e =>
            \E i \in 1..Len(waiting') : waiting'[i] = waiting[j]
      /\ waiting # <<>>
    BY <1>0, LineMoves, Zenon
<1>3. phase = "serving"
    BY <1>2 DEF Line
<1>4. ASSUME NEW i \in 1..Len(waiting') PROVE place'[waiting'[i]] = "waiting"
    <2>1. waiting'[i] \in Precious
        BY <1>2
    <2>2. place[waiting'[i]] = "waiting"
        BY <1>2 DEF Line
    <2> QED BY <1>1, <1>2, <2>1, <2>2, Zenon DEF Events
<1>5. ASSUME NEW f \in Precious, place'[f] = "waiting"
      PROVE  \E i \in 1..Len(waiting') : waiting'[i] = f
    <2>1. f # e /\ place[f] = "waiting"
        BY <1>1, <1>5 DEF Events
    <2>2. PICK j \in 1..Len(waiting) : waiting[j] = f
        BY <2>1 DEF Line
    <2> QED BY <1>2, <2>1, <2>2, Zenon
<1>6. Line'
    BY <1>2, <1>3, <1>4, <1>5, Zenon DEF Line
<1>7. \A f \in hadRoom : f \in Precious /\ place'[f] # "new"
    BY <1>1, Zenon DEF Slots, Events
<1>8. \A ch \in Channels : hand'[ch] # None => place'[hand'[ch]] \notin {"new", "waiting"}
    BY <1>0, <1>1 DEF Held, Typed
<1>9. ASSUME buf' = buf PROVE Held' /\ Writers'
    <2>1. ASSUME NEW ch \in Channels, NEW i \in 1..Len(buf'[ch])
          PROVE  place'[buf'[ch][i]] \notin {"new", "waiting"}
        <3>1. buf[ch] \in Seq(Events)
            BY <1>0, Zenon DEF Typed
        <3>2. buf[ch][i] \in Events /\ place[buf[ch][i]] \notin {"new", "waiting"}
            BY <1>9, <3>1, SMTT(30) DEF Held
        <3> QED BY <1>1, <1>9, <3>2
    <2>2. Held'
        BY <1>8, <2>1 DEF Held
    <2>3. Writers'
        BY <1>9, Zenon DEF Writers
    <2> QED BY <2>2, <2>3
<1> QED BY <1>1, <1>3, <1>6, <1>7, <1>8, <1>9, Zenon

\* send_timeout gets its slot.
LEMMA SendCompletesKeeps ==
    ASSUME LineInv, Typed', NEW e \in Precious, SendCompletes(e) PROVE LineKept
<1> USE DEF LineInv
<1>0. /\ Typed /\ e \in Events /\ "precious" \in Channels /\ "log" \in Channels
      /\ ChannelOf(e) = "precious" /\ e # None
    BY PipelineAssumption DEF Events, Channels, ChannelOf
<1>1. /\ writer["precious"] = "running" /\ e \in Granted(waiting, Len(buf["precious"]))
      /\ LeaveLine(e) /\ Accept(e) /\ NoteRoom
      /\ UNCHANGED <<age, hand, writer, dropped, phase, overran>>
    BY DEF SendCompletes
<1>2. PICK g \in 1..Len(waiting) :
         waiting[g] = e /\ g <= Capacity("precious") - Len(buf["precious"])
    BY <1>1, GrantedInLine
<1>3. place[e] = "waiting" /\ Put(e, "buffered") /\ "buffered" \in Places
    BY <1>1, <1>2, Zenon DEF Line, Accept, Places
<1>4. /\ Line' /\ place'[e] = "buffered" /\ \A f \in Events : f # e => place'[f] = place[f]
      /\ \A f \in hadRoom : f \in Precious /\ place'[f] # "new"
      /\ \A ch \in Channels : hand'[ch] # None => place'[hand'[ch]] \notin {"new", "waiting"}
    BY <1>1, <1>3, LineLeft
<1>5. /\ buf'["precious"] = Append(buf["precious"], e) /\ buf'["log"] = buf["log"]
      /\ buf["precious"] \in Seq(Events) /\ buf["log"] \in Seq(Events)
    BY <1>0, <1>1 DEF Accept, Typed
<1>6. /\ Len(buf'["precious"]) = Len(buf["precious"]) + 1 /\ Len(buf["precious"]) \in Nat
      /\ \A i \in 1..Len(buf'["precious"]) :
            buf'["precious"][i] = e \/ \E j \in 1..Len(buf["precious"]) :
                                          buf'["precious"][i] = buf["precious"][j]
    BY <1>5
<1>7. Held'
    <2>1. ASSUME NEW ch \in Channels, NEW i \in 1..Len(buf[ch])
          PROVE  place'[buf[ch][i]] \notin {"new", "waiting"}
        <3>1. buf[ch] \in Seq(Events)
            BY <1>0, Zenon DEF Typed
        <3>2. buf[ch][i] \in Events /\ place[buf[ch][i]] \notin {"new", "waiting"}
            BY <3>1 DEF Held
        <3> QED BY <1>4, <3>2
    <2>2. ASSUME NEW i \in 1..Len(buf'["precious"])
          PROVE  place'[buf'["precious"][i]] \notin {"new", "waiting"}
        BY <1>0, <1>4, <1>6, <2>1, Zenon
    <2> QED BY <1>4, <1>5, <2>1, <2>2, Zenon DEF Held, Channels
<1>8. Writers'
    BY <1>0, <1>1, <1>5, Zenon DEF Writers, Channels
<1>9. ASSUME NEW i \in 1..Len(waiting'), waiting'[i] \in hadRoom
      PROVE  i + Len(buf'["precious"]) <= Capacity("precious")
    <2>1. PICK k \in 1..Len(waiting) :
             /\ waiting[k] = e
             /\ waiting' \in Seq(Precious) /\ Len(waiting') = Len(waiting) - 1
             /\ \A j \in 1..Len(waiting') :
                   waiting'[j] = IF j < k THEN waiting[j] ELSE waiting[j + 1]
        BY <1>1, <1>3, LineShrinks, Zenon
    <2>2. k = g
        BY <1>2, <2>1 DEF Line
    <2>3. Len(waiting) \in Nat /\ Capacity("precious") \in Nat
        BY <1>0, CapacityNat DEF Typed
    <2>4. CASE i < k
        BY <1>2, <1>6, <2>2, <2>3, <2>4
    <2>5. CASE ~(i < k)
        <3>1. i + 1 \in 1..Len(waiting) /\ waiting[i + 1] \in hadRoom
            BY <1>9, <2>1, <2>3, <2>5
        <3>2. (i + 1) + Len(buf["precious"]) <= Capacity("precious")
            BY <1>1, <3>1, Zenon DEF Slots
        <3>3. i \in Nat
            BY <2>1, <2>3
        <3>4. Len(buf'["precious"]) = Len(buf["precious"]) + 1 /\ Len(buf["precious"]) \in Nat
            BY <1>6
        <3>5. ASSUME NEW n \in Nat, NEW b \in Nat, NEW c \in Nat, (n + 1) + b <= c
              PROVE  n + (b + 1) <= c
            BY <3>5
        <3> QED BY <2>3, <3>2, <3>3, <3>4, <3>5, Zenon
    <2> QED BY <2>4, <2>5, SMTT(30)
<1>10. Slots'
    BY <1>1, <1>4, <1>9, SlotsKept, Zenon
<1>11. \A f \in Precious : place'[f] = "dropped" => place[f] = "dropped" /\ age'[f] = age[f]
    BY <1>1, <1>4, Zenon DEF Events
<1>12. DropsOnlyWhenSaturated'
    BY <1>1, <1>4, <1>11, DropsKept, Zenon
<1> QED BY <1>4, <1>7, <1>8, <1>10, <1>12 DEF LineKept

\* send_timeout ends without one, or its future is dropped.
LEMMA SendEndsKeeps ==
    ASSUME LineInv, Typed', NEW e \in Precious, SendTimesOut(e) \/ Cancelled(e) PROVE LineKept
<1> USE DEF LineInv
<1>0. Typed /\ e \in Events
    BY SMTT(30) DEF Events
<1>1. PICK to \in {"dropped", "cancelled"} :
         /\ place[e] = "waiting" /\ LeaveLine(e) /\ Put(e, to) /\ NoteRoom
         /\ to = "dropped" => \/ writer["precious"] # "running"
                              \/ /\ age[e] = Window
                                 /\ e \notin Granted(waiting, Len(buf["precious"]))
         /\ UNCHANGED <<age, buf, hand, writer, phase, overran>>
    BY DEF SendTimesOut, Cancelled, DropAndCount
<1>2. to \in Places /\ to \notin {"new", "waiting"}
    BY Zenon DEF Places
<1>3. /\ Line' /\ place'[e] = to /\ \A f \in Events : f # e => place'[f] = place[f]
      /\ \A f \in hadRoom : f \in Precious /\ place'[f] # "new"
      /\ Held' /\ Writers' /\ phase = "serving"
    BY <1>1, <1>2, LineLeft, Zenon
<1>4. writer["precious"] # "running" => writer["precious"] = "panicked"
    BY <1>0, <1>3, Zenon DEF Typed, Writers, Channels
<1>5. ASSUME writer["precious"] = "running", NEW i \in 1..Len(waiting'), waiting'[i] \in hadRoom
      PROVE  i + Len(buf'["precious"]) <= Capacity("precious")
    <2>1. PICK j \in 1..Len(waiting) : waiting'[i] = waiting[j] /\ i <= j
        BY <1>0, <1>1, LineMoves
    <2>2. j + Len(buf["precious"]) <= Capacity("precious")
        BY <1>5, <2>1 DEF Slots
    <2>3. /\ Len(waiting) \in Nat /\ Len(waiting') \in Nat
          /\ Len(buf["precious"]) \in Nat /\ Capacity("precious") \in Nat
        <3>1. waiting \in Seq(Precious) /\ waiting' \in Seq(Precious)
            BY <1>0 DEF Typed
        <3> QED BY <1>0, <3>1, Lengths, SMTT(30)
    <2> QED BY <1>1, <2>1, <2>2, <2>3, SMTT(30)
<1>6. Slots'
    BY <1>1, <1>3, <1>5, SlotsKept, Zenon
<1>7. e \notin hadRoom' \/ writer["precious"] # "running" \/ to = "cancelled"
    <2> SUFFICES ASSUME writer["precious"] = "running", to = "dropped" PROVE e \notin hadRoom'
        BY <1>1
    <2>1. PICK j \in 1..Len(waiting) : waiting[j] = e
        BY <1>1 DEF Line
    <2>2. ~(j <= Capacity("precious") - Len(buf["precious"]))
        BY <1>1, <2>1 DEF Granted
    <2>3. e \notin hadRoom
        <3>1. Len(waiting) \in Nat /\ Len(buf["precious"]) \in Nat /\ Capacity("precious") \in Nat
            BY <1>0, Lengths
        <3>2. e \in hadRoom => j + Len(buf["precious"]) <= Capacity("precious")
            BY <2>1 DEF Slots
        <3> QED BY <2>2, <3>1, <3>2
    <2>4. \A i \in 1..Len(waiting') : waiting'[i] # e
        BY <1>0, <1>1, LineMoves
    <2>5. e \notin Granted(waiting', Len(buf'["precious"]))
        BY <2>4, GrantedInLine
    <2> QED BY <1>1, <2>3, <2>5 DEF NoteRoom
<1>8. DropsOnlyWhenSaturated'
    <2> SUFFICES ASSUME NEW f \in Precious, place'[f] = "dropped"
                 PROVE  \/ writer'["precious"] = "panicked"
                        \/ age'[f] = Window /\ f \notin hadRoom'
        BY Zenon DEF DropsOnlyWhenSaturated
    <2>1. CASE f = e
        BY <1>1, <1>3, <1>4, <1>7, <2>1, Zenon
    <2>2. CASE f # e
        <3>1. place[f] = "dropped"
            BY <1>3, <2>2 DEF Events
        <3>2. writer["precious"] = "panicked" \/ (age[f] = Window /\ f \notin hadRoom)
            BY <3>1 DEF DropsOnlyWhenSaturated
        <3>3. \A i \in 1..Len(waiting') : waiting'[i] # f
            BY <1>3 DEF Line
        <3>4. f \notin Granted(waiting', Len(buf'["precious"]))
            BY <3>3, GrantedInLine
        <3> QED BY <1>1, <3>2, <3>4 DEF NoteRoom
    <2> QED BY <2>1, <2>2
<1> QED BY <1>3, <1>6, <1>8 DEF LineKept

\* A step that leaves the line alone, and takes no slot of the precious channel.
LEMMA LineStands ==
    ASSUME LineInv, Typed', waiting' = waiting, phase' = phase \/ waiting = <<>>,
           \A f \in Events : \/ place'[f] = place[f]
                             \/ place[f] # "waiting" /\ place'[f] \notin {"new", "waiting"},
           \A f \in Precious : place'[f] = "dropped" => place[f] = "dropped" /\ age'[f] = age[f],
           NoteRoom \/ hadRoom' = hadRoom,
           writer'["precious"] = "running" =>
               /\ writer["precious"] = "running"
               /\ Len(buf'["precious"]) <= Len(buf["precious"]),
           writer["precious"] = "panicked" => writer'["precious"] = "panicked"
    PROVE  Line' /\ Slots' /\ DropsOnlyWhenSaturated'
<1> USE DEF LineInv
<1>0. Typed /\ Precious \subseteq Events
    BY Zenon DEF Events
<1>1. Line'
    <2>1. ASSUME NEW i \in 1..Len(waiting) PROVE place'[waiting[i]] = "waiting"
        <3>1. waiting \in Seq(Precious)
            BY <1>0, Zenon DEF Typed
        <3>2. waiting[i] \in Events /\ place[waiting[i]] = "waiting"
            BY <1>0, <3>1 DEF Line
        <3> QED BY <3>2
    <2>2. ASSUME NEW f \in Precious, place'[f] = "waiting"
          PROVE  \E i \in 1..Len(waiting) : waiting[i] = f
        <3>1. place[f] = "waiting"
            BY <1>0, <2>2
        <3> QED BY <3>1 DEF Line
    <2> QED BY <2>1, <2>2 DEF Line
<1>2. \A f \in hadRoom : f \in Precious /\ place'[f] # "new"
    BY <1>0 DEF Slots
<1>3. ASSUME writer'["precious"] = "running", NEW i \in 1..Len(waiting'), waiting'[i] \in hadRoom
      PROVE  i + Len(buf'["precious"]) <= Capacity("precious")
    <2>1. i + Len(buf["precious"]) <= Capacity("precious")
        BY <1>3 DEF Slots
    <2>2. /\ Len(waiting) \in Nat /\ Len(buf["precious"]) \in Nat
          /\ Capacity("precious") \in Nat
        BY <1>0, Lengths
    <2>3. buf'["precious"] \in Seq(Events)
        BY DEF Typed, Channels
    <2>4. Len(buf'["precious"]) \in Nat /\ i \in Nat
        BY <2>2, <2>3
    <2>5. Len(buf'["precious"]) <= Len(buf["precious"])
        BY <1>3
    <2> QED BY <2>1, <2>2, <2>4, <2>5
<1>4. Slots'
    BY <1>1, <1>2, <1>3, SlotsKept
<1>5. DropsOnlyWhenSaturated'
    BY <1>1, DropsKept
<1> QED BY <1>1, <1>4, <1>5

\* record_log has no part in the line.
LEMMA RecordLogKeeps ==
    ASSUME LineInv, Typed', NEW e \in Logs, RecordLog(e) PROVE LineKept
<1> USE DEF LineInv
<1>0. /\ Typed /\ e \in Events /\ e \notin Precious /\ "precious" \in Channels
      /\ "log" \in Channels /\ ChannelOf(e) = "log" /\ e # None
    BY PipelineAssumption DEF Events, Channels, ChannelOf
<1>1. /\ place[e] = "new" /\ phase = "serving"
      /\ UNCHANGED <<waiting, age, hand, writer, phase, overran, hadRoom>>
    BY DEF RecordLog
<1>2. PICK to \in {"buffered", "dropped"} :
         /\ Put(e, to)
         /\ \/ buf' = buf
            \/ /\ buf' = [buf EXCEPT !["log"] = Append(buf["log"], e)]
               /\ writer["log"] = "running" /\ to = "buffered"
    BY <1>0, Zenon DEF RecordLog, DropAndCount, Accept
<1>3. place'[e] = to /\ \A f \in Events : f # e => place'[f] = place[f]
    BY <1>0, <1>2 DEF Put, Typed
<1>4. buf'["precious"] = buf["precious"]
    BY <1>0, <1>2, Zenon DEF Typed
<1>5. Len(buf'["precious"]) <= Len(buf["precious"])
    BY <1>0, <1>4, Lengths, SMTT(30)
<1>6. Line' /\ Slots' /\ DropsOnlyWhenSaturated'
    <2>1. \A f \in Events : \/ place'[f] = place[f]
                            \/ place[f] # "waiting" /\ place'[f] \notin {"new", "waiting"}
        BY <1>1, <1>3
    <2>2. \A f \in Precious : place'[f] = "dropped" => place[f] = "dropped" /\ age'[f] = age[f]
        BY <1>0, <1>1, <1>3 DEF Events
    <2> QED BY <1>1, <1>5, <2>1, <2>2, LineStands, Zenon
<1>7. Held'
    <2>1. ASSUME NEW ch \in Channels, NEW i \in 1..Len(buf[ch])
          PROVE  place'[buf[ch][i]] \notin {"new", "waiting"}
        <3>1. buf[ch] \in Seq(Events)
            BY <1>0 DEF Typed
        <3>2. buf[ch][i] \in Events
            BY <3>1
        <3>3. place[buf[ch][i]] \notin {"new", "waiting"}
            BY Zenon DEF Held
        <3> QED BY <1>3, <3>2, <3>3, Zenon
    <2>2. ASSUME NEW ch \in Channels, hand'[ch] # None
          PROVE  place'[hand'[ch]] \notin {"new", "waiting"}
        BY <1>0, <1>1, <1>3, <2>2, Zenon DEF Held, Typed
    <2>3. ASSUME NEW i \in 1..Len(buf'["log"])
          PROVE  place'[buf'["log"][i]] \notin {"new", "waiting"}
        <3>1. CASE buf' = buf
            BY <1>0, <2>1, <3>1
        <3>2. CASE buf' = [buf EXCEPT !["log"] = Append(buf["log"], e)]
            <4>1. buf'["log"] = Append(buf["log"], e) /\ buf["log"] \in Seq(Events)
                BY <1>0, <3>2 DEF Typed
            <4>2. buf'["log"][i] = e
                  \/ \E j \in 1..Len(buf["log"]) : buf'["log"][i] = buf["log"][j]
                BY <4>1
            <4> QED BY <1>0, <1>3, <2>1, <4>2
        <3> QED BY <1>2, <3>1, <3>2
    <2>4. ASSUME NEW i \in 1..Len(buf'["precious"])
          PROVE  place'[buf'["precious"][i]] \notin {"new", "waiting"}
        BY <1>0, <1>4, <2>1, Zenon
    <2> QED BY <2>2, <2>3, <2>4 DEF Held, Channels
<1>8. Writers'
    <2>1. \A ch \in Channels : writer[ch] # "exited"
        BY <1>1 DEF Writers
    <2> QED BY <1>1, <2>1, Zenon DEF Writers
<1> QED BY <1>6, <1>7, <1>8 DEF LineKept

\* A writer takes an event from its channel.
LEMMA ReceiveKeeps ==
    ASSUME LineInv, Typed', NEW ch \in Channels, Receive(ch) PROVE LineKept
<1> USE DEF LineInv
<1> DEFINE e == Head(buf[ch])
<1>0. Typed /\ "precious" \in Channels /\ None \notin Events
    BY PipelineAssumption DEF Events, Channels
<1>1. /\ writer[ch] = "running" /\ buf[ch] # <<>> /\ hand' = [hand EXCEPT ![ch] = e]
      /\ buf' = [buf EXCEPT ![ch] = Tail(buf[ch])] /\ Put(e, "writing") /\ NoteRoom
      /\ UNCHANGED <<waiting, age, writer, phase, overran>>
    BY DEF Receive, Alive
<1>2. /\ buf[ch] \in Seq(Events) /\ e = buf[ch][1] /\ 1 \in 1..Len(buf[ch]) /\ e \in Events
      /\ Len(Tail(buf[ch])) = Len(buf[ch]) - 1 /\ Len(buf[ch]) \in Nat
      /\ \A i \in 1..Len(Tail(buf[ch])) : Tail(buf[ch])[i] = buf[ch][i + 1]
    <2>1. buf[ch] \in Seq(Events)
        BY <1>0, Zenon DEF Typed
    <2> QED BY <1>1, <2>1
<1>3. place[e] \notin {"new", "waiting"}
    BY <1>2 DEF Held
<1> HIDE DEF e
<1>4. place'[e] = "writing" /\ \A f \in Events : f # e => place'[f] = place[f]
    BY <1>0, <1>1, <1>2, Zenon DEF Put, Typed
<1>5. \A c \in Channels : /\ buf'[c] = IF c = ch THEN Tail(buf[ch]) ELSE buf[c]
                          /\ hand'[c] = IF c = ch THEN e ELSE hand[c]
    BY <1>0, <1>1 DEF Typed
<1>6. Len(buf'["precious"]) <= Len(buf["precious"])
    <2>1. CASE ch = "precious"
        <3>1. buf'[ch] = Tail(buf[ch])
            BY <1>5, Zenon
        <3>2. Len(Tail(buf[ch])) <= Len(buf[ch])
            BY <1>2
        <3> QED BY <2>1, <3>1, <3>2
    <2>2. CASE ch # "precious"
        BY <1>0, <1>5, <2>2, Lengths
    <2> QED BY <2>1, <2>2
<1>7. Line' /\ Slots' /\ DropsOnlyWhenSaturated'
    <2>1. \A f \in Events : \/ place'[f] = place[f]
                            \/ place[f] # "waiting" /\ place'[f] \notin {"new", "waiting"}
        BY <1>3, <1>4
    <2>2. \A f \in Precious : place'[f] = "dropped" => place[f] = "dropped" /\ age'[f] = age[f]
        BY <1>1, <1>4 DEF Events
    <2> QED BY <1>1, <1>6, <2>1, <2>2, LineStands, Zenon
<1>8. Held'
    <2>1. ASSUME NEW c \in Channels, NEW i \in 1..Len(buf[c])
          PROVE  place'[buf[c][i]] \notin {"new", "waiting"}
        <3>1. buf[c] \in Seq(Events)
            BY <1>0 DEF Typed
        <3>2. buf[c][i] \in Events /\ place[buf[c][i]] \notin {"new", "waiting"}
            BY <3>1 DEF Held
        <3> QED BY <1>4, <3>2
    <2>2. ASSUME NEW c \in Channels, NEW i \in 1..Len(buf'[c])
          PROVE  place'[buf'[c][i]] \notin {"new", "waiting"}
        <3>1. CASE c = ch
            <4>0. buf'[c] = Tail(buf[ch]) /\ i \in 1..Len(Tail(buf[ch]))
                BY <1>5, <3>1, Zenon
            <4>1. buf'[c][i] = buf[ch][i + 1] /\ i + 1 \in 1..Len(buf[ch])
                BY <1>2, <4>0
            <4> QED BY <2>1, <4>1
        <3>2. CASE c # ch
            BY <1>5, <2>1, <3>2
        <3> QED BY <3>1, <3>2
    <2>3. ASSUME NEW c \in Channels, hand'[c] # None
          PROVE  place'[hand'[c]] \notin {"new", "waiting"}
        <3>1. CASE c = ch
            BY <1>4, <1>5, <3>1, Zenon
        <3>2. CASE c # ch
            <4>1. hand'[c] = hand[c] /\ hand[c] \in Events /\ hand[c] # None
                BY <1>0, <1>5, <2>3, <3>2, Zenon DEF Typed
            <4>2. place[hand[c]] \notin {"new", "waiting"}
                BY <4>1 DEF Held
            <4> QED BY <1>4, <4>1, <4>2, Zenon
        <3> QED BY <3>1, <3>2
    <2> QED BY <2>2, <2>3, Zenon DEF Held
<1>9. Writers'
    BY <1>1, <1>5 DEF Writers
<1> QED BY <1>7, <1>8, <1>9 DEF LineKept

\* It prints the event, or panics and takes the channel with it.
LEMMA WriteKeeps ==
    ASSUME LineInv, Typed', NEW ch \in Channels, Write(ch) \/ WriterPanics(ch) PROVE LineKept
<1> USE DEF LineInv
<1>0. Typed /\ "precious" \in Channels /\ None \notin Events
    BY PipelineAssumption, Zenon DEF Events, Channels
<1>1. /\ writer[ch] = "running" /\ hand[ch] # None /\ hand' = [hand EXCEPT ![ch] = None]
      /\ UNCHANGED <<waiting, age, phase, overran, hadRoom>>
    BY SMTT(30) DEF Write, WriterPanics, Alive
<1>2. hand[ch] \in Events /\ place[hand[ch]] \notin {"new", "waiting"}
    BY <1>0, <1>1, Zenon DEF Held, Typed
<1>3. /\ \A c \in Channels : c # ch => buf'[c] = buf[c] /\ writer'[c] = writer[c]
      /\ \A c \in Channels : hand'[c] = IF c = ch THEN None ELSE hand[c]
      /\ \/ buf'[ch] = buf[ch] /\ writer'[ch] = "running"
         \/ buf'[ch] = <<>> /\ writer'[ch] = "panicked"
    <2>1. CASE Write(ch)
        BY <1>0, <1>1, <2>1, Zenon DEF Write, Typed
    <2>2. CASE WriterPanics(ch)
        BY <1>0, <1>1, <2>2, Zenon DEF WriterPanics, Typed
    <2> QED BY <2>1, <2>2, Zenon
<1>4. ASSUME NEW f \in Events
      PROVE  \/ place'[f] = place[f]
             \/ place[f] \notin {"new", "waiting"} /\ place'[f] \in {"written", "lost"}
    <2>1. CASE Write(ch)
        BY <1>0, <1>2, <2>1, Zenon DEF Write, Put, Typed
    <2>2. CASE WriterPanics(ch)
        <3>1. f \in Range(buf[ch]) => place[f] \notin {"new", "waiting"}
            <4>1. buf[ch] \in Seq(Events)
                BY <1>0, Zenon DEF Typed
            <4>2. DOMAIN buf[ch] = 1..Len(buf[ch])
                BY <4>1, SMTT(30)
            <4> QED BY <4>2 DEF Range, Held
        <3> QED BY <1>2, <2>2, <3>1, Zenon DEF WriterPanics
    <2> QED BY <2>1, <2>2
<1>5. writer'["precious"] = "running" =>
         writer["precious"] = "running" /\ Len(buf'["precious"]) <= Len(buf["precious"])
    BY <1>0, <1>1, <1>3, Lengths, SMTT(30)
<1>6. Line' /\ Slots' /\ DropsOnlyWhenSaturated'
    <2>1. \A f \in Events : \/ place'[f] = place[f]
                            \/ place[f] # "waiting" /\ place'[f] \notin {"new", "waiting"}
        BY <1>4, Zenon
    <2>2. \A f \in Precious : place'[f] = "dropped" => place[f] = "dropped" /\ age'[f] = age[f]
        BY <1>1, <1>4 DEF Events
    <2>3. writer["precious"] = "panicked" => writer'["precious"] = "panicked"
        BY <1>0, <1>1, <1>3, Zenon
    <2> QED BY <1>1, <1>5, <2>1, <2>2, <2>3, LineStands
<1>7. Held'
    <2>1. ASSUME NEW c \in Channels, NEW i \in 1..Len(buf[c])
          PROVE  place'[buf[c][i]] \notin {"new", "waiting"}
        <3>1. buf[c] \in Seq(Events)
            BY <1>0 DEF Typed
        <3>2. buf[c][i] \in Events /\ place[buf[c][i]] \notin {"new", "waiting"}
            BY <3>1 DEF Held
        <3> QED BY <1>4, <3>2, Zenon
    <2>2. ASSUME NEW c \in Channels, NEW i \in 1..Len(buf'[c])
          PROVE  place'[buf'[c][i]] \notin {"new", "waiting"}
        <3>1. buf'[c] = buf[c] \/ buf'[c] = <<>>
            BY <1>3
        <3> QED BY <2>1, <3>1
    <2>3. ASSUME NEW c \in Channels, hand'[c] # None
          PROVE  place'[hand'[c]] \notin {"new", "waiting"}
        <3>1. hand'[c] = hand[c] /\ hand[c] \in Events
            BY <1>0, <1>3, <2>3, Zenon DEF Typed
        <3> QED BY <1>4, <2>3, <3>1 DEF Held
    <2> QED BY <2>2, <2>3, Zenon DEF Held
<1>8. Writers'
    <2>1. \A c \in Channels : writer'[c] = "exited" => c # ch /\ writer[c] = "exited"
        BY <1>3, Zenon
    <2>2. writer'["precious"] = "running" => writer["precious"] = "running"
        BY <1>5
    <2> QED BY <1>1, <1>3, <2>1, <2>2, SMTT(30) DEF Writers
<1> QED BY <1>6, <1>7, <1>8 DEF LineKept

\* The end of a writer, the shutdown and time.
LEMMA ShutdownKeeps ==
    ASSUME LineInv, Typed',
           \/ (\E ch \in Channels : WriterExits(ch)) \/ CloseSink \/ FlushEnds \/ Exit
           \/ StdoutStalls \/ Tick \/ UNCHANGED vars
    PROVE  LineKept
<1> USE DEF LineInv
<1>0. Typed /\ "precious" \in Channels
    BY DEF Channels
<1>1. UNCHANGED <<place, waiting, buf, hand, hadRoom>>
    BY Zenon DEF WriterExits, CloseSink, FlushEnds, Exit, StdoutStalls, Tick, vars
<1>2. \A c \in Channels : writer'[c] = writer[c] \/ (writer[c] = "running" /\ writer'[c] = "exited")
    BY <1>0, Zenon DEF WriterExits, Alive, CloseSink, FlushEnds, Exit, StdoutStalls, Tick, vars, Typed
<1>3. phase' = phase \/ waiting = <<>>
    BY Zenon DEF WriterExits, CloseSink, FlushEnds, Exit, StdoutStalls, Tick, vars, Line
<1>4. \A f \in Precious : place'[f] = "dropped" => place[f] = "dropped" /\ age'[f] = age[f]
    <2>1. ASSUME NEW f \in Precious, Tick, place[f] = "dropped" PROVE age'[f] = age[f]
        <3>1. age' = [d \in Precious |-> IF place[d] = "waiting" THEN age[d] + 1 ELSE age[d]]
            BY <2>1, Zenon DEF Tick
        <3> QED BY <2>1, <3>1
    <2>2. ~Tick => age' = age
        BY Zenon DEF WriterExits, CloseSink, FlushEnds, Exit, StdoutStalls, vars
    <2> QED BY <1>1, <2>1, <2>2, Zenon
<1>5. Line' /\ Slots' /\ DropsOnlyWhenSaturated'
    <2>1. Len(buf'["precious"]) <= Len(buf["precious"])
        BY <1>0, <1>1, Lengths
    <2>2. writer'["precious"] = "running" => writer["precious"] = "running"
        BY <1>0, <1>2
    <2>3. writer["precious"] = "panicked" => writer'["precious"] = "panicked"
        BY <1>0, <1>2
    <2>4. \A f \in Events : place'[f] = place[f]
        BY <1>1, SMTT(30)
    <2> QED BY <1>1, <1>3, <1>4, <2>1, <2>2, <2>3, <2>4, LineStands, Zenon
<1>6. Held'
    BY <1>1, Zenon DEF Held
<1>7. Writers'
    <2>1. ASSUME NEW ch \in Channels, WriterExits(ch) PROVE Writers'
        BY <1>0, <2>1, SMTT(30) DEF WriterExits, Writers, Typed, Alive
    <2>2. CASE CloseSink
        BY <2>2, Zenon DEF CloseSink, Writers
    <2>3. CASE FlushEnds
        BY <2>3, Zenon DEF FlushEnds, Writers, FlushedChannel
    <2>4. CASE Exit
        BY <2>4, Zenon DEF Exit, Writers
    <2>5. CASE StdoutStalls \/ Tick \/ UNCHANGED vars
        BY <2>5, Zenon DEF StdoutStalls, Tick, vars, Writers
    <2> QED BY <2>1, <2>2, <2>3, <2>4, <2>5, Zenon
<1> QED BY <1>5, <1>6, <1>7 DEF LineKept

LEMMA LineStep == LineInv /\ [Next]_vars => LineInv'
<1> SUFFICES ASSUME LineInv, [Next]_vars PROVE LineInv'
    OBVIOUS
<1>1. Typed'
    BY TypedStep DEF LineInv
<1>2. LineKept
    BY <1>1, RecordKeeps, SendCompletesKeeps, SendEndsKeeps, RecordLogKeeps, ReceiveKeeps,
       WriteKeeps, ShutdownKeeps DEF Next
<1> QED BY <1>1, <1>2 DEF LineInv, LineKept

LEMMA LineInit == Init => LineInv
<1> SUFFICES ASSUME Init PROVE LineInv
    OBVIOUS
<1>1. Typed
    BY DEF Init, Typed, Places
<1>2. Line /\ Held /\ Writers /\ Slots /\ DropsOnlyWhenSaturated
    BY DEF Init, Line, Held, Writers, Slots, DropsOnlyWhenSaturated, Events, Channels
<1> QED BY <1>1, <1>2 DEF LineInv

\* An event on the precious channel is given up only after the whole window and only if no
\* slot was free for it at any moment of it, or because the writer panicked; for any number
\* of requests and logs, any capacity and any pace of the writers (LogSink::record).
THEOREM EventsDropped == Spec => []DropsOnlyWhenSaturated
BY LineInit, LineStep, PTL DEF Spec, LineInv

-----------------------------------------------------------------------------
(* What reaches the sink                                                   *)

LEMMA HeadMoves ==
    ASSUME NEW S, NEW s \in Seq(S), NEW t \in Seq(S), t # <<>>
    PROVE  (s \o <<>>) \o t = (s \o <<Head(t)>>) \o Tail(t)
<1>1. Head(t) \in S /\ Tail(t) \in Seq(S) /\ t = <<Head(t)>> \o Tail(t)
    <2>1. Head(t) \in S /\ Tail(t) \in Seq(S)
        OBVIOUS
    <2>2. <<Head(t)>> \in Seq(S)
        BY <2>1
    <2>3. /\ Len(<<Head(t)>> \o Tail(t)) = Len(t)
          /\ \A i \in 1..Len(t) : (<<Head(t)>> \o Tail(t))[i] = t[i]
        BY <2>1
    <2>4. <<Head(t)>> \o Tail(t) \in Seq(S)
        BY <2>1, <2>2, Joined
    <2> QED BY <2>1, <2>3, <2>4, SameSeq
<1>2. s \o <<>> = s
    BY JoinedEmpty
<1>3. <<Head(t)>> \in Seq(S)
    BY <1>1
<1> QED BY <1>1, <1>2, <1>3, JoinedThrice

LEMMA HandEmpties ==
    ASSUME NEW S, NEW s \in Seq(S), NEW e \in S PROVE Append(s, e) \o <<>> = s \o <<e>>
<1>1. Append(s, e) = s \o <<e>> /\ Append(s, e) \in Seq(S)
    BY AppendJoins
<1> QED BY <1>1, JoinedEmpty

InHand(ch) == IF hand[ch] = None THEN <<>> ELSE <<hand[ch]>>

\* While a writer lives, each step moves one event one place on.
LEMMA SinkStep == LineInv /\ AcceptedIsWritten /\ [Next]_vars => AcceptedIsWritten'
<1> SUFFICES ASSUME LineInv, AcceptedIsWritten, [Next]_vars, NEW ch \in Channels,
                    writer'[ch] # "panicked"
             PROVE  accepted'[ch] = (written'[ch] \o InHand(ch)') \o buf'[ch]
    BY Zenon DEF AcceptedIsWritten, InHand
<1>0. Typed /\ None \notin Events
    BY PipelineAssumption, Zenon DEF LineInv, Events
<1>a. /\ written[ch] \in Seq(Events) /\ buf[ch] \in Seq(Events) /\ accepted[ch] \in Seq(Events)
      /\ InHand(ch) \in Seq(Events)
    BY <1>0 DEF Typed, InHand
<1>b. writer[ch] # "panicked" => accepted[ch] = (written[ch] \o InHand(ch)) \o buf[ch]
    BY Zenon DEF AcceptedIsWritten, InHand
<1>c. ASSUME UNCHANGED <<hand, written>>, writer'[ch] = writer[ch],
             \/ UNCHANGED <<buf, accepted>>
             \/ \E e \in Events : Accept(e)
      PROVE  accepted'[ch] = (written'[ch] \o InHand(ch)') \o buf'[ch]
    <2>0. InHand(ch)' = InHand(ch) /\ accepted[ch] = (written[ch] \o InHand(ch)) \o buf[ch]
        BY <1>b, <1>c, Zenon DEF InHand
    <2>1. CASE UNCHANGED <<buf, accepted>>
        BY <1>c, <2>0, <2>1, Zenon
    <2>2. ASSUME NEW e \in Events, Accept(e)
          PROVE  accepted'[ch] = (written'[ch] \o InHand(ch)') \o buf'[ch]
        <3>1. CASE ChannelOf(e) = ch
            <4>1. accepted'[ch] = Append(accepted[ch], e) /\ buf'[ch] = Append(buf[ch], e)
                BY <1>0, <2>2, <3>1 DEF Accept, Typed
            <4>2. written[ch] \o InHand(ch) \in Seq(Events)
                BY <1>a, Joined, Zenon
            <4>3. /\ <<e>> \in Seq(Events)
                  /\ Append(accepted[ch], e) = accepted[ch] \o <<e>>
                  /\ Append(buf[ch], e) = buf[ch] \o <<e>>
                BY <1>a, AppendJoins
            <4>4. ((written[ch] \o InHand(ch)) \o buf[ch]) \o <<e>>
                     = (written[ch] \o InHand(ch)) \o (buf[ch] \o <<e>>)
                <5>1. \A s, t, u \in Seq(Events) : (s \o t) \o u = s \o (t \o u)
                    BY JoinedThrice
                <5> QED BY <1>a, <4>2, <4>3, <5>1, Zenon
            <4>5. written'[ch] = written[ch]
                BY <1>c, Zenon
            <4> QED BY <2>0, <4>1, <4>3, <4>4, <4>5, Zenon
        <3>2. CASE ChannelOf(e) # ch
            <4>1. accepted'[ch] = accepted[ch] /\ buf'[ch] = buf[ch]
                BY <1>0, <2>2, <3>2 DEF Accept, Typed
            <4> QED BY <1>c, <2>0, <4>1, Zenon
        <3> QED BY <3>1, <3>2, Zenon
    <2> QED BY <1>c, <2>1, <2>2, Zenon
<1>1. ASSUME NEW e \in Precious,
             Record(e) \/ SendCompletes(e) \/ SendTimesOut(e) \/ Cancelled(e)
      PROVE  accepted'[ch] = (written'[ch] \o InHand(ch)') \o buf'[ch]
    <2>1. e \in Events /\ UNCHANGED <<hand, written, writer>>
          /\ (UNCHANGED <<buf, accepted>> \/ Accept(e))
        BY <1>1, Zenon DEF Record, SendCompletes, SendTimesOut, Cancelled, Events
    <2> QED BY <1>c, <2>1, Zenon
<1>2. ASSUME NEW e \in Logs, RecordLog(e)
      PROVE  accepted'[ch] = (written'[ch] \o InHand(ch)') \o buf'[ch]
    <2>1. e \in Events /\ UNCHANGED <<hand, written, writer>>
          /\ (UNCHANGED <<buf, accepted>> \/ Accept(e))
        BY <1>2 DEF RecordLog, Events
    <2> QED BY <1>c, <2>1, Zenon
<1>3. ASSUME NEW c \in Channels, c # ch,
             Receive(c) \/ Write(c) \/ WriterPanics(c) \/ WriterExits(c)
      PROVE  accepted'[ch] = (written'[ch] \o InHand(ch)') \o buf'[ch]
    <2>1. /\ hand'[ch] = hand[ch] /\ written'[ch] = written[ch] /\ buf'[ch] = buf[ch]
          /\ writer'[ch] = writer[ch] /\ accepted'[ch] = accepted[ch]
        BY <1>0, <1>3, Zenon DEF Receive, Write, WriterPanics, WriterExits, Typed
    <2> QED BY <1>b, <2>1, Zenon DEF InHand
<1>4. ASSUME Receive(ch) PROVE accepted'[ch] = (written'[ch] \o InHand(ch)') \o buf'[ch]
    <2>1. /\ hand[ch] = None /\ buf[ch] # <<>> /\ hand'[ch] = Head(buf[ch])
          /\ buf'[ch] = Tail(buf[ch]) /\ UNCHANGED <<writer, accepted, written>>
        BY <1>0, <1>4, Zenon DEF Receive, Typed
    <2>2. Head(buf[ch]) \in Events
        BY <1>a, <2>1
    <2>3. InHand(ch) = <<>> /\ InHand(ch)' = <<Head(buf[ch])>>
        BY <1>0, <2>1, <2>2 DEF InHand
    <2>4. (written[ch] \o <<>>) \o buf[ch] = (written[ch] \o <<Head(buf[ch])>>) \o Tail(buf[ch])
        BY <1>a, <2>1, HeadMoves, Zenon
    <2> QED BY <1>b, <2>1, <2>3, <2>4, Zenon
<1>5. ASSUME Write(ch) PROVE accepted'[ch] = (written'[ch] \o InHand(ch)') \o buf'[ch]
    <2>1. /\ hand[ch] # None /\ hand[ch] \in Events /\ hand'[ch] = None
          /\ written'[ch] = Append(written[ch], hand[ch]) /\ UNCHANGED <<buf, writer, accepted>>
        BY <1>0, <1>5, Zenon DEF Write, Typed
    <2>2. InHand(ch) = <<hand[ch]>> /\ InHand(ch)' = <<>>
        BY <2>1 DEF InHand
    <2>3. Append(written[ch], hand[ch]) \o <<>> = written[ch] \o <<hand[ch]>>
        BY <1>a, <2>1, HandEmpties
    <2> QED BY <1>b, <2>1, <2>2, <2>3, Zenon
<1>6. ASSUME WriterPanics(ch) PROVE FALSE
    BY <1>0, <1>6 DEF WriterPanics, Typed
<1>7. ASSUME WriterExits(ch) PROVE accepted'[ch] = (written'[ch] \o InHand(ch)') \o buf'[ch]
    <2>1. writer[ch] # "panicked" /\ UNCHANGED <<hand, buf, written, accepted>>
        BY <1>7 DEF WriterExits, Alive
    <2> QED BY <1>b, <2>1, Zenon DEF InHand
<1>8. ASSUME CloseSink \/ FlushEnds \/ Exit \/ StdoutStalls \/ Tick \/ UNCHANGED vars
      PROVE  accepted'[ch] = (written'[ch] \o InHand(ch)') \o buf'[ch]
    <2>1. UNCHANGED <<hand, buf, written, accepted, writer>>
        BY <1>8, Zenon DEF CloseSink, FlushEnds, Exit, StdoutStalls, Tick, vars
    <2> QED BY <1>b, <2>1, Zenon DEF InHand
<1> QED BY <1>1, <1>2, <1>3, <1>4, <1>5, <1>6, <1>7, <1>8, Zenon DEF Next

\* A channel whose writer lives neither loses, repeats nor reorders what it took, and every
\* precious event it took is on stdout when its flush ends within the budget; for any
\* number of events and any interleaving of requests, writers and the shutdown
\* (writer_loop, EventPipeline::shutdown).
THEOREM EventsReachSink == Spec => []AcceptedReachesSink
<1>1. Init => AcceptedIsWritten
    <2> SUFFICES ASSUME Init, NEW ch \in Channels
                 PROVE  accepted[ch] = written[ch] \o (IF hand[ch] = None THEN <<>> ELSE <<hand[ch]>>)
                                                  \o buf[ch]
        BY Zenon DEF AcceptedIsWritten
    <2>1. accepted[ch] = <<>> /\ written[ch] = <<>> /\ hand[ch] = None /\ buf[ch] = <<>>
        BY DEF Init
    <2>2. (<<>> \o <<>>) \o <<>> = <<>>
        OBVIOUS
    <2> QED BY <2>1, <2>2
<1>2. LineInv /\ AcceptedIsWritten => FlushLosesNothing
    <2> SUFFICES ASSUME LineInv, AcceptedIsWritten, phase \in {"flush_log", "stopping", "exited"},
                        "precious" \notin overran, writer["precious"] # "panicked"
                 PROVE  written["precious"] = accepted["precious"]
        BY DEF FlushLosesNothing
    <2>1. "precious" \in Channels /\ Typed
        BY DEF Channels, LineInv
    <2>2. writer["precious"] = "exited"
        BY <2>1, Zenon DEF LineInv, Writers, Typed
    <2>3. hand["precious"] = None /\ buf["precious"] = <<>>
        BY <2>1, <2>2, SMTT(30) DEF LineInv, Writers
    <2>4. accepted["precious"] = (written["precious"] \o <<>>) \o <<>>
        BY <2>1, <2>3, Zenon DEF AcceptedIsWritten
    <2>5. written["precious"] \in Seq(Events)
        BY <2>1 DEF Typed
    <2> QED BY <2>4, <2>5, JoinedEmpty
<1> QED BY <1>1, <1>2, LineInit, LineStep, SinkStep, PTL DEF Spec, AcceptedReachesSink
=============================================================================
