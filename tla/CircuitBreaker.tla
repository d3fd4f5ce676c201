--------------------------- MODULE CircuitBreaker ---------------------------
(***************************************************************************)
(* The per-target circuit breaker (runlet-wire/src/breaker.rs), for one    *)
(* target: targets do not share state, and a target that has no entry yet  *)
(* behaves as one with no failures.                                        *)
(*                                                                         *)
(* Callers ask allow(), connect, and record() the outcome.  Time is kept   *)
(* relative to the present, so that it never ends: `left` is open_until    *)
(* minus now, `age` the time since a caller read its own clock.  allow()   *)
(* reads the clock before it takes the mutex, and may use it late.         *)
(***************************************************************************)
EXTENDS Integers

CONSTANTS
    Callers,       \* the requests that use the target
    Threshold,     \* BreakerConfig.threshold; 0 builds no breaker
    Cooldown,      \* BreakerConfig.cooldown, in ticks
    MaxCall,       \* bound: the ticks from a caller's allow() to its record()
    MaxFailures,   \* the value at which the failure count saturates
    TripsModulus   \* the value at which the trip count wraps

ASSUME BreakerAssumption ==
    /\ Threshold \in Nat \ {0} /\ Cooldown \in Nat /\ MaxCall \in Nat
    /\ MaxFailures \in Nat /\ MaxFailures >= Threshold
    /\ TripsModulus \in Nat \ {0}

VARIABLES
    failures,      \* TargetState.failures
    open,          \* TargetState.open_until is Some
    left,          \* ... and lies that far ahead (behind, when negative)
    trips,         \* CircuitBreaker.trips
    pc,            \* caller -> where it is
    age,           \* caller -> ticks since its allow() read the clock
    probing,       \* callers admitted while the breaker was open (history)
    up,            \* the target accepts connections (environment)
    tripsInARow    \* trips since the last success (history)

vars == <<failures, open, left, trips, pc, age, probing, up, tripsInARow>>

Pending == {c \in Callers : pc[c] # "idle"}

Init ==
    /\ failures = 0 /\ open = FALSE /\ left = 0 /\ trips = 0
    /\ pc = [c \in Callers |-> "idle"]
    /\ age = [c \in Callers |-> 0]
    /\ probing = {} /\ up = TRUE /\ tripsInARow = 0

-----------------------------------------------------------------------------

\* allow: let now = Instant::now().
Ask(c) ==
    /\ pc[c] = "idle"
    /\ pc' = [pc EXCEPT ![c] = "asked"]
    /\ age' = [age EXCEPT ![c] = 0]
    /\ UNCHANGED <<failures, open, left, trips, probing, up, tripsInARow>>

\* now < until, with the clock the caller read.
Early(c) == left > -age[c]

\* allow: a closed breaker.
AllowClosed(c) ==
    /\ pc[c] = "asked" /\ ~open
    /\ pc' = [pc EXCEPT ![c] = "calling"]
    /\ UNCHANGED <<failures, open, left, trips, age, probing, up, tripsInARow>>

\* allow: open, and the cool-down is not over.
AllowRefuses(c) ==
    /\ pc[c] = "asked" /\ open /\ Early(c)
    /\ pc' = [pc EXCEPT ![c] = "idle"]
    /\ UNCHANGED <<failures, open, left, trips, age, probing, up, tripsInARow>>

\* Mutant: the window is not armed again.
AllowProbesUnarmed(c) ==
    /\ pc[c] = "asked" /\ open /\ ~Early(c)
    /\ pc' = [pc EXCEPT ![c] = "calling"]
    /\ probing' = probing \cup {c}
    /\ UNCHANGED <<failures, open, left, trips, age, up, tripsInARow>>

\* allow: open, and the cool-down is over: the window is armed again.
AllowProbes(c) ==
    /\ pc[c] = "asked" /\ open /\ ~Early(c)
    /\ pc' = [pc EXCEPT ![c] = "calling"]
    /\ left' = Cooldown - age[c]
    /\ probing' = probing \cup {c}
    /\ UNCHANGED <<failures, open, trips, age, up, tripsInARow>>

Recorded(c) ==
    /\ pc[c] = "calling"
    /\ pc' = [pc EXCEPT ![c] = "idle"]
    /\ probing' = probing \ {c}

\* Mutant: a success clears the count and leaves the breaker open.
RecordSuccessStaysOpen(c) ==
    /\ Recorded(c) /\ up
    /\ failures' = 0 /\ tripsInARow' = 0
    /\ UNCHANGED <<open, left, trips, age, up>>

\* record(target, true)
RecordSuccess(c) ==
    /\ Recorded(c) /\ up
    /\ failures' = 0 /\ open' = FALSE /\ tripsInARow' = 0
    /\ UNCHANGED <<left, trips, age, up>>

AddFailure == IF failures < MaxFailures THEN failures + 1 ELSE failures

\* record(target, false)
RecordFailure(c) ==
    /\ Recorded(c) /\ ~up
    /\ failures' = AddFailure
    /\ IF AddFailure >= Threshold
         THEN /\ trips' = IF open THEN trips ELSE (trips + 1) % TripsModulus
              /\ tripsInARow' = IF open THEN tripsInARow ELSE tripsInARow + 1
              /\ open' = TRUE /\ left' = Cooldown
         ELSE UNCHANGED <<trips, tripsInARow, open, left>>
    /\ UNCHANGED <<age, up>>

\* Time passes.  A caller that has asked records within MaxCall ticks; how far
\* behind open_until lies matters only up to the oldest clock still in use.
Tick ==
    /\ \A c \in Pending : age[c] < MaxCall
    /\ age' = [c \in Callers |-> IF c \in Pending THEN age[c] + 1 ELSE age[c]]
    /\ left' = IF left > -MaxCall THEN left - 1 ELSE left
    /\ UNCHANGED <<failures, open, trips, pc, probing, up, tripsInARow>>

\* The target goes down or comes back.
Flip ==
    /\ up' = ~up
    /\ UNCHANGED <<failures, open, left, trips, pc, age, probing, tripsInARow>>

CallerStep(c) ==
    \/ Ask(c) \/ AllowClosed(c) \/ AllowRefuses(c) \/ AllowProbes(c)
    \/ RecordSuccess(c) \/ RecordFailure(c)

Next == (\E c \in Callers : CallerStep(c)) \/ Tick \/ Flip

Spec == Init /\ [][Next]_vars

\* Every caller keeps calling and its connects end; time passes.
FairSpec == Spec /\ (\A c \in Callers : WF_vars(CallerStep(c))) /\ WF_vars(Tick)

-----------------------------------------------------------------------------

\* Types, and the window: it is never armed for longer than the cool-down.
TypeOK ==
    /\ failures \in 0..MaxFailures /\ open \in BOOLEAN
    /\ left \in -MaxCall..Cooldown
    /\ trips \in 0..TripsModulus - 1
    /\ pc \in [Callers -> {"idle", "asked", "calling"}]
    /\ age \in [Callers -> 0..MaxCall]
    /\ probing \subseteq {c \in Callers : pc[c] = "calling"}
    /\ up \in BOOLEAN /\ tripsInARow \in Nat

\* The breaker is open exactly when that many connects have failed in a row:
\* allow, which re-arms the window, and late outcomes of calls admitted before
\* the trip, never separate the two fields of TargetState.
OpenIffTripped == open <=> failures >= Threshold

\* The target trips at most once between two successes, however many calls
\* admitted before the trip, or probes, fail afterwards.
TripsAreTransitions == tripsInARow = IF open THEN 1 ELSE 0

\* One request probes per cool-down: however long a probe takes, and however
\* late a caller uses the clock it read, the clocks of two requests that allow()
\* admitted while the breaker was open lie a cool-down apart.
ProbesSpaced ==
    \A c, d \in probing : c # d /\ age[c] <= age[d] => age[d] - age[c] >= Cooldown

\* A target that has come back to stay is called again: the breaker closes for
\* good, because a probe is admitted after each cool-down.
BreakerCloses == <>[]up => <>[]~open

-----------------------------------------------------------------------------
(* A claim that the code does not meet when a probe outlasts the cool-down;  *)
(* the README describes the counterexample                                   *)

\* breaker.rs:67-69, "only that one request probes while others keep
\* fast-failing until the probe resolves".
SingleProbe == \A c, d \in probing : c = d
=============================================================================
