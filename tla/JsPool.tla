------------------------------- MODULE JsPool -------------------------------
(***************************************************************************)
(* The pool of pre-warmed QuickJS runtimes (runlet-core/src/pool.rs) and   *)
(* the host calls that use it (LogicHost::run and LogicHost::shutdown in   *)
(* runlet-core/src/host.rs).                                               *)
(*                                                                         *)
(* Every blocking thread runs host.run; each atomic operation on the       *)
(* shared PoolState and on the ArrayQueue is one action, so that the       *)
(* interleavings of acquire, release and shutdown are those of the code.   *)
(* A runtime is represented by the only thing that outlives an execution   *)
(* in it: whether an interrupt handler is still armed.                     *)
(***************************************************************************)
EXTENDS Naturals, Sequences, FiniteSets

CONSTANTS
    Threads,    \* the blocking threads that call LogicHost::run
    PoolSize,   \* JsPool.size, the capacity of the ArrayQueue
    GcEveryN,   \* GC_EVERY_N (16 in the code)
    MaxRuns     \* bound: calls of LogicHost::run in a behaviour

ASSUME PoolAssumption ==
    /\ IsFiniteSet(Threads)
    /\ PoolSize \in Nat \ {0}
    /\ GcEveryN \in Nat \ {0}
    /\ MaxRuns \in Nat

VARIABLES
    accepting,    \* PoolState.accepting
    idle,         \* JsPool.inner: the queue of idle runtimes
    in_flight,    \* PoolState.in_flight
    release_seq,  \* PoolState.release_seq
    gc_runs,      \* PoolState.gc_runs
    pc,           \* per thread: the next atomic step of run
    runtime,      \* per thread: the runtime checked out, or "none"
    stopper,      \* the caller of shutdown: "up", "draining" or "down"
    runs,         \* number of run calls so far (bounded by MaxRuns)
    lost          \* executions that unwound out of run (history)

vars == <<accepting, idle, in_flight, release_seq, gc_runs, pc, runtime,
          stopper, runs, lost>>
poolState == <<accepting, in_flight, release_seq, gc_runs>>

\* A pooled runtime is "clean", or "armed" when the interrupt handler of an
\* earlier execution is still installed in it.
Runtimes == {"clean", "armed"}

Steps == {"ready", "resolve", "pop", "count_in", "execute",
          "count_out", "check", "seq", "gc", "push"}

\* JsPool::new: size warm runtimes, all counters zero.
Init ==
    /\ accepting = TRUE
    /\ idle = [i \in 1..PoolSize |-> "clean"]
    /\ in_flight = 0
    /\ release_seq = 0
    /\ gc_runs = 0
    /\ pc = [t \in Threads |-> "ready"]
    /\ runtime = [t \in Threads |-> "none"]
    /\ stopper = "up"
    /\ runs = 0
    /\ lost = 0

Goto(t, step) == pc' = [pc EXCEPT ![t] = step]

-----------------------------------------------------------------------------
(* LogicHost::run                                                          *)

\* The is_accepting check that opens run: ShuttingDown once the flag is off.
RunCheck(t) ==
    /\ pc[t] = "ready"
    /\ runs < MaxRuns
    /\ runs' = runs + 1
    /\ Goto(t, IF accepting THEN "resolve" ELSE "ready")
    /\ UNCHANGED <<poolState, idle, runtime, stopper, lost>>

\* Resolving the code reference: a registered key may be missing
\* (ScriptNotFound), which returns before a runtime is acquired.
ResolveSource(t) ==
    /\ pc[t] = "resolve"
    /\ \E found \in BOOLEAN : Goto(t, IF found THEN "pop" ELSE "ready")
    /\ UNCHANGED <<poolState, idle, runtime, stopper, runs, lost>>

\* acquire, first half: pop an idle runtime, or create one; a failed creation
\* returns through `?` before anything is counted.
AcquirePop(t) ==
    /\ pc[t] = "pop"
    /\ \/ /\ idle # <<>>
          /\ idle' = Tail(idle)
          /\ runtime' = [runtime EXCEPT ![t] = Head(idle)]
          /\ Goto(t, "count_in")
       \/ /\ idle = <<>>
          /\ runtime' = [runtime EXCEPT ![t] = "clean"]
          /\ Goto(t, "count_in")
          /\ UNCHANGED idle
       \/ /\ idle = <<>>
          /\ Goto(t, "ready")
          /\ UNCHANGED <<idle, runtime>>
    /\ UNCHANGED <<poolState, stopper, runs, lost>>

\* acquire, second half: the in-flight gauge.
AcquireCount(t) ==
    /\ pc[t] = "count_in"
    /\ in_flight' = in_flight + 1
    /\ Goto(t, "execute")
    /\ UNCHANGED <<accepting, release_seq, gc_runs, idle, runtime, stopper,
                   runs, lost>>

\* engine::run returns. setup_timeout arms the interrupt handler first; it is
\* cleared before the result is built, except when Context::full fails and `?`
\* returns early.
EngineRun(t) ==
    /\ pc[t] = "execute"
    /\ \E contextCreated \in BOOLEAN :
          runtime' = [runtime EXCEPT ![t] = IF contextCreated THEN "clean"
                                                              ELSE "armed"]
    /\ Goto(t, "count_out")
    /\ UNCHANGED <<poolState, idle, stopper, runs, lost>>

\* engine::run panics: the unwinding drops the runtime and skips release; the
\* blocking task ends with a JoinError.
EngineUnwinds(t) ==
    /\ pc[t] = "execute"
    /\ runtime' = [runtime EXCEPT ![t] = "none"]
    /\ lost' = lost + 1
    /\ Goto(t, "ready")
    /\ UNCHANGED <<poolState, idle, stopper, runs>>

-----------------------------------------------------------------------------
(* JsPool::release, one action per atomic operation                        *)

\* Mutant: the decrement moved under the accepting test.
ReleaseCountWhileAccepting(t) ==
    /\ pc[t] = "count_out"
    /\ in_flight' = IF accepting THEN in_flight - 1 ELSE in_flight
    /\ Goto(t, "check")
    /\ UNCHANGED <<accepting, release_seq, gc_runs, idle, runtime, stopper,
                   runs, lost>>

\* in_flight.fetch_sub
ReleaseCount(t) ==
    /\ pc[t] = "count_out"
    /\ in_flight' = in_flight - 1
    /\ Goto(t, "check")
    /\ UNCHANGED <<accepting, release_seq, gc_runs, idle, runtime, stopper,
                   runs, lost>>

\* Load accepting: dispose of the runtime after a shutdown.
ReleaseCheck(t) ==
    /\ pc[t] = "check"
    /\ IF accepting
       THEN /\ Goto(t, "seq")
            /\ UNCHANGED runtime
       ELSE /\ Goto(t, "ready")
            /\ runtime' = [runtime EXCEPT ![t] = "none"]
    /\ UNCHANGED <<poolState, idle, stopper, runs, lost>>

\* release_seq.fetch_add: the value before the increment selects the sweeps.
ReleaseSeq(t) ==
    /\ pc[t] = "seq"
    /\ release_seq' = release_seq + 1
    /\ Goto(t, IF release_seq % GcEveryN = 0 THEN "gc" ELSE "push")
    /\ UNCHANGED <<accepting, in_flight, gc_runs, idle, runtime, stopper,
                   runs, lost>>

\* run_gc, then gc_runs.fetch_add
ReleaseGc(t) ==
    /\ pc[t] = "gc"
    /\ gc_runs' = gc_runs + 1
    /\ Goto(t, "push")
    /\ UNCHANGED <<accepting, in_flight, release_seq, idle, runtime, stopper,
                   runs, lost>>

\* Mutant: a queue that holds one runtime less than the pool.
ReleasePushShort(t) ==
    /\ pc[t] = "push"
    /\ idle' = IF Len(idle) + 1 < PoolSize THEN Append(idle, runtime[t]) ELSE idle
    /\ runtime' = [runtime EXCEPT ![t] = "none"]
    /\ Goto(t, "ready")
    /\ UNCHANGED <<poolState, stopper, runs, lost>>

\* ArrayQueue::push; a full queue hands the runtime back and it is dropped.
ReleasePush(t) ==
    /\ pc[t] = "push"
    /\ idle' = IF Len(idle) < PoolSize THEN Append(idle, runtime[t]) ELSE idle
    /\ runtime' = [runtime EXCEPT ![t] = "none"]
    /\ Goto(t, "ready")
    /\ UNCHANGED <<poolState, stopper, runs, lost>>

-----------------------------------------------------------------------------
(* JsPool::shutdown, called once by main after the server has drained      *)

\* accepting.store(false)
ShutdownStore ==
    /\ stopper = "up"
    /\ accepting' = FALSE
    /\ stopper' = "draining"
    /\ UNCHANGED <<in_flight, release_seq, gc_runs, idle, pc, runtime, runs,
                   lost>>

\* One turn of `while self.inner.pop().is_some() {}`.
ShutdownPop ==
    /\ stopper = "draining"
    /\ \/ /\ idle # <<>>
          /\ idle' = Tail(idle)
          /\ UNCHANGED stopper
       \/ /\ idle = <<>>
          /\ stopper' = "down"
          /\ UNCHANGED idle
    /\ UNCHANGED <<poolState, pc, runtime, runs, lost>>

-----------------------------------------------------------------------------

Run(t) ==
    \/ RunCheck(t) \/ ResolveSource(t)
    \/ AcquirePop(t) \/ AcquireCount(t)
    \/ EngineRun(t) \/ EngineUnwinds(t)
    \/ ReleaseCount(t) \/ ReleaseCheck(t) \/ ReleaseSeq(t) \/ ReleaseGc(t)
    \/ ReleasePush(t)

Next == ShutdownStore \/ ShutdownPop \/ \E t \in Threads : Run(t)

Spec == Init /\ [][Next]_vars

\* A call of run that has begun goes on: the thread is scheduled, and the
\* interrupt handler bounds the execution. Nothing obliges a new call to
\* arrive or shutdown to be called; a begun shutdown goes on.
RunGoesOn(t) == pc[t] # "ready" /\ Run(t)

FairSpec ==
    /\ Spec
    /\ WF_vars(ShutdownPop)
    /\ \A t \in Threads : WF_vars(RunGoesOn(t))

-----------------------------------------------------------------------------
(* Properties                                                              *)

Holding == {t \in Threads : runtime[t] # "none"}
Counted == {t \in Threads : pc[t] \in {"execute", "count_out"}}

\* The state is well formed; in particular the queue never exceeds its
\* capacity and a thread holds a runtime exactly between its acquire and the
\* end of its release.
TypeOK ==
    /\ accepting \in BOOLEAN
    /\ idle \in Seq(Runtimes) /\ Len(idle) \in 0..PoolSize
    /\ in_flight \in Nat /\ release_seq \in Nat /\ gc_runs \in Nat
    /\ pc \in [Threads -> Steps]
    /\ runtime \in [Threads -> Runtimes \cup {"none"}]
    /\ \A t \in Threads :
          runtime[t] = "none" <=> pc[t] \in {"ready", "resolve", "pop"}
    /\ stopper \in {"up", "draining", "down"}
    /\ accepting <=> stopper = "up"
    /\ runs \in 0..MaxRuns
    /\ lost \in Nat

\* pool_stats().in_flight is exact at every instant: it counts the runtimes
\* between the increment of acquire and the decrement of release, plus one for
\* every execution that unwound (release is skipped and never makes up for it).
InFlightGauge == in_flight = Cardinality(Counted) + lost

\* Up to shutdown no warm slot is lost, whatever acquires, releases, failed
\* creations and full queues interleave: idle and checked-out runtimes, with
\* the ones lost by unwinding, make up at least the configured pool.
WarmSetConserved ==
    stopper = "up" => Len(idle) + Cardinality(Holding) + lost >= PoolSize

\* The pool's books are exact in every interleaving: the gauge counts what is out, and no
\* warm runtime goes missing before shutdown (acquire, release, shutdown).
PoolAccounted == InFlightGauge /\ WarmSetConserved

\* The amortised sweep is exact under concurrent releases: of n counted
\* releases, the first and then every GcEveryN-th has swept or is about to.
GcAmortized ==
    gc_runs + Cardinality({t \in Threads : pc[t] = "gc"})
        = (release_seq + GcEveryN - 1) \div GcEveryN

\* After shutdown the pool comes to rest: the drain loop ends, and the gauge
\* falls to the number of unwound executions and stays there.
ShutdownSettles ==
    ~accepting ~> [](stopper = "down" /\ in_flight = lost)

\* What a shutdown leaves over can only become less: the runs that passed the
\* is_accepting check before it, with the runtimes that are idle or will be
\* pushed by a release that read the flag before it.
Stragglers ==
    Cardinality({t \in Threads : pc[t] # "ready"}) + Len(idle)
ShutdownOnlyShrinks == [][~accepting => Stragglers' <= Stragglers]_vars

-----------------------------------------------------------------------------
(* Claims of comments and specifications that the code does not meet; the   *)
(* README describes the counterexamples                                     *)

\* pool.rs:215-218, "the pool drains to empty without interrupting work": once
\* shutdown has returned and no execution is left, no runtime is pooled.
DrainsToEmpty ==
    stopper = "down" /\ Holding = {} => idle = <<>>

\* host.rs:370-373, "poll pool_stats until in_flight reaches zero ... before
\* exiting": after shutdown has returned, in_flight = 0 is final.
DrainedIsFinal ==
    [][stopper = "down" /\ in_flight = 0 => in_flight' = 0]_vars

\* engine/mod.rs:143, "clear interrupt handler so pooled runtime is clean": no
\* idle runtime has an interrupt handler left from an earlier execution.
PooledRuntimesClean == \A i \in 1..Len(idle) : idle[i] = "clean"
=============================================================================
