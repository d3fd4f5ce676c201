----------------------------- MODULE Execution -----------------------------
(***************************************************************************)
(* What /execute and /batch share around one execution: the blocking task  *)
(* (execute_blocking in runlet/src/handler/mod.rs), the outcome counters   *)
(* of /metrics (runlet-core/src/metrics.rs), the usage and audit events    *)
(* (runlet/src/handler/telemetry.rs) and the server's lifetime (main.rs).  *)
(*                                                                         *)
(* A blocking task, once spawned, runs to its end whether or not the       *)
(* handler that awaits it is still there.                                  *)
(***************************************************************************)
EXTENDS Workload, Naturals

CONSTANTS
    QuotaOn,       \* BOOLEAN: trusted.quota is configured
    Disconnects    \* BOOLEAN: clients may disconnect

ASSUME ExecutionAssumption == QuotaOn \in BOOLEAN /\ Disconnects \in BOOLEAN

VARIABLES
    tasks,       \* job -> its blocking task: "none", "running" or an outcome
    counters,    \* Metrics: the outcome counters and the latency count
    emitted,     \* job -> the events recorded for it, by kind
    server       \* "serving", "draining" or "stopped"

executionVars == <<tasks, counters, emitted, server>>

Outcomes == {"success", "engine_error", "panic"}
Counters == {"success", "engine_error", "rejected",
             "overload_global", "overload_partition", "executions"}
EventKinds == {"usage", "allowed", "denied"}

ExecutionInit ==
    /\ tasks = [j \in Jobs |-> "none"]
    /\ counters = [c \in Counters |-> 0]
    /\ emitted = [j \in Jobs |-> [e \in EventKinds |-> 0]]
    /\ server = "serving"

\* The fetch_add of Metrics::record_*.
Count(c) == counters' = [counters EXCEPT ![c] = @ + 1]

\* Sink::record called for an event of kind e.
Emit(j, e) == emitted' = [emitted EXCEPT ![j][e] = @ + 1]

\* task::spawn_blocking
SpawnTask(j) == tasks' = [tasks EXCEPT ![j] = "running"]

\* The closure ends: the engine's Ok or Err, or it unwinds into a JoinError.
TaskEnds(j) ==
    /\ tasks[j] = "running"
    /\ \E o \in Outcomes : tasks' = [tasks EXCEPT ![j] = o]
    /\ UNCHANGED <<counters, emitted, server>>

\* The await on the JoinHandle is ready.
TaskJoined(j) == tasks[j] \in Outcomes

\* record_success, or record_engine_error; a panic is EngineError::Internal.
CountOutcome(j) == Count(IF tasks[j] = "success" THEN "success" ELSE "engine_error")

\* SIGTERM: axum stops accepting and drains.
SignalShutdown ==
    /\ server = "serving"
    /\ server' = "draining"
    /\ UNCHANGED <<tasks, counters, emitted>>

RunningTasks == {j \in Jobs : tasks[j] = "running"}

ExecutionTypeOK ==
    /\ tasks \in [Jobs -> {"none", "running"} \cup Outcomes]
    /\ counters \in [Counters -> Nat]
    /\ emitted \in [Jobs -> [EventKinds -> Nat]]
    /\ server \in {"serving", "draining", "stopped"}
=============================================================================
