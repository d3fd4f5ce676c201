------------------------------- MODULE Server -------------------------------
(***************************************************************************)
(* The box serving /execute and /batch at once (build_app and serve in     *)
(* runlet/src/main.rs): both endpoints share the bulkhead, the quota table *)
(* and the counters, and a shutdown waits for the handlers of both.        *)
(***************************************************************************)
EXTENDS Execute, Batch

ASSUME ServerAssumption == Requests \cap BatchJobs = {}

serverVars == <<executeVars, batchVars, quotaVars, bulkheadVars, executionVars>>

ServerInit == Init /\ BatchInit

ServeExecute == ExecuteStep /\ UNCHANGED batchVars

ServeBatch == BatchStep /\ UNCHANGED executeVars

ServerSignal == Signal /\ UNCHANGED batchVars

\* The items of a dropped batch do not keep the server up: their JoinSet was
\* dropped with the handler.
ServerStop ==
    /\ Stop /\ UNCHANGED batchVars
    /\ \A b \in Batches : BatchFinished(b)

ServerNext == ServeExecute \/ ServeBatch \/ ServerSignal \/ ServerStop

ServerSpec == ServerInit /\ [][ServerNext]_serverVars

ServerFairness ==
    /\ WF_serverVars(ServerStop)
    /\ \A r \in Requests :
          /\ WF_serverVars(Handler(r) /\ UNCHANGED batchVars)
          /\ WF_serverVars(RunTask(r) /\ UNCHANGED batchVars)
    /\ \A b \in Batches : WF_serverVars(BatchHandler(b) /\ UNCHANGED executeVars)
    /\ \A j \in BatchJobs :
          /\ WF_serverVars(JobStep(j) /\ UNCHANGED executeVars)
          /\ WF_serverVars(RunJobTask(j) /\ UNCHANGED executeVars)

\* As for each endpoint alone: handlers, items and tasks are scheduled.
ServerFairSpec == ServerSpec /\ ServerFairness

-----------------------------------------------------------------------------
(* Properties                                                              *)

RequestCharged == {"session", "partition", "global", "exec", "drop_partition",
                   "emit_usage", "emit_audit"}
JobCharged == {"session", "gate", "global", "queued", "exec", "emit_usage", "emit_audit"}
JobAdmitted == {"exec", "emit_usage", "emit_audit"}

RequestHoldings(r) ==
    /\ r \in permits <=> pc[r] = "exec"
    /\ ~Waiting(r)
    /\ r \in bucket_permits
          <=> Limited(r) /\ pc[r] \in {"global", "exec", "drop_partition"}
    /\ r \in guards => pc[r] \in RequestCharged \cup {"denied"}
    /\ Trusted /\ QuotaOn /\ pc[r] \in RequestCharged => r \in guards

JobHoldings(j) ==
    /\ jpc[j] \in JobAdmitted => j \in permits
    /\ j \in permits => jpc[j] \in JobAdmitted \cup {"queued"}
    /\ Waiting(j) => jpc[j] = "queued"
    /\ jpc[j] = "queued" => Waiting(j) \/ j \in permits
    /\ j \notin bucket_permits
    /\ jpc[j] = "gate" => j \in Items
    /\ j \in gate_permits <=> j \in Items /\ jpc[j] \in JobAdmitted \cup {"global", "queued"}
    /\ j \in guards => jpc[j] \in JobCharged \cup {"denied"}
    /\ Trusted /\ QuotaOn /\ jpc[j] \in JobCharged => j \in guards

\* What a handler holds follows from the step it is at, on every path into it:
\* both permits and the quota unit from their gate to their drop, and nothing
\* before or after.  A batch is no cheaper than its items (openspec/specs/
\* batch-execution/spec.md:63-64): they are charged like requests, and pass
\* their batch's gate before they may use the bulkhead.
HoldingsMatchStep ==
    /\ \A r \in Requests : RequestHoldings(r)
    /\ \A j \in BatchJobs : JobHoldings(j)

\* A batch item that waits for the bulkhead is never overtaken by an /execute
\* request: no step gives a permit to one while a job is queued.
NoOvertaking ==
    [][\A r \in Requests : r \in permits' \ permits => waiters = <<>>]_serverVars

\* Once both endpoints have answered, /metrics accounts for what they did: every
\* execution counts once with its outcome, a refused request once, and a batch at
\* most once and only if it did not get to its items (record_outcome,
\* record_rejection).
CountersMatchWork ==
    (\A r \in Requests : pc[r] = "done") /\ (\A b \in Batches : bpc[b] = "done") =>
        /\ counters["executions"] = Cardinality({j \in Jobs : tasks[j] # "none"})
        /\ counters["executions"] = counters["success"] + counters["engine_error"]
        /\ OutcomeCount - counters["executions"]
              <= Cardinality({r \in Requests : refused[r] # "none"})
                 + Cardinality({b \in Batches : \A j \in ItemsOf(b) : jpc[j] = "idle"})

\* Counters and events together: what the box did, /metrics counts and the usage
\* and audit streams report.
WorkAccounted == CountersMatchWork /\ JobEventsMatch

\* A shutdown ends: it waits for both kinds of handler, and no permit that an
\* aborted item was handed while it was being dropped keeps the others waiting.
ServerComesToRest ==
    server = "draining" ~>
        server = "stopped" /\ available = MaxConcurrent /\ waiters = <<>> /\ guards = {}
=============================================================================
