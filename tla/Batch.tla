-------------------------------- MODULE Batch --------------------------------
(***************************************************************************)
(* POST /batch: run_batch and its fan-out (runlet/src/handler/batch.rs),   *)
(* the per-item pipeline (batch_items.rs) and the before/after phases      *)
(* (lifecycle.rs).                                                         *)
(*                                                                         *)
(* Every item is a task of its own, spawned into a JoinSet; the two phases *)
(* run inside the batch's handler.  A job (an item or a phase) goes        *)
(* through the same steps; only an item passes the batch's own gate.  The  *)
(* checks a job makes on its own input, between which it never awaits when *)
(* they pass, are one step.                                                *)
(***************************************************************************)
EXTENDS TenantQuota, Bulkhead, Execution

CONSTANTS
    Batches,      \* the /batch requests
    Items,        \* the items of all batches: jobs
    Befores,      \* the before phases: jobs
    Afters,       \* the after phases: jobs
    BatchOf       \* item or phase -> its batch

ASSUME BatchAssumption ==
    /\ IsFiniteSet(Batches)
    /\ Items \cup Befores \cup Afters \subseteq Jobs
    /\ Items \cap (Befores \cup Afters) = {} /\ Befores \cap Afters = {}
    /\ \A j \in Items \cup Befores \cup Afters : BatchOf[j] \in Batches
    /\ \A b \in Batches : Cardinality({j \in Befores : BatchOf[j] = b}) <= 1
    /\ \A b \in Batches : Cardinality({j \in Afters : BatchOf[j] = b}) <= 1

VARIABLES
    bpc,              \* batch -> the step of run_batch it is at
    jpc,              \* job -> the step of its pipeline it is at
    result,           \* job -> "none", "ok" or "failed": RenderedItem.ok
    gate_available,   \* batch -> permits left in its fan-out gate
    gate_permits,     \* the items that hold a slot of their batch's gate
    batch_audits      \* batch -> denied events emitted for the batch itself

gateVars == <<gate_available, gate_permits>>
batchVars == <<bpc, jpc, result, gateVars, batch_audits>>

BatchJobs == Items \cup Befores \cup Afters
ItemsOf(b) == {j \in Items : BatchOf[j] = b}
BeforeOf(b) == {j \in Befores : BatchOf[j] = b}
AfterOf(b) == {j \in Afters : BatchOf[j] = b}

\* batch_ceiling
Ceiling ==
    LET share == IF MaxPerPartition > 0 THEN MaxPerPartition ELSE MaxConcurrent
        capped == IF share < MaxConcurrent THEN share ELSE MaxConcurrent
    IN  IF capped > 1 THEN capped ELSE 1

BatchSteps == {"idle", "gates", "denied_first", "denied_after", "before", "before_run",
               "shared", "fan_out", "items", "after", "after_run", "done", "gone"}
JobSteps == {"idle", "check", "quota", "session", "gate", "global", "queued", "exec",
             "emit_usage", "emit_audit", "denied", "rendered", "gone"}

BatchInit ==
    /\ bpc = [b \in Batches |-> "idle"]
    /\ jpc = [j \in BatchJobs |-> "idle"]
    /\ result = [j \in BatchJobs |-> "none"]
    /\ gate_available = [b \in Batches |-> Ceiling]
    /\ gate_permits = {}
    /\ batch_audits = [b \in Batches |-> 0]

BatchGoto(b, step) == bpc' = [bpc EXCEPT ![b] = step]
JobGoto(j, step) == jpc' = [jpc EXCEPT ![j] = step]

-----------------------------------------------------------------------------
(* run_batch                                                               *)

BatchArrives(b) ==
    /\ bpc[b] = "idle" /\ server = "serving"
    /\ BatchGoto(b, "gates")
    /\ UNCHANGED <<jpc, result, gateVars, batch_audits, quotaVars, bulkheadVars,
                   executionVars>>

\* enforce_auth, resolve_identity, the extractor and validate_batch, which
\* refuses a batch without items: a 401 is recorded and returned; a bad body is
\* recorded before its event is emitted, an identity or a cap after.
BatchGates(b) ==
    /\ bpc[b] = "gates"
    /\ \/ ItemsOf(b) # {} /\ BatchGoto(b, "before") /\ UNCHANGED counters
       \/ BatchGoto(b, "done") /\ Count("rejected")
       \/ BatchGoto(b, "denied_first") /\ Count("rejected")
       \/ BatchGoto(b, "denied_after") /\ UNCHANGED counters
    /\ UNCHANGED <<jpc, result, gateVars, batch_audits, quotaVars, bulkheadVars,
                   tasks, emitted, server>>

\* emit_denied for the batch, then the record of the gates that record after.
BatchDenied(b) ==
    /\ \/ bpc[b] = "denied_first" /\ UNCHANGED counters
       \/ bpc[b] = "denied_after" /\ Count("rejected")
    /\ batch_audits' = [batch_audits EXCEPT ![b] = @ + 1]
    /\ BatchGoto(b, "done")
    /\ UNCHANGED <<jpc, result, gateVars, quotaVars, bulkheadVars, tasks, emitted, server>>

\* run_before_phase, up to its await: start the phase if there is one.
StartBefore(b) ==
    /\ bpc[b] = "before"
    /\ jpc' = [j \in BatchJobs |-> IF j \in BeforeOf(b) THEN "check" ELSE jpc[j]]
    /\ BatchGoto(b, IF BeforeOf(b) = {} THEN "shared" ELSE "before_run")
    /\ UNCHANGED <<result, gateVars, batch_audits, quotaVars, bulkheadVars, executionVars>>

\* The before phase has ended; its failure is the answer of the batch.
BeforeEnds(b) ==
    /\ bpc[b] = "before_run"
    /\ \E j \in BeforeOf(b) :
          /\ jpc[j] = "rendered"
          /\ IF result[j] = "ok" THEN BatchGoto(b, "shared") /\ UNCHANGED counters
                                 ELSE BatchGoto(b, "done") /\ Count("rejected")
    /\ UNCHANGED <<jpc, result, gateVars, batch_audits, quotaVars, bulkheadVars,
                   tasks, emitted, server>>

\* The shared context may exceed max_shared_bytes.
CheckShared(b) ==
    /\ bpc[b] = "shared"
    /\ BatchGoto(b, "fan_out") \/ BatchGoto(b, "denied_after")
    /\ UNCHANGED <<jpc, result, gateVars, batch_audits, quotaVars, bulkheadVars,
                   executionVars>>

\* fan_out_items: a fresh gate, and a task per item.
FanOut(b) ==
    /\ bpc[b] = "fan_out"
    /\ gate_available' = [gate_available EXCEPT ![b] = Ceiling]
    /\ jpc' = [j \in BatchJobs |-> IF j \in ItemsOf(b) THEN "check" ELSE jpc[j]]
    /\ BatchGoto(b, "items")
    /\ UNCHANGED <<result, gate_permits, batch_audits, quotaVars, bulkheadVars,
                   executionVars>>

\* Mutant: the first finished item ends the wait.
CollectFirst(b) ==
    /\ bpc[b] = "items"
    /\ \E j \in ItemsOf(b) : jpc[j] = "rendered"
    /\ BatchGoto(b, "after")
    /\ UNCHANGED <<jpc, result, gateVars, batch_audits, quotaVars, bulkheadVars,
                   executionVars>>

\* join_next has returned every item; render_slots runs.
Collect(b) ==
    /\ bpc[b] = "items"
    /\ \A j \in ItemsOf(b) : jpc[j] = "rendered"
    /\ BatchGoto(b, "after")
    /\ UNCHANGED <<jpc, result, gateVars, batch_audits, quotaVars, bulkheadVars,
                   executionVars>>

\* run_after_phase, up to its await; a context that is not an object, like no
\* phase at all, ends the batch without running anything.
StartAfter(b) ==
    /\ bpc[b] = "after"
    /\ \/ /\ AfterOf(b) # {}
          /\ jpc' = [j \in BatchJobs |-> IF j \in AfterOf(b) THEN "check" ELSE jpc[j]]
          /\ BatchGoto(b, "after_run")
       \/ BatchGoto(b, "done") /\ UNCHANGED jpc
    /\ UNCHANGED <<result, gateVars, batch_audits, quotaVars, bulkheadVars, executionVars>>

\* The summary or the summary_error: the batch is answered with 200 either way.
AfterEnds(b) ==
    /\ bpc[b] = "after_run"
    /\ \A j \in AfterOf(b) : jpc[j] = "rendered"
    /\ BatchGoto(b, "done")
    /\ UNCHANGED <<jpc, result, gateVars, batch_audits, quotaVars, bulkheadVars,
                   executionVars>>

-----------------------------------------------------------------------------
(* run_batch_item and run_lifecycle_phase                                  *)

\* The task of an item whose JoinSet was dropped is aborted at its next await.
Alive(j) == bpc[BatchOf[j]] # "gone"

\* resolve_script, the input sizes, the shared context, batch_item_authz.
CheckJob(j) ==
    /\ jpc[j] = "check"
    /\ JobGoto(j, "quota") \/ JobGoto(j, "denied")
    /\ UNCHANGED <<bpc, result, gateVars, batch_audits, quotaVars, bulkheadVars,
                   executionVars>>

\* batch_item_quota
JobQuota(j) ==
    /\ jpc[j] = "quota"
    /\ IF Trusted /\ QuotaOn
       THEN \/ QuotaAdmit(j) /\ JobGoto(j, "session")
            \/ QuotaRefused(j) /\ JobGoto(j, "denied")
       ELSE JobGoto(j, "session") /\ UNCHANGED quotaVars
    /\ UNCHANGED <<bpc, result, gateVars, batch_audits, bulkheadVars, executionVars>>

\* connect_session, for a job that names a resource of the broker.
JobSession(j) ==
    /\ jpc[j] = "session" /\ Alive(j)
    /\ \/ JobGoto(j, IF j \in Items THEN "gate" ELSE "global")
       \/ JobGoto(j, "denied")
    /\ UNCHANGED <<bpc, result, gateVars, batch_audits, quotaVars, bulkheadVars,
                   executionVars>>

\* gate.acquire_owned: wait for a slot of the batch's own gate.
JobGate(j) ==
    /\ jpc[j] = "gate" /\ Alive(j)
    /\ gate_available[BatchOf[j]] > 0
    /\ gate_available' = [gate_available EXCEPT ![BatchOf[j]] = @ - 1]
    /\ gate_permits' = gate_permits \cup {j}
    /\ JobGoto(j, "global")
    /\ UNCHANGED <<bpc, result, batch_audits, quotaVars, bulkheadVars, executionVars>>

\* limiter.acquire_owned: a permit and the blocking task, or a place in the
\* queue.
JobGlobal(j) ==
    /\ jpc[j] = "global" /\ Alive(j)
    /\ \/ TryGlobal(j) /\ SpawnTask(j) /\ JobGoto(j, "exec")
       \/ QueueGlobal(j) /\ JobGoto(j, "queued") /\ UNCHANGED tasks
    /\ UNCHANGED <<bpc, result, gateVars, batch_audits, quotaVars, bucketVars,
                   counters, emitted, server>>

\* A queued job was handed a permit.
JobServed(j) ==
    /\ jpc[j] = "queued" /\ Alive(j)
    /\ j \in permits
    /\ SpawnTask(j) /\ JobGoto(j, "exec")
    /\ UNCHANGED <<bpc, result, gateVars, batch_audits, quotaVars, bulkheadVars,
                   counters, emitted, server>>

RunJobTask(j) == TaskEnds(j) /\ UNCHANGED <<batchVars, quotaVars, bulkheadVars>>

\* The task is joined; render_executed_item observes its latency.
JobJoined(j) ==
    /\ jpc[j] = "exec" /\ Alive(j)
    /\ TaskJoined(j)
    /\ Count("executions")
    /\ JobGoto(j, "emit_usage")
    /\ UNCHANGED <<bpc, result, gateVars, batch_audits, quotaVars, bulkheadVars,
                   tasks, emitted, server>>

\* emit_executed, first await.
JobEmitUsage(j) ==
    /\ jpc[j] = "emit_usage" /\ Alive(j)
    /\ Emit(j, "usage")
    /\ JobGoto(j, "emit_audit")
    /\ UNCHANGED <<bpc, result, gateVars, batch_audits, quotaVars, bulkheadVars,
                   tasks, counters, server>>

\* Mutant: the slot of the gate is kept.
JobScopeEndsKeepsSlot(j) ==
    /\ GlobalScopeEnds(j) /\ QuotaScopeEnds(j)
    /\ UNCHANGED <<bucketVars, gateVars>>

\* The end of the job's scope drops its permit, its slot and its guard.
JobScopeEnds(j) ==
    /\ GlobalScopeEnds(j) /\ QuotaScopeEnds(j)
    /\ gate_available' = IF j \in gate_permits
                         THEN [gate_available EXCEPT ![BatchOf[j]] = @ + 1]
                         ELSE gate_available
    /\ gate_permits' = gate_permits \ {j}
    /\ UNCHANGED bucketVars

\* The second event and the outcome counter, with the permits still held; a
\* success whose output does not parse is counted as a success and rendered
\* as a failure.
JobEmitAudit(j) ==
    /\ jpc[j] = "emit_audit" /\ Alive(j)
    /\ Emit(j, "allowed")
    /\ CountOutcome(j)
    /\ \E ok \in BOOLEAN :
          result' = [result EXCEPT ![j] = IF ok /\ tasks[j] = "success" THEN "ok"
                                                                        ELSE "failed"]
    /\ JobScopeEnds(j)
    /\ JobGoto(j, "rendered")
    /\ UNCHANGED <<bpc, batch_audits, tasks, server>>

\* Mutant: a refused job is also counted among the rejected requests.
JobDeniedCounts(j) ==
    /\ jpc[j] = "denied" /\ Alive(j)
    /\ Emit(j, "denied")
    /\ Count("rejected")
    /\ result' = [result EXCEPT ![j] = "failed"]
    /\ JobScopeEnds(j)
    /\ JobGoto(j, "rendered")
    /\ UNCHANGED <<bpc, batch_audits, tasks, server>>

\* emit_denied for a refused job; no counter is touched.
JobDenied(j) ==
    /\ jpc[j] = "denied" /\ Alive(j)
    /\ Emit(j, "denied")
    /\ result' = [result EXCEPT ![j] = "failed"]
    /\ JobScopeEnds(j)
    /\ JobGoto(j, "rendered")
    /\ UNCHANGED <<bpc, batch_audits, tasks, counters, server>>

-----------------------------------------------------------------------------
(* A client that disconnects                                               *)

\* The job is suspended, or it is an item whose task was not polled yet.
JobAwaits(j) ==
    \/ jpc[j] \in {"session", "gate", "global", "queued", "exec", "emit_usage",
                   "emit_audit", "denied"}
    \/ jpc[j] = "check" /\ j \in Items

\* The handler is suspended: in a phase it is where the phase is.
BatchAwaits(b) ==
    \/ bpc[b] \in {"gates", "denied_first", "denied_after", "items"}
    \/ bpc[b] \in {"before_run", "after_run"}
       /\ \E j \in BeforeOf(b) \cup AfterOf(b) : JobAwaits(j)

\* The future of run_batch is dropped, and its JoinSet aborts the items.
BatchDisconnect(b) ==
    /\ Disconnects /\ BatchAwaits(b)
    /\ BatchGoto(b, "gone")
    /\ UNCHANGED <<jpc, result, gateVars, batch_audits, quotaVars, bulkheadVars,
                   executionVars>>

\* A job of a dropped batch is dropped at its await with what it holds.
AbortJob(j) ==
    /\ ~Alive(j) /\ JobAwaits(j)
    /\ JobScopeEnds(j)
    /\ JobGoto(j, "gone")
    /\ UNCHANGED <<bpc, result, batch_audits, executionVars>>

-----------------------------------------------------------------------------

BatchHandler(b) ==
    \/ BatchGates(b) \/ BatchDenied(b) \/ StartBefore(b) \/ BeforeEnds(b)
    \/ CheckShared(b) \/ FanOut(b) \/ Collect(b) \/ StartAfter(b) \/ AfterEnds(b)

JobStep(j) ==
    \/ CheckJob(j) \/ JobQuota(j) \/ JobSession(j) \/ JobGate(j) \/ JobGlobal(j)
    \/ JobServed(j) \/ JobJoined(j) \/ JobEmitUsage(j) \/ JobEmitAudit(j)
    \/ JobDenied(j) \/ AbortJob(j)

BatchStep ==
    \/ \E b \in Batches : BatchArrives(b) \/ BatchHandler(b) \/ BatchDisconnect(b)
    \/ \E j \in BatchJobs : JobStep(j) \/ RunJobTask(j)

BatchFinished(b) == bpc[b] \in {"idle", "done", "gone"}

-----------------------------------------------------------------------------
(* Properties                                                              *)

\* The state of the batches, their jobs, the quota, the bulkhead and the
\* executions is well formed; a gate never has more slots than its ceiling.
BatchTypeOK ==
    /\ bpc \in [Batches -> BatchSteps] /\ jpc \in [BatchJobs -> JobSteps]
    /\ result \in [BatchJobs -> {"none", "ok", "failed"}]
    /\ gate_available \in [Batches -> 0..Ceiling]
    /\ gate_permits \subseteq Items
    /\ batch_audits \in [Batches -> Nat]
    /\ QuotaTypeOK /\ BulkheadTypeOK /\ ExecutionTypeOK

\* batch.rs:295-297: a batch never has more than its ceiling of items past its
\* gate, waiting for or holding a permit of the bulkhead, and its gate neither
\* loses nor invents a slot.
FairShare ==
    \A b \in Batches :
        /\ Cardinality({j \in ItemsOf(b) :
            jpc[j] \in {"global", "queued", "exec", "emit_usage", "emit_audit"}}) <= Ceiling
        /\ gate_available[b] + Cardinality(gate_permits \cap ItemsOf(b)) = Ceiling

\* A job that is finished or aborted holds no permit, slot, guard or place in
\* the queue.
FinishedJobsHoldNothing ==
    \A j \in BatchJobs : jpc[j] \in {"idle", "rendered", "gone"} =>
        j \notin permits \cup gate_permits \cup guards /\ ~Waiting(j)

\* batch.rs:39-50: the before phase is a barrier, without whose success no item
\* is ever started, and the after phase reduces the results of all items, none of
\* which is still running or unanswered when it starts.
PhasesInOrder ==
    \A b \in Batches :
        /\ \A j \in ItemsOf(b), k \in BeforeOf(b) : jpc[j] # "idle" => result[k] = "ok"
        /\ \A j \in ItemsOf(b), k \in AfterOf(b) : jpc[k] # "idle" => result[j] # "none"

\* A batch keeps to its phases and its share: before, items and after do not overlap, and
\* its items never take more of the server than the ceiling (run_batch, run_items).
BatchDiscipline == FairShare /\ PhasesInOrder

\* openspec/specs/batch-execution/spec.md:62-63, one usage and one audit event
\* per item: a job that has run has exactly one of each, a refused one a single
\* denied event, and the batch's own refusals are audited once.
JobEventsMatch ==
    /\ \A j \in BatchJobs : jpc[j] = "rendered" =>
          emitted[j] = [e \in EventKinds |->
             IF (e = "denied") = (tasks[j] = "none") THEN 1 ELSE 0]
    /\ \A b \in Batches : batch_audits[b] <= 1

\* Every batch is answered or its client is gone, although its jobs wait for
\* slots and permits that other jobs hold; and one that is dropped leaves
\* nothing behind: its queued and running jobs give everything back.
BatchesSettle ==
    \A b \in Batches :
        /\ bpc[b] = "gates" ~> bpc[b] \in {"done", "gone"}
        /\ bpc[b] = "gone" ~> \A j \in BatchJobs : BatchOf[j] = b =>
               j \notin permits \cup gate_permits \cup guards /\ ~Waiting(j)

-----------------------------------------------------------------------------
(* Claims of comments and specifications that the code does not meet; the   *)
(* README describes the counterexamples                                     *)

\* metrics.rs:215, "Requests rejected before execution": the rejections never
\* outnumber the batches for which nothing has been executed.
RejectedBeforeExecution ==
    counters["rejected"]
        <= Cardinality({b \in Batches : \A j \in BatchJobs :
                          BatchOf[j] = b => tasks[j] = "none"})

\* openspec/specs/batch-execution/spec.md:60-61, "Each batch item SHALL
\* individually pass ... per-partition fairness": a partition never runs more
\* than its share.
PartitionShare ==
    MaxPerPartition > 0 =>
        \A b \in Buckets :
            Cardinality({j \in RunningTasks : Limited(j) /\ Bucket(j) = b})
                <= MaxPerPartition
=============================================================================
