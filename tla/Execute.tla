------------------------------- MODULE Execute -------------------------------
(***************************************************************************)
(* POST /execute: run_execute (runlet/src/handler/mod.rs) and its gates    *)
(* (gates.rs), from the edge credential to build_response (telemetry.rs).  *)
(*                                                                         *)
(* One action per gate; a request is preempted only where its handler      *)
(* awaits or touches state other requests share.  What a gate decides from *)
(* the request alone is a free choice here.  A client that disconnects     *)
(* makes the server drop the handler's future at an await: its permits and *)
(* its guard are dropped with it, its blocking task is not.                *)
(***************************************************************************)
EXTENDS TenantQuota, Bulkhead, Execution

CONSTANTS
    Requests,      \* the /execute requests, a subset of Jobs
    TestRuns       \* the requests whose trusted mode header says test

ASSUME ExecuteAssumption ==
    /\ Requests \subseteq Jobs
    /\ TestRuns \subseteq Requests

VARIABLES
    pc,         \* request -> the gate or step its handler is at
    refused     \* request -> the gate that refused it, or "none"

executeVars == <<pc, refused>>
vars == <<executeVars, quotaVars, bulkheadVars, executionVars>>

\* The gates that refuse by a rejection: the handler records it before it
\* emits the audit event, or after.
RecordedFirst == {"body", "resolve", "sizes", "session"}
RecordedAfter == {"identity", "authz", "quota"}
Overloads == {"partition", "global"}

Steps == {"idle", "auth", "identity", "body", "authz", "resolve", "sizes", "quota",
          "session", "partition", "global", "exec", "drop_partition", "denied",
          "emit_usage", "emit_audit", "done", "gone"}

ExecuteInit ==
    /\ pc = [r \in Requests |-> "idle"]
    /\ refused = [r \in Requests |-> "none"]

Init == ExecuteInit /\ QuotaInit /\ BulkheadInit /\ ExecutionInit

Goto(r, step) == pc' = [pc EXCEPT ![r] = step]

\* A gate refuses r: metrics now or after the event, which is emitted next.
Refuse(r, gate) ==
    /\ Goto(r, "denied")
    /\ refused' = [refused EXCEPT ![r] = gate]
    /\ CASE gate \in RecordedFirst -> Count("rejected")
         [] gate = "partition"     -> Count("overload_partition")
         [] gate = "global"        -> Count("overload_global")
         [] OTHER                  -> UNCHANGED counters

\* A gate that looks at the request only.
Gate(r, gate, next) ==
    /\ pc[r] = gate
    /\ \/ Goto(r, next) /\ UNCHANGED <<refused, counters>>
       \/ Refuse(r, gate)
    /\ UNCHANGED <<quotaVars, bulkheadVars, tasks, emitted, server>>

-----------------------------------------------------------------------------

\* axum accepts the connection and calls the handler.
Arrive(r) ==
    /\ pc[r] = "idle"
    /\ server = "serving"
    /\ Goto(r, "auth")
    /\ UNCHANGED <<refused, quotaVars, bulkheadVars, executionVars>>

\* enforce_auth: a 401 is recorded and returned at once, without an event.
EnforceAuth(r) ==
    /\ pc[r] = "auth"
    /\ \/ Goto(r, "identity") /\ UNCHANGED <<refused, counters>>
       \/ /\ Goto(r, "done")
          /\ refused' = [refused EXCEPT ![r] = "auth"]
          /\ Count("rejected")
    /\ UNCHANGED <<quotaVars, bulkheadVars, tasks, emitted, server>>

\* resolve_identity; outside trusted mode there is nothing to refuse.
ResolveIdentity(r) ==
    IF Trusted THEN Gate(r, "identity", "body")
    ELSE /\ pc[r] = "identity"
         /\ Goto(r, "body")
         /\ UNCHANGED <<refused, quotaVars, bulkheadVars, executionVars>>

\* The Json extractor's verdict on the body.
ParseBody(r) == Gate(r, "body", IF Trusted THEN "authz" ELSE "resolve")

\* enforce_member_authz
EnforceMemberAuthz(r) == Gate(r, "authz", "resolve")

\* resolve_script
ResolveScript(r) == Gate(r, "resolve", "sizes")

\* sandbox::validate_input_sizes
ValidateSizes(r) == Gate(r, "sizes", "quota")

\* enforce_quota: a guard, a refusal, or no quota to enforce.
EnforceQuota(r) ==
    /\ pc[r] = "quota"
    /\ IF Trusted /\ QuotaOn
       THEN \/ QuotaAdmit(r) /\ Goto(r, "session") /\ UNCHANGED <<refused, counters>>
            \/ QuotaRefused(r) /\ Refuse(r, "quota")
       ELSE Goto(r, "session") /\ UNCHANGED <<quotaVars, refused, counters>>
    /\ UNCHANGED <<bulkheadVars, tasks, emitted, server>>

\* connect_session, when config.io names a resource of the broker; without
\* one there is no session to fail.
OpenSession(r) == Gate(r, "session", "partition")

\* acquire_permits, first half: the bucket of the partition.
AcquirePartition(r) ==
    /\ pc[r] = "partition"
    /\ \/ TryBucket(r) /\ Goto(r, "global") /\ UNCHANGED <<refused, counters>>
       \/ BucketBusy(r) /\ Refuse(r, "partition") /\ UNCHANGED bucketVars
       \/ ~Limited(r) /\ Goto(r, "global") /\ UNCHANGED <<bucketVars, refused, counters>>
    /\ UNCHANGED <<quotaVars, globalVars, tasks, emitted, server>>

\* Mutant: a saturated bulkhead keeps the bucket permit.
AcquireGlobalKeepsBucket(r) ==
    /\ pc[r] = "global"
    /\ \/ /\ TryGlobal(r)
          /\ SpawnTask(r)
          /\ Goto(r, "exec")
          /\ UNCHANGED <<bucketVars, refused, counters>>
       \/ /\ GlobalBusy
          /\ bucket_permits' = bucket_permits \ {r}
          /\ Refuse(r, "global")
          /\ UNCHANGED <<globalVars, bucket_available, tasks>>
    /\ UNCHANGED <<quotaVars, emitted, server>>

\* acquire_permits, second half: with the global permit the task is spawned;
\* without it acquire_permits returns and drops the bucket permit.
AcquireGlobal(r) ==
    /\ pc[r] = "global"
    /\ \/ /\ TryGlobal(r)
          /\ SpawnTask(r)
          /\ Goto(r, "exec")
          /\ UNCHANGED <<bucketVars, refused, counters>>
       \/ /\ GlobalBusy
          /\ BucketScopeEnds(r)
          /\ Refuse(r, "global")
          /\ UNCHANGED <<globalVars, tasks>>
    /\ UNCHANGED <<quotaVars, emitted, server>>

\* Mutant: the permit is dropped without waiting for the task.
DropGlobalEarly(r) ==
    /\ pc[r] = "exec"
    /\ ReleaseGlobal(r)
    /\ Goto(r, "drop_partition")
    /\ UNCHANGED <<refused, quotaVars, bucketVars, executionVars>>

\* The blocking task is joined and drop(permit) follows.
DropGlobal(r) ==
    /\ pc[r] = "exec"
    /\ TaskJoined(r)
    /\ ReleaseGlobal(r)
    /\ Goto(r, "drop_partition")
    /\ UNCHANGED <<refused, quotaVars, bucketVars, executionVars>>

\* drop(partition_permit), then build_response observes the latency.
DropPartition(r) ==
    /\ pc[r] = "drop_partition"
    /\ BucketScopeEnds(r)
    /\ Count("executions")
    /\ Goto(r, "emit_usage")
    /\ UNCHANGED <<refused, quotaVars, globalVars, tasks, emitted, server>>

\* emit_executed, first await.
EmitUsage(r) ==
    /\ pc[r] = "emit_usage"
    /\ Emit(r, "usage")
    /\ Goto(r, "emit_audit")
    /\ UNCHANGED <<refused, quotaVars, bulkheadVars, tasks, counters, server>>

\* Mutant: the guard is forgotten on the way out.
EmitAuditKeepsGuard(r) ==
    /\ pc[r] = "emit_audit"
    /\ Emit(r, "allowed")
    /\ CountOutcome(r)
    /\ Goto(r, "done")
    /\ UNCHANGED <<refused, quotaVars, bulkheadVars, tasks, server>>

\* emit_executed, second await; the outcome is recorded, the response built
\* and the quota guard dropped at the end of the handler.
EmitAudit(r) ==
    /\ pc[r] = "emit_audit"
    /\ Emit(r, "allowed")
    /\ CountOutcome(r)
    /\ QuotaScopeEnds(r)
    /\ Goto(r, "done")
    /\ UNCHANGED <<refused, bulkheadVars, tasks, server>>

\* Mutant: every refusal is recorded on the way out, recorded before or not.
EmitDeniedRecordsAlways(r) ==
    /\ pc[r] = "denied"
    /\ Emit(r, "denied")
    /\ Count("rejected")
    /\ QuotaScopeEnds(r)
    /\ Goto(r, "done")
    /\ UNCHANGED <<refused, bulkheadVars, tasks, server>>

\* emit_denied, then the record of the gates that record after it; the quota
\* guard of a request refused later is dropped on return.
EmitDenied(r) ==
    /\ pc[r] = "denied"
    /\ Emit(r, "denied")
    /\ IF refused[r] \in RecordedAfter THEN Count("rejected") ELSE UNCHANGED counters
    /\ QuotaScopeEnds(r)
    /\ Goto(r, "done")
    /\ UNCHANGED <<refused, bulkheadVars, tasks, server>>

\* The awaits at which the dropped future of r may be suspended.
Awaits(r) ==
    \/ pc[r] \in {"denied", "session", "exec", "emit_usage", "emit_audit"}
    \/ pc[r] = "identity" /\ Trusted

\* Mutant: the future is dropped but its permits are not.
DisconnectLeaks(r) ==
    /\ Disconnects /\ Awaits(r)
    /\ QuotaScopeEnds(r)
    /\ Goto(r, "gone")
    /\ UNCHANGED <<refused, bulkheadVars, executionVars>>

\* The client goes away: the connection's future, and the handler in it, is
\* dropped with everything it holds.
Disconnect(r) ==
    /\ Disconnects /\ Awaits(r)
    /\ GlobalScopeEnds(r) /\ BucketScopeEnds(r) /\ QuotaScopeEnds(r)
    /\ Goto(r, "gone")
    /\ UNCHANGED <<refused, executionVars>>

\* The blocking thread's side of r.
RunTask(r) ==
    /\ TaskEnds(r)
    /\ UNCHANGED <<executeVars, quotaVars, bulkheadVars>>

\* SIGTERM or Ctrl+C.
Signal ==
    /\ SignalShutdown
    /\ UNCHANGED <<executeVars, quotaVars, bulkheadVars>>

\* axum::serve returns when no handler is left; the host is shut down.
Stop ==
    /\ server = "draining"
    /\ \A r \in Requests : pc[r] \in {"idle", "done", "gone"}
    /\ server' = "stopped"
    /\ UNCHANGED <<executeVars, quotaVars, bulkheadVars, tasks, counters, emitted>>

-----------------------------------------------------------------------------

Handler(r) ==
    \/ EnforceAuth(r) \/ ResolveIdentity(r) \/ ParseBody(r) \/ EnforceMemberAuthz(r)
    \/ ResolveScript(r) \/ ValidateSizes(r) \/ EnforceQuota(r) \/ OpenSession(r)
    \/ AcquirePartition(r) \/ AcquireGlobal(r) \/ DropGlobal(r) \/ DropPartition(r)
    \/ EmitUsage(r) \/ EmitAudit(r) \/ EmitDenied(r)

ExecuteStep ==
    \E r \in Requests : Arrive(r) \/ Handler(r) \/ RunTask(r) \/ Disconnect(r)

Next == Signal \/ Stop \/ ExecuteStep

Spec == Init /\ [][Next]_vars

\* The runtime schedules every handler, each await of which ends (the sink's by
\* its block_timeout, the blocking task's by the engine's deadline), and the
\* shutdown sequence of main goes on.  Two awaits have no timeout of their own,
\* the broker handshake and the final drain: a broker that answers or closes is
\* assumed here (EgressSession shows what happens without it).
FairSpec ==
    /\ Spec
    /\ WF_vars(Stop)
    /\ \A r \in Requests : WF_vars(Handler(r)) /\ WF_vars(RunTask(r))

-----------------------------------------------------------------------------
(* Properties                                                              *)

Left == {r \in Requests : pc[r] \in {"done", "gone"}}

\* The state of the handlers, the quota, the bulkhead and the executions is well
\* formed; a refusal is always one of those run_execute can answer.
TypeOK ==
    /\ pc \in [Requests -> Steps]
    /\ refused \in [Requests -> {"none", "auth"} \cup RecordedFirst \cup RecordedAfter
                                \cup Overloads]
    /\ QuotaTypeOK /\ BulkheadTypeOK /\ ExecutionTypeOK

\* A request that has left, by whatever exit, holds nothing: the permits and
\* the guard are dropped on every early return and on a dropped future.
NothingHeldAfterLeaving == Left \cap (permits \cup bucket_permits \cup guards) = {}

\* A request executes only with everything it needs: both permits and its
\* quota guard are held for as long as its handler awaits the task.
PermitsCoverExecution ==
    \A r \in Requests : pc[r] = "exec" =>
        /\ r \in permits
        /\ Limited(r) => r \in bucket_permits
        /\ Trusted /\ QuotaOn => r \in guards

\* A request refused at a gate has not run, and one that has run was refused by
\* none: no gate is evaluated after the execution and none is skipped.
RefusedNeverRuns == \A r \in Requests : refused[r] # "none" => tasks[r] = "none"

OutcomeCount ==
    counters["success"] + counters["engine_error"] + counters["rejected"]
    + counters["overload_global"] + counters["overload_partition"]

\* Once all have been answered, /metrics accounts for every request exactly
\* once, whichever gate recorded it before or after its event; and none is ever
\* counted twice, not even when its client disconnects between the record and the
\* response.
MetricsBalance ==
    /\ (\A r \in Requests : pc[r] = "done") =>
          /\ OutcomeCount = Cardinality(Requests)
          /\ counters["executions"] = counters["success"] + counters["engine_error"]
    /\ OutcomeCount <= Cardinality({r \in Requests : pc[r] # "idle"})

\* The events of an answered request: usage and an allowed audit for an
\* executed one, a denied audit alone for one refused after authentication.
EventsMatchAnswer ==
    \A r \in Requests : pc[r] = "done" =>
        emitted[r] = [e \in EventKinds |->
            CASE e = "denied" -> IF refused[r] \in {"none", "auth"} THEN 0 ELSE 1
              [] OTHER        -> IF refused[r] = "none" THEN 1 ELSE 0]

\* Counters and events together: each answered request is counted once and
\* reported as what it was.
RequestsAccounted == MetricsBalance /\ EventsMatchAnswer

\* An execution runs without a permit only when its client has gone: the bulkhead
\* bounds every execution a handler awaits, and a stopped server has none.
UncoveredTasksAbandoned ==
    \A r \in RunningTasks \cap Requests :
        pc[r] = "gone" \/ (r \in permits /\ server # "stopped")

\* Every request is answered or its client is gone: no exit of run_execute is
\* missed, and no wait on the task lasts for ever.
RequestsAnswered == \A r \in Requests : pc[r] = "auth" ~> r \in Left

\* A signalled server stops, with all permits and quota units returned.
ServerStops ==
    server = "draining" ~>
        /\ server = "stopped"
        /\ available = MaxConcurrent
        /\ inflight = <<>>

-----------------------------------------------------------------------------
(* Claims of comments and specifications that the code does not meet; the   *)
(* README describes the counterexamples                                     *)

\* types.rs:40-42, "Bulkhead bounding concurrent executions: a permit is held
\* across the blocking execution span".
BulkheadBoundsTasks == Cardinality(RunningTasks) <= MaxConcurrent

\* main.rs:312-313, "axum has drained in-flight requests (so every `host.run`
\* has returned)".
StoppedMeansReturned == server = "stopped" => RunningTasks = {}

\* telemetry.rs:170-171, "Every request that reaches execution produces exactly
\* these two": a request that left after its execution began was metered.
ExecutionsMetered ==
    \A r \in Left : tasks[r] # "none" =>
        emitted[r]["usage"] = 1 /\ emitted[r]["allowed"] = 1

\* events.rs:4, "an `audit` event for every request (allowed, or
\* denied-with-reason at a gate...)": every answered request is audited.
EveryRequestAudited ==
    \A r \in Requests : pc[r] = "done" =>
        emitted[r]["allowed"] + emitted[r]["denied"] = 1

\* identity.rs:15-16, a test run "never enters the live stream / billing /
\* audit".
TestRunsUnbilled == \A r \in TestRuns : emitted[r]["usage"] = 0
=============================================================================
