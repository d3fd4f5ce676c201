---------------------------- MODULE LedgerProofs ----------------------------
(***************************************************************************)
(* What the box reports is what it did: the counters of /metrics and the   *)
(* events of a request, an item or a phase follow from the step it is at.  *)
(* A counter is the size of a set of requests, jobs and batches; one step  *)
(* moves one of them, and the counter with it.  A dropped handler forgets  *)
(* whether its latency was observed: that counter has a lower and an upper *)
(* bound, which meet when nobody has disconnected.                         *)
(***************************************************************************)
EXTENDS Server, FiniteSetTheorems, TLAPS

\* Any set of jobs is finite.
LEMMA SomeJobsFinite ==
    ASSUME NEW S, S \subseteq Jobs PROVE IsFiniteSet(S) /\ Cardinality(S) \in Nat
  BY FS_Subset, FS_CardinalityType, WorkloadAssumption DEF WorkloadAssumption

Began == {"exec", "drop_partition", "emit_usage", "emit_audit"}
Answered == {"none", "auth"} \cup RecordedFirst \cup RecordedAfter \cup Overloads

\* A request that was executed and answered.
IsConcluded(r) == pc[r] = "done" /\ refused[r] = "none"
\* A request whose refusal is on record.
IsRejected(r) ==
    \/ refused[r] \in {"auth"} \cup RecordedFirst \cup Overloads
    \/ refused[r] \in RecordedAfter /\ pc[r] = "done"
\* A request whose latency was observed, and one of which it may have been.
IsObserved(r) == pc[r] \in {"emit_usage", "emit_audit"} \/ IsConcluded(r)
MayBeObserved(r) == IsObserved(r) \/ pc[r] = "gone"

\* The refusal, the task and the events of a request at its step.
RequestLedger(r) ==
    /\ refused[r] \in Answered
    /\ refused[r] # "none" => pc[r] \in {"denied", "done", "gone"} /\ tasks[r] = "none"
    /\ pc[r] = "denied" => refused[r] \notin {"none", "auth"}
    /\ tasks[r] # "none" => pc[r] \in Began \cup {"done", "gone"}
    /\ pc[r] \in Began \/ IsConcluded(r) => tasks[r] # "none"
    /\ tasks[r] = "running" => pc[r] \in {"exec", "gone"}
    /\ pc[r] # "gone" =>
          /\ emitted[r]["usage"] = IF pc[r] = "emit_audit" \/ IsConcluded(r) THEN 1 ELSE 0
          /\ emitted[r]["allowed"] = IF IsConcluded(r) THEN 1 ELSE 0
          /\ emitted[r]["denied"] =
                IF pc[r] = "done" /\ refused[r] \notin {"none", "auth"} THEN 1 ELSE 0

Concluded == {r \in Requests : IsConcluded(r)}
Rejected == {r \in Requests : IsRejected(r)}
Observed == {r \in Requests : IsObserved(r)}
PerhapsObserved == {r \in Requests : MayBeObserved(r)}

OutcomesCounted == counters["success"] + counters["engine_error"]
RefusalsCounted ==
    counters["rejected"] + counters["overload_global"] + counters["overload_partition"]

ExecuteLedger ==
    /\ pc \in [Requests -> Steps] /\ refused \in [Requests -> Answered]
    /\ ExecutionTypeOK
    /\ \A r \in Requests : RequestLedger(r)
    /\ server = "stopped" => \A r \in Requests : pc[r] \in {"idle", "done", "gone"}

ExecuteTally ==
    /\ OutcomesCounted = Cardinality(Concluded)
    /\ RefusalsCounted = Cardinality(Rejected)
    /\ Cardinality(Observed) <= counters["executions"]
    /\ counters["executions"] <= Cardinality(PerhapsObserved)

-----------------------------------------------------------------------------
(* A step of a request                                                     *)

\* What a step of r does to the counters, and to r: nothing that counts, or it
\* is observed, concluded or rejected, and the counter moves with it.
RequestCounted(r) ==
    \/ /\ counters' = counters
       /\ IsConcluded(r)' <=> IsConcluded(r)
       /\ IsRejected(r)' <=> IsRejected(r)
       /\ IsObserved(r)' => IsObserved(r)
       /\ MayBeObserved(r) => MayBeObserved(r)'
    \/ /\ counters' = [counters EXCEPT !["executions"] = @ + 1]
       /\ ~IsConcluded(r) /\ ~IsConcluded(r)' /\ ~IsRejected(r) /\ ~IsRejected(r)'
       /\ ~MayBeObserved(r) /\ IsObserved(r)'
    \/ /\ \E c \in {"success", "engine_error"} : counters' = [counters EXCEPT ![c] = @ + 1]
       /\ ~IsConcluded(r) /\ IsConcluded(r)' /\ ~IsRejected(r) /\ ~IsRejected(r)'
       /\ IsObserved(r) /\ IsObserved(r)'
    \/ /\ \E c \in {"rejected", "overload_global", "overload_partition"} :
             counters' = [counters EXCEPT ![c] = @ + 1]
       /\ ~IsRejected(r) /\ IsRejected(r)' /\ ~IsConcluded(r) /\ ~IsConcluded(r)'
       /\ ~MayBeObserved(r) /\ ~MayBeObserved(r)'

\* Only r moves.
RequestAlone(r) ==
    /\ pc' \in [Requests -> Steps] /\ refused' \in [Requests -> Answered]
    /\ ExecutionTypeOK'
    /\ \A q \in Requests : q # r => pc'[q] = pc[q] /\ refused'[q] = refused[q]
    /\ \A k \in Jobs : k # r => tasks'[k] = tasks[k] /\ emitted'[k] = emitted[k]

\* The gates that look at the request only.
LEMMA GateLedger ==
    ASSUME ExecuteLedger, NEW r \in Requests, NEW gate, NEW next,
           gate \in RecordedFirst \cup RecordedAfter,
           next \in {"body", "authz", "resolve", "sizes", "quota", "partition"},
           pc[r] = gate,
           \/ Goto(r, next) /\ UNCHANGED <<refused, counters>>
           \/ Refuse(r, gate),
           UNCHANGED <<tasks, emitted, server>>
    PROVE  RequestAlone(r) /\ RequestLedger(r)' /\ RequestCounted(r)
<1> USE DEF Began, Answered, RecordedFirst, RecordedAfter, Overloads, IsConcluded,
            IsRejected, IsObserved, MayBeObserved
<1>0. /\ pc \in [Requests -> Steps] /\ refused \in [Requests -> Answered] /\ ExecutionTypeOK
      /\ RequestLedger(r) /\ r \in Jobs
  BY ExecuteAssumption DEF ExecuteLedger, ExecuteAssumption
<1>1. counters \in [Counters -> Nat]
  BY <1>0 DEF ExecutionTypeOK
<1>2. CASE Goto(r, next) /\ UNCHANGED <<refused, counters>>
  <2>1. RequestAlone(r)
    BY <1>0, <1>2 DEF Goto, RequestAlone, ExecutionTypeOK, Steps
  <2> QED
    BY <1>0, <1>2, <2>1 DEF Goto, RequestLedger, RequestCounted
<1>3. CASE Refuse(r, gate)
  <2>1. pc' = [pc EXCEPT ![r] = "denied"] /\ refused' = [refused EXCEPT ![r] = gate]
    BY <1>3 DEF Refuse, Goto
  <2>2. \/ gate \in RecordedFirst /\ counters' = [counters EXCEPT !["rejected"] = @ + 1]
        \/ gate \in RecordedAfter /\ counters' = counters
    BY <1>3 DEF Refuse, Count
  <2>3. counters' \in [Counters -> Nat]
    BY <1>1, <2>2 DEF Counters
  <2>4. RequestAlone(r)
    BY <1>0, <2>1, <2>3 DEF RequestAlone, ExecutionTypeOK, Steps
  <2>5. RequestLedger(r)'
    BY <1>0, <2>1 DEF RequestLedger
  <2>6. RequestCounted(r)
    BY <1>0, <2>1, <2>2 DEF RequestLedger, RequestCounted
  <2> QED
    BY <2>4, <2>5, <2>6
<1> QED
  BY <1>2, <1>3

\* Sink::record adds one event of its kind to its job's.
LEMMA Emitted ==
    ASSUME emitted \in [Jobs -> [EventKinds -> Nat]], NEW j \in Jobs, NEW e \in EventKinds,
           Emit(j, e)
    PROVE  /\ emitted' \in [Jobs -> [EventKinds -> Nat]]
           /\ \A k \in Jobs : k # j => emitted'[k] = emitted[k]
           /\ \A f \in EventKinds :
                 emitted'[j][f] = IF f = e THEN emitted[j][f] + 1 ELSE emitted[j][f]
<1>1. emitted' = [emitted EXCEPT ![j] = [emitted[j] EXCEPT ![e] = emitted[j][e] + 1]]
  BY DEF Emit
<1>2. [emitted[j] EXCEPT ![e] = emitted[j][e] + 1] \in [EventKinds -> Nat]
  OBVIOUS
<1> QED
  BY <1>1, <1>2

\* Every step of a request moves it alone, and keeps its books.
LEMMA RequestStepLedger ==
    ASSUME ExecuteLedger, NEW r \in Requests, Arrive(r) \/ Handler(r) \/ RunTask(r) \/ Disconnect(r)
    PROVE  /\ RequestAlone(r) /\ RequestLedger(r)' /\ RequestCounted(r)
           /\ server' = server /\ (server = "stopped" => pc'[r] \in {"idle", "done", "gone"})
<1> USE DEF Began, Answered, RecordedFirst, RecordedAfter, Overloads, IsConcluded,
            IsRejected, IsObserved, MayBeObserved, Goto, Count
<1>0. /\ pc \in [Requests -> Steps] /\ refused \in [Requests -> Answered] /\ ExecutionTypeOK
      /\ RequestLedger(r) /\ r \in Jobs
      /\ server = "stopped" => pc[r] \in {"idle", "done", "gone"}
  BY ExecuteAssumption DEF ExecuteLedger, ExecuteAssumption
<1>1. /\ counters \in [Counters -> Nat] /\ emitted \in [Jobs -> [EventKinds -> Nat]]
      /\ tasks \in [Jobs -> {"none", "running"} \cup Outcomes]
  BY <1>0 DEF ExecutionTypeOK
<1>2. CASE ResolveIdentity(r) \/ ParseBody(r) \/ EnforceMemberAuthz(r) \/ ResolveScript(r)
           \/ ValidateSizes(r) \/ OpenSession(r)
  <2>1. PICK gate \in {"identity", "body", "authz", "resolve", "sizes", "session"},
             next \in {"body", "authz", "resolve", "sizes", "quota", "partition"} :
           /\ pc[r] = gate
           /\ \/ Goto(r, next) /\ UNCHANGED <<refused, counters>>
              \/ Refuse(r, gate)
           /\ UNCHANGED <<tasks, emitted, server>>
    BY <1>2 DEF ResolveIdentity, ParseBody, EnforceMemberAuthz, ResolveScript, ValidateSizes,
                OpenSession, Gate, executionVars
  <2>2. RequestAlone(r) /\ RequestLedger(r)' /\ RequestCounted(r)
    BY <2>1, GateLedger, SMTT(30)
  <2> QED
    BY <1>0, <2>1, <2>2, SMTT(30)
<1>3. CASE Arrive(r)
  <2>1. /\ pc' = [pc EXCEPT ![r] = "auth"] /\ pc[r] = "idle"
        /\ UNCHANGED <<refused, tasks, counters, emitted, server>> /\ server = "serving"
    BY <1>3 DEF Arrive, executionVars
  <2>2. RequestAlone(r)
    BY <1>0, <2>1 DEF RequestAlone, ExecutionTypeOK, Steps
  <2> QED
    BY <1>0, <2>1, <2>2 DEF RequestLedger, RequestCounted
<1>4. CASE EnforceAuth(r)
  <2>1. CASE pc' = [pc EXCEPT ![r] = "identity"] /\ UNCHANGED <<refused, counters>>
    <3>1. UNCHANGED <<tasks, emitted, server>> /\ pc[r] = "auth"
      BY <1>4 DEF EnforceAuth
    <3>2. RequestAlone(r)
      BY <1>0, <2>1, <3>1, Zenon DEF RequestAlone, ExecutionTypeOK, Steps
    <3> QED
      BY <1>0, <2>1, <3>1, <3>2 DEF RequestLedger, RequestCounted
  <2>2. CASE /\ pc' = [pc EXCEPT ![r] = "done"] /\ refused' = [refused EXCEPT ![r] = "auth"]
             /\ counters' = [counters EXCEPT !["rejected"] = @ + 1]
    <3>1. UNCHANGED <<tasks, emitted, server>> /\ pc[r] = "auth"
      BY <1>4 DEF EnforceAuth
    <3>2. counters' \in [Counters -> Nat]
      BY <1>1, <2>2 DEF Counters
    <3>3. RequestAlone(r)
      BY <1>0, <2>2, <3>1, <3>2, SMTT(30) DEF RequestAlone, ExecutionTypeOK, Steps
    <3> QED
      BY <1>0, <2>2, <3>1, <3>3 DEF RequestLedger, RequestCounted
  <2> QED
    BY <1>4, <2>1, <2>2, SMTT(30) DEF EnforceAuth
<1>5. CASE EnforceQuota(r) \/ AcquirePartition(r) \/ AcquireGlobal(r)
  <2>1. /\ UNCHANGED <<emitted, server>> /\ pc[r] \in {"quota", "partition", "global"}
        /\ \/ /\ \E next \in {"session", "global"} : pc' = [pc EXCEPT ![r] = next]
              /\ UNCHANGED <<refused, counters, tasks>>
           \/ /\ pc' = [pc EXCEPT ![r] = "exec"] /\ tasks' = [tasks EXCEPT ![r] = "running"]
              /\ UNCHANGED <<refused, counters>>
           \/ /\ \E gate \in {"quota", "partition", "global"} : Refuse(r, gate)
              /\ UNCHANGED tasks
    BY <1>5, SMTT(30) DEF EnforceQuota, AcquirePartition, AcquireGlobal, SpawnTask
  <2>2. CASE \/ /\ \E next \in {"session", "global"} : pc' = [pc EXCEPT ![r] = next]
                /\ UNCHANGED <<refused, counters, tasks>>
             \/ /\ pc' = [pc EXCEPT ![r] = "exec"] /\ tasks' = [tasks EXCEPT ![r] = "running"]
                /\ UNCHANGED <<refused, counters>>
    <3>1. RequestAlone(r)
      BY <1>0, <2>1, <2>2, SMTT(30) DEF RequestAlone, ExecutionTypeOK, Steps
    <3> QED
      BY <1>0, <1>1, <2>1, <2>2, <3>1, SMTT(30) DEF RequestLedger, RequestCounted
  <2>3. ASSUME NEW gate \in {"quota", "partition", "global"}, Refuse(r, gate), UNCHANGED tasks
        PROVE  RequestAlone(r) /\ RequestLedger(r)' /\ RequestCounted(r) /\ pc'[r] = "denied"
    <3>1. pc' = [pc EXCEPT ![r] = "denied"] /\ refused' = [refused EXCEPT ![r] = gate]
      BY <2>3 DEF Refuse
    <3>2. \/ gate = "quota" /\ counters' = counters
          \/ gate = "partition" /\ counters' = [counters EXCEPT !["overload_partition"] = @ + 1]
          \/ gate = "global" /\ counters' = [counters EXCEPT !["overload_global"] = @ + 1]
      BY <2>3 DEF Refuse
    <3>3. counters' \in [Counters -> Nat]
      BY <1>1, <3>2 DEF Counters
    <3>4. RequestAlone(r)
      BY <1>0, <2>1, <2>3, <3>1, <3>3, Zenon DEF RequestAlone, ExecutionTypeOK, Steps
    <3>5. RequestLedger(r)'
      BY <1>0, <2>1, <2>3, <3>1, Zenon DEF RequestLedger
    <3>6. RequestCounted(r)
      BY <1>0, <2>1, <3>1, <3>2 DEF RequestLedger, RequestCounted
    <3> QED
      BY <1>0, <3>1, <3>4, <3>5, <3>6
  <2> QED
    BY <1>0, <2>1, <2>2, <2>3
<1>6. CASE DropGlobal(r) \/ DropPartition(r)
  <2>1. UNCHANGED <<refused, tasks, emitted, server>>
    BY <1>6, ZenonT(30) DEF DropGlobal, DropPartition, executionVars
  <2>2. CASE DropGlobal(r)
    <3>1. pc' = [pc EXCEPT ![r] = "drop_partition"] /\ pc[r] = "exec" /\ counters' = counters
          /\ tasks[r] \in Outcomes
      BY <2>2 DEF DropGlobal, executionVars, TaskJoined
    <3>2. RequestAlone(r)
      BY <1>0, <2>1, <3>1, ZenonT(30) DEF RequestAlone, ExecutionTypeOK, Steps
    <3> QED
      BY <1>0, <2>1, <3>1, <3>2 DEF RequestLedger, RequestCounted, Outcomes
  <2>3. CASE DropPartition(r)
    <3>1. /\ pc' = [pc EXCEPT ![r] = "emit_usage"] /\ pc[r] = "drop_partition"
          /\ counters' = [counters EXCEPT !["executions"] = @ + 1]
      BY <2>3 DEF DropPartition
    <3>2. counters' \in [Counters -> Nat]
      BY <1>1, <3>1 DEF Counters
    <3>3. RequestAlone(r)
      BY <1>0, <2>1, <3>1, <3>2 DEF RequestAlone, ExecutionTypeOK, Steps
    <3> QED
      BY <1>0, <2>1, <3>1, <3>3 DEF RequestLedger, RequestCounted
  <2> QED
    BY <1>6, <2>2, <2>3
<1>7. CASE EmitUsage(r)
  <2>1. /\ pc' = [pc EXCEPT ![r] = "emit_audit"] /\ pc[r] = "emit_usage" /\ Emit(r, "usage")
        /\ UNCHANGED <<refused, tasks, counters, server>>
    BY <1>7 DEF EmitUsage
  <2>2. /\ emitted' \in [Jobs -> [EventKinds -> Nat]]
        /\ \A k \in Jobs : k # r => emitted'[k] = emitted[k]
        /\ emitted'[r]["usage"] = emitted[r]["usage"] + 1
        /\ emitted'[r]["allowed"] = emitted[r]["allowed"]
        /\ emitted'[r]["denied"] = emitted[r]["denied"]
    BY <1>0, <1>1, <2>1, Emitted DEF EventKinds
  <2>3. RequestAlone(r)
    BY <1>0, <2>1, <2>2, Zenon DEF RequestAlone, ExecutionTypeOK, Steps
  <2>4. RequestLedger(r)'
    BY <1>0, <2>1, <2>2, SMTT(30) DEF RequestLedger
  <2> QED
    BY <1>0, <2>1, <2>3, <2>4 DEF RequestCounted
<1>8. CASE EmitAudit(r)
  <2>1. /\ pc' = [pc EXCEPT ![r] = "done"] /\ pc[r] = "emit_audit" /\ Emit(r, "allowed")
        /\ \E c \in {"success", "engine_error"} : counters' = [counters EXCEPT ![c] = @ + 1]
        /\ UNCHANGED <<refused, tasks, server>>
    BY <1>8, Zenon DEF EmitAudit, CountOutcome
  <2>2. /\ emitted' \in [Jobs -> [EventKinds -> Nat]]
        /\ \A k \in Jobs : k # r => emitted'[k] = emitted[k]
        /\ emitted'[r]["usage"] = emitted[r]["usage"]
        /\ emitted'[r]["allowed"] = emitted[r]["allowed"] + 1
        /\ emitted'[r]["denied"] = emitted[r]["denied"]
    BY <1>0, <1>1, <2>1, Emitted DEF EventKinds
  <2>3. counters' \in [Counters -> Nat]
    BY <1>1, <2>1 DEF Counters
  <2>4. RequestAlone(r)
    BY <1>0, <2>1, <2>2, <2>3, ZenonT(30) DEF RequestAlone, ExecutionTypeOK, Steps
  <2>5. RequestLedger(r)'
    BY <1>0, <2>1, <2>2, SMTT(30) DEF RequestLedger
  <2>6. RequestCounted(r)
    BY <1>0, <2>1, Zenon DEF RequestCounted, RequestLedger
  <2> QED
    BY <1>0, <2>1, <2>4, <2>5, <2>6
<1>9. CASE EmitDenied(r)
  <2>1. /\ pc' = [pc EXCEPT ![r] = "done"] /\ pc[r] = "denied" /\ Emit(r, "denied")
        /\ IF refused[r] \in RecordedAfter
           THEN counters' = [counters EXCEPT !["rejected"] = @ + 1]
           ELSE counters' = counters
        /\ UNCHANGED <<refused, tasks, server>>
    BY <1>9 DEF EmitDenied
  <2>2. /\ emitted' \in [Jobs -> [EventKinds -> Nat]]
        /\ \A k \in Jobs : k # r => emitted'[k] = emitted[k]
        /\ emitted'[r]["usage"] = emitted[r]["usage"]
        /\ emitted'[r]["allowed"] = emitted[r]["allowed"]
        /\ emitted'[r]["denied"] = emitted[r]["denied"] + 1
    BY <1>0, <1>1, <2>1, Emitted DEF EventKinds
  <2>3. counters' \in [Counters -> Nat]
    BY <1>1, <2>1 DEF Counters
  <2>4. RequestAlone(r)
    BY <1>0, <2>1, <2>2, <2>3, ZenonT(30) DEF RequestAlone, ExecutionTypeOK, Steps
  <2>5. RequestLedger(r)'
    BY <1>0, <2>1, <2>2, SMTT(30) DEF RequestLedger
  <2>6. RequestCounted(r)
    BY <1>0, <2>1, Zenon DEF RequestCounted, RequestLedger
  <2> QED
    BY <1>0, <2>1, <2>4, <2>5, <2>6
<1>10. CASE RunTask(r)
  <2>1. /\ UNCHANGED <<pc, refused, counters, emitted, server>>
        /\ tasks[r] = "running" /\ \E o \in Outcomes : tasks' = [tasks EXCEPT ![r] = o]
    BY <1>10, Zenon DEF RunTask, TaskEnds, executeVars
  <2>2. RequestAlone(r)
    BY <1>0, <2>1, SMTT(30) DEF RequestAlone, ExecutionTypeOK
  <2>3. RequestLedger(r)'
    BY <1>0, <1>1, <2>1 DEF RequestLedger, Outcomes
  <2> QED
    BY <1>0, <2>1, <2>2, <2>3 DEF RequestCounted
<1>11. CASE Disconnect(r)
  <2>1. /\ UNCHANGED <<refused, tasks, counters, emitted, server>>
        /\ pc' = [pc EXCEPT ![r] = "gone"]
        /\ pc[r] \in {"denied", "session", "exec", "emit_usage", "emit_audit", "identity"}
    BY <1>11 DEF Disconnect, executionVars, Awaits
  <2>2. RequestAlone(r)
    BY <1>0, <2>1, Zenon DEF RequestAlone, ExecutionTypeOK, Steps
  <2>3. RequestLedger(r)'
    BY <1>0, <2>1, Zenon DEF RequestLedger
  <2> QED
    BY <1>0, <2>1, <2>2, <2>3, Zenon DEF RequestCounted, RequestLedger
<1> QED
  BY <1>2, <1>3, <1>4, <1>5, <1>6, <1>7, <1>8, <1>9, <1>10, <1>11, SMTT(30) DEF Handler

\* The books of the other requests stay as they are.
LEMMA ExecuteStepLedger ==
    ASSUME ExecuteLedger, NEW r \in Requests, Arrive(r) \/ Handler(r) \/ RunTask(r) \/ Disconnect(r)
    PROVE  ExecuteLedger'
<1>1. /\ RequestAlone(r) /\ RequestLedger(r)'
      /\ server' = server /\ (server = "stopped" => pc'[r] \in {"idle", "done", "gone"})
  BY RequestStepLedger, ZenonT(30)
<1>2. ASSUME NEW q \in Requests, q # r PROVE RequestLedger(q)'
  <2>1. RequestLedger(q) /\ q \in Jobs
    BY ExecuteAssumption, ZenonT(30) DEF ExecuteLedger, ExecuteAssumption
  <2>2. pc'[q] = pc[q] /\ refused'[q] = refused[q] /\ tasks'[q] = tasks[q]
        /\ emitted'[q] = emitted[q]
    BY <1>1, <1>2, <2>1 DEF RequestAlone
  <2> QED
    BY <2>1, <2>2 DEF RequestLedger, IsConcluded
<1> QED
  BY <1>1, <1>2 DEF ExecuteLedger, RequestAlone

\* A set that one element may enter or leave.
LEMMA SetMoves ==
    ASSUME NEW S, NEW T, NEW x, IsFiniteSet(S), \A y : y # x => (y \in S <=> y \in T)
    PROVE  /\ IsFiniteSet(T) /\ Cardinality(S) \in Nat /\ Cardinality(T) \in Nat
           /\ (x \in S <=> x \in T) => Cardinality(T) = Cardinality(S)
           /\ x \notin S /\ x \in T => Cardinality(T) = Cardinality(S) + 1
           /\ x \in S /\ x \notin T => Cardinality(S) = Cardinality(T) + 1
<1>1. CASE x \in S <=> x \in T
  <2>1. S = T
    BY <1>1
  <2> QED
    BY <1>1, <2>1, FS_CardinalityType
<1>2. CASE x \notin S /\ x \in T
  <2>1. T = S \cup {x}
    BY <1>2
  <2> QED
    BY <1>2, <2>1, FS_AddElement, FS_CardinalityType
<1>3. CASE x \in S /\ x \notin T
  <2>1. S = T \cup {x} /\ T \subseteq S
    BY <1>3
  <2>2. IsFiniteSet(T)
    BY <2>1, FS_Subset
  <2> QED
    BY <1>3, <2>1, <2>2, FS_AddElement, FS_CardinalityType
<1> QED
  BY <1>1, <1>2, <1>3

\* Sets of requests are finite.
LEMMA RequestsFinite ==
    ASSUME NEW S, S \subseteq Requests PROVE IsFiniteSet(S) /\ Cardinality(S) \in Nat
  BY SomeJobsFinite, ExecuteAssumption, Zenon DEF ExecuteAssumption

\* The counters a step of a request moves move with the sets of requests.
LEMMA RequestTally ==
    ASSUME ExecuteLedger, NEW r \in Requests, Arrive(r) \/ Handler(r) \/ RunTask(r) \/ Disconnect(r)
    PROVE  /\ OutcomesCounted' + Cardinality(Concluded) = OutcomesCounted + Cardinality(Concluded')
           /\ RefusalsCounted' + Cardinality(Rejected) = RefusalsCounted + Cardinality(Rejected')
           /\ counters'["executions"] + Cardinality(Observed)
                 >= counters["executions"] + Cardinality(Observed')
           /\ counters'["executions"] + Cardinality(PerhapsObserved)
                 <= counters["executions"] + Cardinality(PerhapsObserved')
<1>1. RequestAlone(r) /\ RequestCounted(r) /\ counters \in [Counters -> Nat]
  BY RequestStepLedger DEF ExecuteLedger, ExecutionTypeOK
<1>2. \A q \in Requests : q # r =>
         /\ IsConcluded(q)' <=> IsConcluded(q)
         /\ IsRejected(q)' <=> IsRejected(q)
         /\ IsObserved(q)' <=> IsObserved(q)
         /\ MayBeObserved(q)' <=> MayBeObserved(q)
  BY <1>1, Zenon DEF RequestAlone, IsConcluded, IsRejected, IsObserved, MayBeObserved
<1>3. PICK c \in Nat, c1 \in Nat : 
         /\ c = Cardinality(Concluded) /\ c1 = Cardinality(Concluded')
         /\ (IsConcluded(r)' <=> IsConcluded(r)) => c1 = c
         /\ ~IsConcluded(r) /\ IsConcluded(r)' => c1 = c + 1
  <2>1. IsFiniteSet(Concluded) /\ \A q : q # r => (q \in Concluded <=> q \in Concluded')
    BY <1>2, RequestsFinite DEF Concluded
  <2>2. (r \in Concluded <=> IsConcluded(r)) /\ (r \in Concluded' <=> IsConcluded(r)')
    BY DEF Concluded
  <2>3. /\ Cardinality(Concluded) \in Nat /\ Cardinality(Concluded') \in Nat
        /\ (r \in Concluded <=> r \in Concluded') => Cardinality(Concluded') = Cardinality(Concluded)
        /\ r \notin Concluded /\ r \in Concluded' => Cardinality(Concluded') = Cardinality(Concluded) + 1
        /\ r \in Concluded /\ r \notin Concluded' => Cardinality(Concluded) = Cardinality(Concluded') + 1
    BY <2>1, SetMoves
  <2> QED
    BY <2>2, <2>3
<1>4. PICK n \in Nat, n1 \in Nat : 
         /\ n = Cardinality(Rejected) /\ n1 = Cardinality(Rejected')
         /\ (IsRejected(r)' <=> IsRejected(r)) => n1 = n
         /\ ~IsRejected(r) /\ IsRejected(r)' => n1 = n + 1
  <2>1. IsFiniteSet(Rejected) /\ \A q : q # r => (q \in Rejected <=> q \in Rejected')
    BY <1>2, RequestsFinite DEF Rejected
  <2>2. (r \in Rejected <=> IsRejected(r)) /\ (r \in Rejected' <=> IsRejected(r)')
    BY DEF Rejected
  <2>3. /\ Cardinality(Rejected) \in Nat /\ Cardinality(Rejected') \in Nat
        /\ (r \in Rejected <=> r \in Rejected') => Cardinality(Rejected') = Cardinality(Rejected)
        /\ r \notin Rejected /\ r \in Rejected' => Cardinality(Rejected') = Cardinality(Rejected) + 1
        /\ r \in Rejected /\ r \notin Rejected' => Cardinality(Rejected) = Cardinality(Rejected') + 1
    BY <2>1, SetMoves
  <2> QED
    BY <2>2, <2>3
<1>5. PICK o \in Nat, o1 \in Nat : 
         /\ o = Cardinality(Observed) /\ o1 = Cardinality(Observed')
         /\ (IsObserved(r)' => IsObserved(r)) => o1 <= o
         /\ o1 <= o + 1
  <2>1. IsFiniteSet(Observed) /\ \A q : q # r => (q \in Observed <=> q \in Observed')
    BY <1>2, RequestsFinite DEF Observed
  <2>2. (r \in Observed <=> IsObserved(r)) /\ (r \in Observed' <=> IsObserved(r)')
    BY DEF Observed
  <2>3. /\ Cardinality(Observed) \in Nat /\ Cardinality(Observed') \in Nat
        /\ (r \in Observed <=> r \in Observed') => Cardinality(Observed') = Cardinality(Observed)
        /\ r \notin Observed /\ r \in Observed' => Cardinality(Observed') = Cardinality(Observed) + 1
        /\ r \in Observed /\ r \notin Observed' => Cardinality(Observed) = Cardinality(Observed') + 1
    BY <2>1, SetMoves
  <2> QED
    BY <2>2, <2>3
<1>6. PICK p \in Nat, p1 \in Nat : 
         /\ p = Cardinality(PerhapsObserved) /\ p1 = Cardinality(PerhapsObserved')
         /\ (MayBeObserved(r) => MayBeObserved(r)') => p1 >= p
         /\ ~MayBeObserved(r) /\ MayBeObserved(r)' => p1 = p + 1
  <2>1. /\ IsFiniteSet(PerhapsObserved)
        /\ \A q : q # r => (q \in PerhapsObserved <=> q \in PerhapsObserved')
    BY <1>2, RequestsFinite DEF PerhapsObserved
  <2>2. (r \in PerhapsObserved <=> MayBeObserved(r)) /\ (r \in PerhapsObserved' <=> MayBeObserved(r)')
    BY DEF PerhapsObserved
  <2>3. /\ Cardinality(PerhapsObserved) \in Nat /\ Cardinality(PerhapsObserved') \in Nat
        /\ (r \in PerhapsObserved <=> r \in PerhapsObserved') => Cardinality(PerhapsObserved') = Cardinality(PerhapsObserved)
        /\ r \notin PerhapsObserved /\ r \in PerhapsObserved' => Cardinality(PerhapsObserved') = Cardinality(PerhapsObserved) + 1
        /\ r \in PerhapsObserved /\ r \notin PerhapsObserved' => Cardinality(PerhapsObserved) = Cardinality(PerhapsObserved') + 1
    BY <2>1, SetMoves
  <2> QED
    BY <2>2, <2>3
<1>7. /\ counters["success"] \in Nat /\ counters["engine_error"] \in Nat
      /\ counters["rejected"] \in Nat /\ counters["overload_global"] \in Nat
      /\ counters["overload_partition"] \in Nat /\ counters["executions"] \in Nat
  BY <1>1 DEF Counters
<1>8. IsObserved(r)' => MayBeObserved(r)'
  BY Zenon DEF MayBeObserved
<1>9. CASE /\ counters' = counters
           /\ IsConcluded(r)' <=> IsConcluded(r)
           /\ IsRejected(r)' <=> IsRejected(r)
           /\ IsObserved(r)' => IsObserved(r)
           /\ MayBeObserved(r) => MayBeObserved(r)'
  BY <1>3, <1>4, <1>5, <1>6, <1>7, <1>9, SMTT(30) DEF OutcomesCounted, RefusalsCounted
<1>10. CASE /\ counters' = [counters EXCEPT !["executions"] = @ + 1]
            /\ ~IsConcluded(r) /\ ~IsConcluded(r)' /\ ~IsRejected(r) /\ ~IsRejected(r)'
            /\ ~MayBeObserved(r) /\ IsObserved(r)'
  BY <1>1, <1>3, <1>4, <1>5, <1>6, <1>7, <1>8, <1>10, SMTT(30)
     DEF OutcomesCounted, RefusalsCounted, Counters
<1>11. CASE /\ \E k \in {"success", "engine_error"} : counters' = [counters EXCEPT ![k] = @ + 1]
            /\ ~IsConcluded(r) /\ IsConcluded(r)' /\ ~IsRejected(r) /\ ~IsRejected(r)'
            /\ IsObserved(r) /\ IsObserved(r)'
  BY <1>1, <1>3, <1>4, <1>5, <1>6, <1>7, <1>8, <1>11, SMTT(30)
     DEF OutcomesCounted, RefusalsCounted, Counters, MayBeObserved
<1>12. CASE /\ \E k \in {"rejected", "overload_global", "overload_partition"} :
                  counters' = [counters EXCEPT ![k] = @ + 1]
            /\ ~IsRejected(r) /\ IsRejected(r)' /\ ~IsConcluded(r) /\ ~IsConcluded(r)'
            /\ ~MayBeObserved(r) /\ ~MayBeObserved(r)'
  BY <1>1, <1>3, <1>4, <1>5, <1>6, <1>7, <1>8, <1>12, SMTT(30)
     DEF OutcomesCounted, RefusalsCounted, Counters
<1> QED
  BY <1>1, <1>9, <1>10, <1>11, <1>12 DEF RequestCounted

-----------------------------------------------------------------------------
(* /execute alone                                                          *)

\* Initially nothing is counted, and nobody has been.
LEMMA ExecuteInitLedger == Init => ExecuteLedger /\ ExecuteTally
<1> SUFFICES ASSUME Init PROVE ExecuteLedger /\ ExecuteTally
  OBVIOUS
<1> USE DEF Init, ExecuteInit, ExecutionInit
<1>1. ExecutionTypeOK
  BY DEF ExecutionTypeOK
<1>2. ASSUME NEW r \in Requests PROVE RequestLedger(r)
  BY ExecuteAssumption
     DEF RequestLedger, IsConcluded, Began, Answered, EventKinds, ExecuteAssumption
<1>3. ExecuteLedger
  BY <1>1, <1>2 DEF ExecuteLedger, Steps, Answered
<1>4. Concluded = {} /\ Rejected = {} /\ Observed = {} /\ PerhapsObserved = {}
  BY DEF Concluded, Rejected, Observed, PerhapsObserved, IsConcluded, IsRejected, IsObserved,
         MayBeObserved, RecordedFirst, RecordedAfter, Overloads
<1> QED
  BY <1>3, <1>4, FS_EmptySet DEF ExecuteTally, OutcomesCounted, RefusalsCounted, Counters

\* Signals, the end of the server and stuttering change no book.
LEMMA IdleLedger ==
    ASSUME ExecuteLedger, UNCHANGED <<pc, refused, tasks, counters, emitted>>,
           \/ server' = server \/ server' = "draining"
           \/ server' = "stopped" /\ \A r \in Requests : pc[r] \in {"idle", "done", "gone"}
    PROVE  /\ ExecuteLedger'
           /\ Concluded' = Concluded /\ Rejected' = Rejected
           /\ Observed' = Observed /\ PerhapsObserved' = PerhapsObserved
           /\ OutcomesCounted' = OutcomesCounted /\ RefusalsCounted' = RefusalsCounted
<1>1. ExecutionTypeOK'
  BY Zenon DEF ExecuteLedger, ExecutionTypeOK
<1>2. \A r \in Requests : RequestLedger(r)'
  BY DEF ExecuteLedger, RequestLedger, IsConcluded
<1>3. ExecuteLedger'
  BY <1>1, <1>2 DEF ExecuteLedger
<1> QED
  BY <1>3 DEF Concluded, Rejected, Observed, PerhapsObserved, OutcomesCounted, RefusalsCounted,
              IsConcluded, IsRejected, IsObserved, MayBeObserved

\* Every step of /execute keeps its books.
LEMMA ExecuteNextLedger ==
    ExecuteLedger /\ ExecuteTally /\ [Next]_vars => ExecuteLedger' /\ ExecuteTally'
<1> SUFFICES ASSUME ExecuteLedger, ExecuteTally, [Next]_vars
             PROVE  ExecuteLedger' /\ ExecuteTally'
  OBVIOUS
<1>1. CASE ExecuteStep
  <2>1. PICK r \in Requests : Arrive(r) \/ Handler(r) \/ RunTask(r) \/ Disconnect(r)
    BY <1>1 DEF ExecuteStep
  <2>2. ExecuteLedger'
    BY <2>1, ExecuteStepLedger
  <2>3. /\ Cardinality(Concluded) \in Nat /\ Cardinality(Concluded') \in Nat
        /\ Cardinality(Rejected) \in Nat /\ Cardinality(Rejected') \in Nat
        /\ Cardinality(Observed) \in Nat /\ Cardinality(Observed') \in Nat
        /\ Cardinality(PerhapsObserved) \in Nat /\ Cardinality(PerhapsObserved') \in Nat
    BY RequestsFinite, SMTT(30) DEF Concluded, Rejected, Observed, PerhapsObserved
  <2>4. /\ OutcomesCounted \in Nat /\ OutcomesCounted' \in Nat
        /\ RefusalsCounted \in Nat /\ RefusalsCounted' \in Nat
        /\ counters["executions"] \in Nat /\ counters'["executions"] \in Nat
    BY <2>2 DEF ExecuteLedger, ExecutionTypeOK, OutcomesCounted, RefusalsCounted, Counters
  <2>5. /\ OutcomesCounted' + Cardinality(Concluded) = OutcomesCounted + Cardinality(Concluded')
        /\ RefusalsCounted' + Cardinality(Rejected) = RefusalsCounted + Cardinality(Rejected')
        /\ counters'["executions"] + Cardinality(Observed)
              >= counters["executions"] + Cardinality(Observed')
        /\ counters'["executions"] + Cardinality(PerhapsObserved)
              <= counters["executions"] + Cardinality(PerhapsObserved')
    BY <2>1, RequestTally
  <2>6. ExecuteTally'
    BY <2>3, <2>4, <2>5 DEF ExecuteTally
  <2> QED
    BY <2>2, <2>6
<1>2. CASE Signal \/ Stop \/ UNCHANGED vars
  <2>1. /\ UNCHANGED <<pc, refused, tasks, counters, emitted>>
        /\ \/ server' = server \/ server' = "draining"
           \/ server' = "stopped" /\ \A r \in Requests : pc[r] \in {"idle", "done", "gone"}
    BY <1>2 DEF Signal, SignalShutdown, Stop, vars, executeVars, executionVars
  <2> QED
    BY <2>1, IdleLedger DEF ExecuteTally
<1> QED
  BY <1>1, <1>2 DEF Next

\* A request that is over has left the events of what it was.
LEMMA LedgerEvents == ExecuteLedger => EventsMatchAnswer
<1> SUFFICES ASSUME ExecuteLedger, NEW r \in Requests, pc[r] = "done"
             PROVE  emitted[r] = [e \in EventKinds |->
                       CASE e = "denied" -> IF refused[r] \in {"none", "auth"} THEN 0 ELSE 1
                         [] OTHER        -> IF refused[r] = "none" THEN 1 ELSE 0]
  BY DEF EventsMatchAnswer
<1>1. emitted[r] \in [EventKinds -> Nat] /\ RequestLedger(r)
  BY ExecuteAssumption DEF ExecuteLedger, ExecutionTypeOK, ExecuteAssumption
<1>2. \A e \in EventKinds : emitted[r][e] =
         CASE e = "denied" -> IF refused[r] \in {"none", "auth"} THEN 0 ELSE 1
           [] OTHER        -> IF refused[r] = "none" THEN 1 ELSE 0
  BY <1>1 DEF RequestLedger, IsConcluded, EventKinds
<1> QED
  BY <1>1, <1>2

\* For any number of requests, whatever their gates answer and whoever leaves,
\* /metrics and the usage and audit events account for each answered one
\* exactly once (record_success, record_engine_error, record_rejection,
\* emit_executed, emit_denied).
THEOREM RequestsAccountedFor == Spec => []RequestsAccounted
<1>1. ASSUME ExecuteLedger, ExecuteTally PROVE MetricsBalance
  <2>1. OutcomeCount = OutcomesCounted + RefusalsCounted
    <3>1. /\ counters["success"] \in Nat /\ counters["engine_error"] \in Nat
          /\ counters["rejected"] \in Nat /\ counters["overload_global"] \in Nat
          /\ counters["overload_partition"] \in Nat
      BY <1>1 DEF ExecuteLedger, ExecutionTypeOK, Counters
    <3> QED
      BY <3>1 DEF OutcomeCount, OutcomesCounted, RefusalsCounted
  <2>2. IsFiniteSet(Concluded) /\ IsFiniteSet(Rejected) /\ Concluded \cap Rejected = {}
    BY RequestsFinite DEF Concluded, Rejected, IsConcluded, IsRejected, RecordedFirst,
                          RecordedAfter, Overloads
  <2>3. OutcomeCount = Cardinality(Concluded \cup Rejected)
    <3>1. /\ Cardinality(Concluded) \in Nat /\ Cardinality(Rejected) \in Nat
          /\ Cardinality(Concluded \cap Rejected) = 0
      BY <2>2, FS_EmptySet, FS_CardinalityType, Zenon
    <3>2. Cardinality(Concluded \cup Rejected)
             = Cardinality(Concluded) + Cardinality(Rejected) - Cardinality(Concluded \cap Rejected)
      BY <2>2, FS_Union
    <3> QED
      BY <1>1, <2>1, <3>1, <3>2 DEF ExecuteTally
  <2>4. Concluded \cup Rejected \subseteq {r \in Requests : pc[r] # "idle"}
    BY <1>1 DEF Concluded, Rejected, IsConcluded, IsRejected, ExecuteLedger, RequestLedger,
                RecordedFirst, RecordedAfter, Overloads
  <2>5. OutcomeCount <= Cardinality({r \in Requests : pc[r] # "idle"})
    <3>1. IsFiniteSet({r \in Requests : pc[r] # "idle"})
      BY RequestsFinite
    <3> QED
      BY <2>3, <2>4, <3>1, FS_Subset
  <2>6. ASSUME \A r \in Requests : pc[r] = "done"
        PROVE  /\ OutcomeCount = Cardinality(Requests)
               /\ counters["executions"] = counters["success"] + counters["engine_error"]
    <3>1. Concluded \cup Rejected = Requests
      BY <1>1, <2>6 DEF Concluded, Rejected, IsConcluded, IsRejected, ExecuteLedger, Answered,
                        RequestLedger, RecordedFirst, RecordedAfter, Overloads
    <3>2. Observed = Concluded /\ PerhapsObserved = Concluded
      BY <2>6 DEF Observed, PerhapsObserved, Concluded, IsObserved, MayBeObserved, IsConcluded
    <3>3. counters["executions"] \in Nat /\ Cardinality(Concluded) \in Nat
      BY <1>1, <2>2, FS_CardinalityType DEF ExecuteLedger, ExecutionTypeOK, Counters
    <3>4. /\ counters["success"] + counters["engine_error"] = Cardinality(Concluded)
          /\ Cardinality(Concluded) <= counters["executions"]
          /\ counters["executions"] <= Cardinality(Concluded)
      BY <1>1, <3>2 DEF ExecuteTally, OutcomesCounted
    <3> QED
      BY <2>3, <3>1, <3>3, <3>4, SMTT(30)
  <2> QED
    BY <2>5, <2>6 DEF MetricsBalance
<1>2. ExecuteLedger /\ ExecuteTally => RequestsAccounted
  BY <1>1, LedgerEvents, Zenon DEF RequestsAccounted
<1> QED
  BY <1>2, ExecuteInitLedger, ExecuteNextLedger, PTL DEF Spec

-----------------------------------------------------------------------------
(* Items, phases and batches                                               *)

JobConcluded(j) == jpc[j] = "rendered" /\ tasks[j] # "none"
JobObserved(j) == jpc[j] \in {"emit_usage", "emit_audit"} \/ JobConcluded(j)

\* The result, the task and the events of a job at its step.
JobLedger(j) ==
    /\ result[j] \in {"none", "ok", "failed"}
    /\ result[j] # "none" <=> jpc[j] = "rendered"
    /\ tasks[j] # "none" => jpc[j] \in JobAdmitted \cup {"rendered", "gone"}
    /\ jpc[j] \in JobAdmitted => tasks[j] # "none"
    /\ tasks[j] = "running" => jpc[j] \in {"exec", "gone"}
    /\ jpc[j] = "gone" => bpc[BatchOf[j]] = "gone"
    /\ jpc[j] # "gone" =>
          /\ emitted[j]["usage"] = IF jpc[j] = "emit_audit" \/ JobConcluded(j) THEN 1 ELSE 0
          /\ emitted[j]["allowed"] = IF JobConcluded(j) THEN 1 ELSE 0
          /\ emitted[j]["denied"] =
                IF jpc[j] = "rendered" /\ tasks[j] = "none" THEN 1 ELSE 0

\* The phases of a batch: before, items and after each end before the next begins.
BatchPhases(b) ==
    /\ bpc[b] \in {"shared", "fan_out", "items", "after", "after_run"}
          => \A k \in BeforeOf(b) : result[k] = "ok"
    /\ bpc[b] \in {"after", "after_run"} => \A j \in ItemsOf(b) : jpc[j] = "rendered"
    /\ bpc[b] \notin {"before_run", "gone"}
          => \A j \in BeforeOf(b) : jpc[j] \in {"idle", "rendered"}
    /\ bpc[b] \notin {"items", "gone"}
          => \A j \in ItemsOf(b) : jpc[j] \in {"idle", "rendered"}
    /\ bpc[b] \notin {"after_run", "gone"}
          => \A j \in AfterOf(b) : jpc[j] \in {"idle", "rendered"}
    /\ \A j \in ItemsOf(b), k \in BeforeOf(b) : jpc[j] # "idle" => result[k] = "ok"
    /\ \A j \in ItemsOf(b), k \in AfterOf(b) : jpc[k] # "idle" => jpc[j] = "rendered"
    /\ bpc[b] \in {"denied_first", "denied_after"} => \A j \in ItemsOf(b) : jpc[j] = "idle"
    /\ batch_audits[b] \in {0, 1} /\ (batch_audits[b] = 1 => bpc[b] = "done")

GateExact ==
    /\ gate_available \in [Batches -> Nat]
    /\ \A b \in Batches :
          gate_available[b] + Cardinality(gate_permits \cap ItemsOf(b)) = Ceiling

JobsConcluded == {j \in BatchJobs : JobConcluded(j)}
JobsObserved == {j \in BatchJobs : JobObserved(j)}
JobsPerhapsObserved == {j \in BatchJobs : JobObserved(j) \/ jpc[j] = "gone"}
\* A batch that has ended, or is about to, without its items.
CutShort(b) ==
    /\ bpc[b] \in {"denied_first", "done", "gone"}
    /\ \A j \in ItemsOf(b) : jpc[j] = "idle"
BatchesCut == {b \in Batches : CutShort(b)}

ServerLedger ==
    /\ result \in [BatchJobs -> {"none", "ok", "failed"}] /\ batch_audits \in [Batches -> Nat]
    /\ \A j \in BatchJobs : JobLedger(j)
    /\ \A b \in Batches : BatchPhases(b)
    /\ GateExact

ServerTally ==
    /\ OutcomesCounted = Cardinality(Concluded) + Cardinality(JobsConcluded)
    /\ RefusalsCounted <= Cardinality(Rejected) + Cardinality(BatchesCut)
    /\ Cardinality(Observed) + Cardinality(JobsObserved) <= counters["executions"]
    /\ counters["executions"] <= Cardinality(PerhapsObserved) + Cardinality(JobsPerhapsObserved)
-----------------------------------------------------------------------------
(* A step of an item or a phase                                            *)

\* What a step of j does to the counters, and to j.
JobCounted(j) ==
    \/ /\ counters' = counters
       /\ JobConcluded(j)' <=> JobConcluded(j)
       /\ JobObserved(j)' => JobObserved(j)
       /\ JobObserved(j) \/ jpc[j] = "gone" => JobObserved(j)' \/ jpc'[j] = "gone"
    \/ /\ counters' = [counters EXCEPT !["executions"] = @ + 1]
       /\ ~JobConcluded(j) /\ ~JobConcluded(j)'
       /\ ~JobObserved(j) /\ jpc[j] # "gone" /\ JobObserved(j)'
    \/ /\ \E c \in {"success", "engine_error"} : counters' = [counters EXCEPT ![c] = @ + 1]
       /\ ~JobConcluded(j) /\ JobConcluded(j)' /\ JobObserved(j) /\ JobObserved(j)'

\* Only j moves.
JobAlone(j) ==
    /\ ExecutionTypeOK' /\ UNCHANGED <<bpc, batch_audits, server>>
    /\ \A k \in BatchJobs : k # j => jpc'[k] = jpc[k] /\ result'[k] = result[k]
    /\ \A k \in Jobs : k # j => tasks'[k] = tasks[k] /\ emitted'[k] = emitted[k]

\* A job that has ended, or has not begun, does not move; one that moves does
\* not go back.
JobProgress(j) ==
    /\ jpc[j] = "idle" => jpc'[j] = "idle" /\ result'[j] = result[j]
    /\ jpc[j] = "rendered" => jpc'[j] = "rendered" /\ result'[j] = result[j]
    /\ jpc'[j] = "idle" => jpc[j] = "idle"

BooksTyped ==
    /\ jpc \in [BatchJobs -> JobSteps] /\ result \in [BatchJobs -> {"none", "ok", "failed"}]
    /\ ExecutionTypeOK

\* What the books of a job say of it before it emits.
LEMMA BeforeEmit ==
    ASSUME NEW j, JobLedger(j)
    PROVE  /\ jpc[j] = "emit_usage" =>
                 /\ result[j] = "none" /\ tasks[j] \notin {"none", "running"}
                 /\ emitted[j]["usage"] = 0 /\ emitted[j]["allowed"] = 0 /\ emitted[j]["denied"] = 0
           /\ jpc[j] = "emit_audit" =>
                 /\ tasks[j] \notin {"none", "running"}
                 /\ emitted[j]["usage"] = 1 /\ emitted[j]["allowed"] = 0 /\ emitted[j]["denied"] = 0
           /\ jpc[j] = "denied" =>
                 /\ tasks[j] = "none"
                 /\ emitted[j]["usage"] = 0 /\ emitted[j]["allowed"] = 0 /\ emitted[j]["denied"] = 0
  BY Zenon DEF JobLedger, JobAdmitted, JobConcluded

\* Every step of a job moves it alone, and keeps its books.
LEMMA JobStepLedger ==
    ASSUME BooksTyped, NEW j \in BatchJobs, JobLedger(j), JobStep(j) \/ RunJobTask(j)
    PROVE  /\ JobAlone(j) /\ JobLedger(j)' /\ JobCounted(j) /\ JobProgress(j)
           /\ result' \in [BatchJobs -> {"none", "ok", "failed"}]
<1> USE DEF JobAdmitted, JobConcluded, JobObserved, JobGoto, Count
<1>0. /\ jpc \in [BatchJobs -> JobSteps] /\ result \in [BatchJobs -> {"none", "ok", "failed"}]
      /\ ExecutionTypeOK /\ JobLedger(j) /\ j \in Jobs
  BY BatchAssumption DEF BooksTyped, BatchAssumption, BatchJobs
<1>1. /\ counters \in [Counters -> Nat] /\ emitted \in [Jobs -> [EventKinds -> Nat]]
      /\ tasks \in [Jobs -> {"none", "running"} \cup Outcomes]
  BY <1>0 DEF ExecutionTypeOK
<1>2. CASE CheckJob(j) \/ JobQuota(j) \/ JobSession(j) \/ JobGate(j)
           \/ (JobGlobal(j) /\ JobGoto(j, "queued"))
  <2>1. /\ jpc[j] \in {"check", "quota", "session", "gate", "global"}
        /\ \E step \in {"quota", "denied", "session", "gate", "global", "queued"} :
              jpc' = [jpc EXCEPT ![j] = step]
        /\ UNCHANGED <<bpc, batch_audits, result, counters, emitted, server>>
    BY <1>2, Zenon DEF CheckJob, JobQuota, JobSession, JobGate, JobGlobal, executionVars
  <2>2. UNCHANGED tasks
    <3>1. CASE CheckJob(j) \/ JobQuota(j) \/ JobSession(j) \/ JobGate(j)
      BY <3>1 DEF CheckJob, JobQuota, JobSession, JobGate, executionVars
    <3>2. CASE JobGlobal(j) /\ JobGoto(j, "queued")
      <4>1. jpc'[j] = "queued"
        BY <1>0, <3>2, SMTT(30)
      <4> QED
        BY <1>0, <3>2, <4>1 DEF JobGlobal
    <3> QED
      BY <1>2, <3>1, <3>2, Zenon
  <2>3. JobAlone(j)
    BY <1>0, <2>1, <2>2 DEF JobAlone, ExecutionTypeOK
  <2>4. JobLedger(j)'
    BY <1>0, <2>1, <2>2, Zenon DEF JobLedger
  <2> QED
    BY <1>0, <2>1, <2>2, <2>3, <2>4, Zenon DEF JobCounted, JobProgress, JobLedger
<1>3. CASE JobServed(j) \/ (JobGlobal(j) /\ JobGoto(j, "exec"))
  <2>1. /\ jpc[j] \in {"global", "queued"} /\ jpc' = [jpc EXCEPT ![j] = "exec"]
        /\ UNCHANGED <<bpc, batch_audits, result, counters, emitted, server>>
    BY <1>3 DEF JobServed, JobGlobal
  <2>2. tasks' = [tasks EXCEPT ![j] = "running"]
    <3>1. CASE JobServed(j)
      BY <3>1, Zenon DEF JobServed, SpawnTask
    <3>2. CASE JobGlobal(j) /\ JobGoto(j, "exec")
      <4>1. jpc'[j] = "exec"
        BY <1>0, <3>2, Zenon
      <4> QED
        BY <1>0, <3>2, <4>1 DEF JobGlobal, SpawnTask
    <3> QED
      BY <1>3, <3>1, <3>2
  <2>3. JobAlone(j)
    BY <1>0, <1>1, <2>1, <2>2, SMTT(30) DEF JobAlone, ExecutionTypeOK
  <2>4. JobLedger(j)'
    BY <1>0, <1>1, <2>1, <2>2, ZenonT(30) DEF JobLedger
  <2> QED
    BY <1>0, <2>1, <2>2, <2>3, <2>4, Zenon DEF JobCounted, JobProgress, JobLedger
<1>4. CASE JobJoined(j)
  <2>1. /\ jpc[j] = "exec" /\ jpc' = [jpc EXCEPT ![j] = "emit_usage"] /\ tasks[j] \in Outcomes
        /\ UNCHANGED <<bpc, batch_audits, result, tasks, emitted, server>>
        /\ counters' = [counters EXCEPT !["executions"] = @ + 1]
    BY <1>4 DEF JobJoined, TaskJoined
  <2>2. counters' \in [Counters -> Nat]
    BY <1>1, <2>1 DEF Counters
  <2>3. JobAlone(j)
    BY <1>0, <2>1, <2>2, Zenon DEF JobAlone, ExecutionTypeOK
  <2>4. JobLedger(j)'
    BY <1>0, <2>1, ZenonT(30) DEF JobLedger, Outcomes
  <2> QED
    BY <1>0, <2>1, <2>3, <2>4, Zenon DEF JobCounted, JobProgress
<1>5. CASE JobEmitUsage(j)
  <2>1. /\ jpc[j] = "emit_usage" /\ jpc' = [jpc EXCEPT ![j] = "emit_audit"] /\ Emit(j, "usage")
        /\ UNCHANGED <<bpc, batch_audits, result, tasks, counters, server>>
    BY <1>5, Zenon DEF JobEmitUsage
  <2>2. /\ emitted' \in [Jobs -> [EventKinds -> Nat]]
        /\ \A k \in Jobs : k # j => emitted'[k] = emitted[k]
        /\ emitted'[j]["usage"] = emitted[j]["usage"] + 1
        /\ emitted'[j]["allowed"] = emitted[j]["allowed"]
        /\ emitted'[j]["denied"] = emitted[j]["denied"]
    BY <1>0, <1>1, <2>1, Emitted DEF EventKinds
  <2>3. JobAlone(j)
    BY <1>0, <2>1, <2>2, ZenonT(30) DEF JobAlone, ExecutionTypeOK
  <2>4. JobLedger(j)'
    <3>1. jpc'[j] = "emit_audit"
      BY <1>0, <2>1
    <3>2. /\ result[j] = "none" /\ tasks[j] \notin {"none", "running"}
          /\ emitted[j]["usage"] = 0 /\ emitted[j]["allowed"] = 0 /\ emitted[j]["denied"] = 0
      BY <1>0, <2>1, BeforeEmit, ZenonT(30)
    <3>3. emitted'[j]["usage"] = 1 /\ emitted'[j]["allowed"] = 0 /\ emitted'[j]["denied"] = 0
      BY <2>2, <3>2, SMTT(30)
    <3> QED
      BY <2>1, <3>1, <3>2, <3>3, SMTT(30) DEF JobLedger
  <2> QED
    BY <1>0, <2>1, <2>3, <2>4 DEF JobCounted, JobProgress
<1>6. CASE JobEmitAudit(j)
  <2>1. /\ jpc[j] = "emit_audit" /\ jpc' = [jpc EXCEPT ![j] = "rendered"] /\ Emit(j, "allowed")
        /\ UNCHANGED <<bpc, batch_audits, tasks, server>>
        /\ \E ok \in {"ok", "failed"} : result' = [result EXCEPT ![j] = ok]
        /\ \E c \in {"success", "engine_error"} : counters' = [counters EXCEPT ![c] = @ + 1]
    BY <1>6, Zenon DEF JobEmitAudit, CountOutcome
  <2>2. /\ emitted' \in [Jobs -> [EventKinds -> Nat]]
        /\ \A k \in Jobs : k # j => emitted'[k] = emitted[k]
        /\ emitted'[j]["usage"] = emitted[j]["usage"]
        /\ emitted'[j]["allowed"] = emitted[j]["allowed"] + 1
        /\ emitted'[j]["denied"] = emitted[j]["denied"]
    BY <1>0, <1>1, <2>1, Emitted, SMTT(30) DEF EventKinds
  <2>3. counters' \in [Counters -> Nat]
    BY <1>1, <2>1 DEF Counters
  <2>4. JobAlone(j)
    BY <1>0, <2>1, <2>2, <2>3, ZenonT(30) DEF JobAlone, ExecutionTypeOK
  <2>5. JobLedger(j)'
    <3>1. jpc'[j] = "rendered" /\ result'[j] \in {"ok", "failed"}
      BY <1>0, <2>1
    <3>2. /\ tasks[j] \notin {"none", "running"}
          /\ emitted[j]["usage"] = 1 /\ emitted[j]["allowed"] = 0 /\ emitted[j]["denied"] = 0
      BY <1>0, <2>1, BeforeEmit, ZenonT(30)
    <3>3. emitted'[j]["usage"] = 1 /\ emitted'[j]["allowed"] = 1 /\ emitted'[j]["denied"] = 0
      BY <2>2, <3>2
    <3> QED
      BY <2>1, <3>1, <3>2, <3>3, Zenon DEF JobLedger
  <2>6. JobCounted(j)
    BY <1>0, <2>1, Zenon DEF JobCounted, JobLedger
  <2> QED
    BY <1>0, <2>1, <2>4, <2>5, <2>6, SMTT(30) DEF JobProgress
<1>7. CASE JobDenied(j)
  <2>1. /\ jpc[j] = "denied" /\ jpc' = [jpc EXCEPT ![j] = "rendered"] /\ Emit(j, "denied")
        /\ UNCHANGED <<bpc, batch_audits, tasks, counters, server>>
        /\ result' = [result EXCEPT ![j] = "failed"]
    BY <1>7, Zenon DEF JobDenied
  <2>2. /\ emitted' \in [Jobs -> [EventKinds -> Nat]]
        /\ \A k \in Jobs : k # j => emitted'[k] = emitted[k]
        /\ emitted'[j]["usage"] = emitted[j]["usage"]
        /\ emitted'[j]["allowed"] = emitted[j]["allowed"]
        /\ emitted'[j]["denied"] = emitted[j]["denied"] + 1
    BY <1>0, <1>1, <2>1, Emitted DEF EventKinds
  <2>3. JobAlone(j)
    BY <1>0, <2>1, <2>2, ZenonT(30) DEF JobAlone, ExecutionTypeOK
  <2>4. JobLedger(j)'
    <3>1. jpc'[j] = "rendered" /\ result'[j] = "failed"
      BY <1>0, <2>1
    <3>2. /\ tasks[j] = "none"
          /\ emitted[j]["usage"] = 0 /\ emitted[j]["allowed"] = 0 /\ emitted[j]["denied"] = 0
      BY <1>0, <2>1, BeforeEmit, ZenonT(30)
    <3>3. emitted'[j]["usage"] = 0 /\ emitted'[j]["allowed"] = 0 /\ emitted'[j]["denied"] = 1
      <4>1. emitted'[j]["usage"] = 0 /\ emitted'[j]["allowed"] = 0 /\ emitted'[j]["denied"] = 0 + 1
        BY <2>2, <3>2, Zenon
      <4> QED BY <4>1
    <3> QED
      BY <2>1, <3>1, <3>2, <3>3, Zenon DEF JobLedger
  <2>5. JobCounted(j)
    BY <1>0, <2>1, Zenon DEF JobCounted, JobLedger
  <2> QED
    BY <1>0, <2>1, <2>3, <2>4, <2>5, SMTT(30) DEF JobProgress
<1>8. CASE AbortJob(j)
  <2>1. /\ jpc' = [jpc EXCEPT ![j] = "gone"] /\ bpc[BatchOf[j]] = "gone"
        /\ jpc[j] \notin {"idle", "rendered", "gone"}
        /\ UNCHANGED <<bpc, batch_audits, result, tasks, counters, emitted, server>>
    BY <1>8, Zenon DEF AbortJob, Alive, JobAwaits, executionVars
  <2>2. JobAlone(j)
    BY <1>0, <2>1, Zenon DEF JobAlone, ExecutionTypeOK
  <2>3. JobLedger(j)'
    BY <1>0, <2>1, Zenon DEF JobLedger
  <2> QED
    BY <1>0, <2>1, <2>2, <2>3, Zenon DEF JobCounted, JobProgress
<1>9. CASE RunJobTask(j)
  <2>1. /\ UNCHANGED <<bpc, jpc, batch_audits, result, counters, emitted, server>>
        /\ tasks[j] = "running" /\ \E o \in Outcomes : tasks' = [tasks EXCEPT ![j] = o]
    BY <1>9, Zenon DEF RunJobTask, TaskEnds, batchVars
  <2>2. JobAlone(j)
    BY <1>0, <1>1, <2>1 DEF JobAlone, ExecutionTypeOK
  <2>3. JobLedger(j)'
    BY <1>0, <1>1, <2>1, ZenonT(30) DEF JobLedger, Outcomes
  <2> QED
    BY <1>0, <1>1, <2>1, <2>2, <2>3, Zenon DEF JobCounted, JobProgress, JobLedger, Outcomes
<1> QED
  <2>1. JobGlobal(j) => JobGoto(j, "exec") \/ JobGoto(j, "queued")
    BY DEF JobGlobal
  <2> QED
    BY <1>2, <1>3, <1>4, <1>5, <1>6, <1>7, <1>8, <1>9, <2>1, Zenon DEF JobStep

\* The books of the other jobs, and of the requests, stay as they are.
LEMMA JobOthersLedger ==
    ASSUME NEW j \in BatchJobs, JobAlone(j), UNCHANGED executeVars, ExecuteLedger
    PROVE  /\ ExecuteLedger'
           /\ \A k \in BatchJobs : k # j /\ JobLedger(k) => JobLedger(k)'
<1>1. \A k \in BatchJobs : k \in Jobs
  BY BatchAssumption, Zenon DEF BatchAssumption, BatchJobs
<1>2. ASSUME NEW k \in BatchJobs, k # j, JobLedger(k) PROVE JobLedger(k)'
  <2>1. /\ jpc'[k] = jpc[k] /\ result'[k] = result[k] /\ bpc' = bpc
        /\ tasks'[k] = tasks[k] /\ emitted'[k] = emitted[k]
    BY <1>1, <1>2, Zenon DEF JobAlone
  <2> QED
    BY <1>2, <2>1, ZenonT(30) DEF JobLedger, JobConcluded
<1>3. ASSUME NEW r \in Requests PROVE RequestLedger(r)'
  <2>1. RequestLedger(r) /\ r \in Jobs /\ r # j
    BY ExecuteAssumption, ServerAssumption DEF ExecuteLedger, ExecuteAssumption, ServerAssumption
  <2>2. pc' = pc /\ refused' = refused /\ tasks'[r] = tasks[r] /\ emitted'[r] = emitted[r]
    BY <2>1, Zenon DEF JobAlone, executeVars
  <2> QED
    BY <2>1, <2>2, Zenon DEF RequestLedger, IsConcluded
<1> QED
  BY <1>2, <1>3, Zenon DEF ExecuteLedger, JobAlone, executeVars

\* Sets of jobs are finite.
LEMMA BatchJobsFinite ==
    ASSUME NEW S, S \subseteq BatchJobs PROVE IsFiniteSet(S) /\ Cardinality(S) \in Nat
  BY SomeJobsFinite, BatchAssumption, Zenon DEF BatchAssumption, BatchJobs

\* The counters a step of a job moves move with the sets of jobs.
LEMMA JobTally ==
    ASSUME NEW j \in BatchJobs, JobAlone(j), JobCounted(j), counters \in [Counters -> Nat]
    PROVE  /\ OutcomesCounted' + Cardinality(JobsConcluded)
                 = OutcomesCounted + Cardinality(JobsConcluded')
           /\ RefusalsCounted' = RefusalsCounted
           /\ counters'["executions"] + Cardinality(JobsObserved)
                 >= counters["executions"] + Cardinality(JobsObserved')
           /\ counters'["executions"] + Cardinality(JobsPerhapsObserved)
                 <= counters["executions"] + Cardinality(JobsPerhapsObserved')
<1>1. \A k \in BatchJobs : k \in Jobs
  BY BatchAssumption, Zenon DEF BatchAssumption, BatchJobs
<1>2. \A k \in BatchJobs : k # j =>
         /\ JobConcluded(k)' <=> JobConcluded(k)
         /\ JobObserved(k)' <=> JobObserved(k)
         /\ jpc'[k] = jpc[k]
  BY <1>1 DEF JobAlone, JobConcluded, JobObserved
<1>3. PICK c \in Nat, c1 \in Nat :
         /\ c = Cardinality(JobsConcluded) /\ c1 = Cardinality(JobsConcluded')
         /\ (JobConcluded(j)' <=> JobConcluded(j)) => c1 = c
         /\ ~JobConcluded(j) /\ JobConcluded(j)' => c1 = c + 1
  <2>1. IsFiniteSet(JobsConcluded) /\ \A k : k # j => (k \in JobsConcluded <=> k \in JobsConcluded')
    BY <1>2, BatchJobsFinite DEF JobsConcluded
  <2>2. /\ Cardinality(JobsConcluded) \in Nat /\ Cardinality(JobsConcluded') \in Nat
        /\ (j \in JobsConcluded <=> j \in JobsConcluded') => Cardinality(JobsConcluded') = Cardinality(JobsConcluded)
        /\ j \notin JobsConcluded /\ j \in JobsConcluded' => Cardinality(JobsConcluded') = Cardinality(JobsConcluded) + 1
        /\ j \in JobsConcluded /\ j \notin JobsConcluded' => Cardinality(JobsConcluded) = Cardinality(JobsConcluded') + 1
    BY <2>1, SetMoves
  <2>3. (j \in JobsConcluded <=> JobConcluded(j)) /\ (j \in JobsConcluded' <=> JobConcluded(j)')
    BY DEF JobsConcluded
  <2> QED
    BY <2>2, <2>3, Zenon
<1>4. PICK o \in Nat, o1 \in Nat :
         /\ o = Cardinality(JobsObserved) /\ o1 = Cardinality(JobsObserved')
         /\ (JobObserved(j)' => JobObserved(j)) => o1 <= o
         /\ o1 <= o + 1
  <2>1. IsFiniteSet(JobsObserved) /\ \A k : k # j => (k \in JobsObserved <=> k \in JobsObserved')
    BY <1>2, BatchJobsFinite, Zenon DEF JobsObserved
  <2>2. /\ Cardinality(JobsObserved) \in Nat /\ Cardinality(JobsObserved') \in Nat
        /\ (j \in JobsObserved <=> j \in JobsObserved') => Cardinality(JobsObserved') = Cardinality(JobsObserved)
        /\ j \notin JobsObserved /\ j \in JobsObserved' => Cardinality(JobsObserved') = Cardinality(JobsObserved) + 1
        /\ j \in JobsObserved /\ j \notin JobsObserved' => Cardinality(JobsObserved) = Cardinality(JobsObserved') + 1
    BY <2>1, SetMoves
  <2>3. (j \in JobsObserved <=> JobObserved(j)) /\ (j \in JobsObserved' <=> JobObserved(j)')
    BY ZenonT(30) DEF JobsObserved
  <2> QED
    BY <2>2, <2>3, SMTT(30)
<1>5. PICK p \in Nat, p1 \in Nat :
         /\ p = Cardinality(JobsPerhapsObserved) /\ p1 = Cardinality(JobsPerhapsObserved')
         /\ (JobObserved(j) \/ jpc[j] = "gone" => JobObserved(j)' \/ jpc'[j] = "gone") => p1 >= p
         /\ ~JobObserved(j) /\ jpc[j] # "gone" /\ JobObserved(j)' => p1 = p + 1
  <2>1. IsFiniteSet(JobsPerhapsObserved) /\ \A k : k # j => (k \in JobsPerhapsObserved <=> k \in JobsPerhapsObserved')
    BY <1>2, BatchJobsFinite, Zenon DEF JobsPerhapsObserved
  <2>2. /\ Cardinality(JobsPerhapsObserved) \in Nat /\ Cardinality(JobsPerhapsObserved') \in Nat
        /\ (j \in JobsPerhapsObserved <=> j \in JobsPerhapsObserved') => Cardinality(JobsPerhapsObserved') = Cardinality(JobsPerhapsObserved)
        /\ j \notin JobsPerhapsObserved /\ j \in JobsPerhapsObserved' => Cardinality(JobsPerhapsObserved') = Cardinality(JobsPerhapsObserved) + 1
        /\ j \in JobsPerhapsObserved /\ j \notin JobsPerhapsObserved' => Cardinality(JobsPerhapsObserved) = Cardinality(JobsPerhapsObserved') + 1
    BY <2>1, SetMoves
  <2>3. (j \in JobsPerhapsObserved <=> JobObserved(j) \/ jpc[j] = "gone") /\ (j \in JobsPerhapsObserved' <=> JobObserved(j)' \/ jpc'[j] = "gone")
    BY Zenon DEF JobsPerhapsObserved
  <2> QED
    BY <2>2, <2>3, SMTT(30)
<1>6. /\ counters["success"] \in Nat /\ counters["engine_error"] \in Nat
      /\ counters["rejected"] \in Nat /\ counters["overload_global"] \in Nat
      /\ counters["overload_partition"] \in Nat /\ counters["executions"] \in Nat
  BY SMTT(30) DEF Counters
<1>7. /\ OutcomesCounted \in Nat
      /\ \/ OutcomesCounted' = OutcomesCounted /\ c1 = c /\ counters'["executions"] = counters["executions"]
            /\ o1 <= o /\ p1 >= p
         \/ OutcomesCounted' = OutcomesCounted /\ c1 = c /\ counters'["executions"] = counters["executions"] + 1
            /\ o1 <= o + 1 /\ p1 = p + 1
         \/ OutcomesCounted' = OutcomesCounted + 1 /\ c1 = c + 1 /\ counters'["executions"] = counters["executions"]
            /\ o1 <= o /\ p1 >= p
      /\ RefusalsCounted' = RefusalsCounted
  <2>0. OutcomesCounted \in Nat
    BY <1>6 DEF OutcomesCounted
  <2>1. CASE /\ counters' = counters
             /\ JobConcluded(j)' <=> JobConcluded(j)
             /\ JobObserved(j)' => JobObserved(j)
             /\ JobObserved(j) \/ jpc[j] = "gone" => JobObserved(j)' \/ jpc'[j] = "gone"
    <3>1. /\ OutcomesCounted' = OutcomesCounted /\ RefusalsCounted' = RefusalsCounted
          /\ counters'["executions"] = counters["executions"]
      BY <2>1, Zenon DEF OutcomesCounted, RefusalsCounted
    <3>2. c1 = c /\ o1 <= o /\ p1 >= p
      BY <1>3, <1>4, <1>5, <2>1, Zenon
    <3> QED
      BY <2>0, <3>1, <3>2, Zenon
  <2>2. CASE /\ counters' = [counters EXCEPT !["executions"] = @ + 1]
             /\ ~JobConcluded(j) /\ ~JobConcluded(j)'
             /\ ~JobObserved(j) /\ jpc[j] # "gone" /\ JobObserved(j)'
    <3>1. /\ \A k \in Counters : k # "executions" => counters'[k] = counters[k]
          /\ counters'["executions"] = counters["executions"] + 1
      BY <2>2, SMTT(30) DEF Counters
    <3>2. OutcomesCounted' = OutcomesCounted /\ RefusalsCounted' = RefusalsCounted
      BY <3>1 DEF OutcomesCounted, RefusalsCounted, Counters
    <3>3. c1 = c /\ o1 <= o + 1 /\ p1 = p + 1
      BY <1>3, <1>4, <1>5, <2>2, Zenon
    <3> QED
      BY <2>0, <3>1, <3>2, <3>3, Zenon
  <2>3. CASE /\ \E k \in {"success", "engine_error"} : counters' = [counters EXCEPT ![k] = @ + 1]
             /\ ~JobConcluded(j) /\ JobConcluded(j)' /\ JobObserved(j) /\ JobObserved(j)'
    <3>1. PICK k \in {"success", "engine_error"} : counters' = [counters EXCEPT ![k] = @ + 1]
      BY <2>3, Zenon
    <3>2. /\ \A d \in Counters : d # k => counters'[d] = counters[d]
          /\ counters'[k] = counters[k] + 1
      BY <3>1, SMTT(30) DEF Counters
    <3>3. OutcomesCounted' = OutcomesCounted + 1
      BY <1>6, <3>2, SMTT(30) DEF OutcomesCounted, Counters
    <3>4. RefusalsCounted' = RefusalsCounted /\ counters'["executions"] = counters["executions"]
      BY <3>2 DEF RefusalsCounted, Counters
    <3>5. c1 = c + 1 /\ o1 <= o /\ p1 >= p
      BY <1>3, <1>4, <1>5, <2>3, ZenonT(30)
    <3> QED
      BY <2>0, <3>3, <3>4, <3>5, Zenon
  <2> QED
    BY <2>1, <2>2, <2>3, Zenon DEF JobCounted
<1>8. /\ OutcomesCounted' + c = OutcomesCounted + c1
      /\ counters'["executions"] + o >= counters["executions"] + o1
      /\ counters'["executions"] + p <= counters["executions"] + p1
  BY <1>6, <1>7
<1> QED
  BY <1>3, <1>4, <1>5, <1>7, <1>8, Zenon

-----------------------------------------------------------------------------
(* The phases of a batch                                                   *)

\* The jobs of the phases of b are jobs.
LEMMA PhaseJobs ==
    ASSUME NEW b
    PROVE  /\ ItemsOf(b) \subseteq BatchJobs /\ BeforeOf(b) \subseteq BatchJobs
           /\ AfterOf(b) \subseteq BatchJobs
  BY DEF ItemsOf, BeforeOf, AfterOf, BatchJobs

\* A step of a job keeps the phases of every batch apart.
LEMMA JobKeepsPhases ==
    ASSUME \A k \in BatchJobs : JobLedger(k), NEW j \in BatchJobs, JobAlone(j), JobProgress(j),
           NEW b, BatchPhases(b)
    PROVE  BatchPhases(b)' /\ (CutShort(b)' <=> CutShort(b))
<1>1. ASSUME NEW k \in BatchJobs
      PROVE  /\ jpc[k] = "idle" <=> jpc'[k] = "idle"
             /\ jpc[k] = "rendered" => jpc'[k] = "rendered"
             /\ result[k] = "ok" => result'[k] = "ok"
  <2>1. CASE k = j
    BY <2>1, Zenon DEF JobProgress, JobLedger
  <2>2. CASE k # j
    BY <2>2, Zenon DEF JobAlone
  <2> QED
    BY <2>1, <2>2, Zenon
<1>2. /\ ItemsOf(b)' = ItemsOf(b) /\ BeforeOf(b)' = BeforeOf(b) /\ AfterOf(b)' = AfterOf(b)
      /\ bpc' = bpc /\ batch_audits' = batch_audits
  BY ZenonT(30) DEF ItemsOf, BeforeOf, AfterOf, JobAlone
<1>3. CutShort(b)' <=> CutShort(b)
  BY <1>1, <1>2, PhaseJobs, Zenon DEF CutShort
<1>4. BatchPhases(b)'
  BY <1>1, <1>2, PhaseJobs, ZenonT(30) DEF BatchPhases
<1> QED
  BY <1>3, <1>4, Zenon
=============================================================================
