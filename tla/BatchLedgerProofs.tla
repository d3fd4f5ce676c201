------------------------- MODULE BatchLedgerProofs -------------------------
(***************************************************************************)
(* The books of the box as a whole: what a step of an item, of a phase, of *)
(* a batch or of a request does to the ledgers of LedgerProofs, and the    *)
(* theorems about every batch and every request of the server.             *)
(***************************************************************************)
EXTENDS LedgerProofs, ServerProofs

-----------------------------------------------------------------------------
(* The slots of the gates                                                  *)

\* The slots of the gates after a step of a job: one taken, one returned, or none.
LEMMA JobGateStep ==
    ASSUME ServerInv, NEW j \in BatchJobs, JobStep(j) \/ RunJobTask(j)
    PROVE  \/ UNCHANGED <<gate_available, gate_permits>>
           \/ /\ j \in Items /\ j \notin gate_permits /\ gate_available[BatchOf[j]] > 0
              /\ gate_available' = [gate_available EXCEPT ![BatchOf[j]] = @ - 1]
              /\ gate_permits' = gate_permits \cup {j}
           \/ /\ j \in Items /\ j \in gate_permits
              /\ gate_available' = [gate_available EXCEPT ![BatchOf[j]] = @ + 1]
              /\ gate_permits' = gate_permits \ {j}
<1>1. JobHoldings(j)
  BY DEF ServerInv, HoldingsMatchStep
<1>2. CASE JobGate(j)
  BY <1>1, <1>2, Zenon DEF JobGate, JobHoldings, JobAdmitted
<1>3. CASE JobEmitAudit(j) \/ JobDenied(j) \/ AbortJob(j)
  <2>1. JobScopeEnds(j)
    BY <1>3, Zenon DEF JobEmitAudit, JobDenied, AbortJob
  <2> QED
    BY <1>1, <2>1 DEF JobScopeEnds, JobHoldings
<1>4. CASE ~JobGate(j) /\ ~JobEmitAudit(j) /\ ~JobDenied(j) /\ ~AbortJob(j)
  BY <1>4, Zenon DEF JobStep, RunJobTask, CheckJob, JobQuota, JobSession, JobGlobal, JobServed,
              JobJoined, JobEmitUsage, batchVars, gateVars
<1> QED
  BY <1>2, <1>3, <1>4

\* The free and the held slots of a gate stay its ceiling.
LEMMA JobKeepsGates ==
    ASSUME ServerInv, GateExact, NEW j \in BatchJobs, JobStep(j) \/ RunJobTask(j)
    PROVE  GateExact'
<1>1. gate_available \in [Batches -> Nat] /\ BatchOf[j] \in Batches
  BY BatchAssumption DEF GateExact, BatchAssumption, BatchJobs
<1>2. CASE UNCHANGED <<gate_available, gate_permits>>
  BY <1>2 DEF GateExact, ItemsOf
<1>3. CASE /\ j \in Items
           /\ \/ /\ j \notin gate_permits /\ gate_available[BatchOf[j]] > 0
                 /\ gate_available' = [gate_available EXCEPT ![BatchOf[j]] = @ - 1]
                 /\ gate_permits' = gate_permits \cup {j}
              \/ /\ j \in gate_permits
                 /\ gate_available' = [gate_available EXCEPT ![BatchOf[j]] = @ + 1]
                 /\ gate_permits' = gate_permits \ {j}
  <2>1. gate_available' \in [Batches -> Nat]
    BY <1>1, <1>3
  <2>2. ASSUME NEW b \in Batches
        PROVE  gate_available'[b] + Cardinality((gate_permits \cap ItemsOf(b))') = Ceiling
    <3> DEFINE S == gate_permits \cap ItemsOf(b)
               T == gate_permits' \cap ItemsOf(b)
    <3>1. IsFiniteSet(S) /\ \A k : k # j => (k \in S <=> k \in T)
      <4>1. S \subseteq BatchJobs
        BY PhaseJobs
      <4> QED
        BY <1>3, <4>1, BatchJobsFinite, SMTT(30)
    <3>2. /\ j \in S <=> j \in gate_permits /\ BatchOf[j] = b
          /\ j \in T <=> j \in gate_permits' /\ BatchOf[j] = b
      BY <1>3 DEF ItemsOf
    <3>3. (gate_permits \cap ItemsOf(b))' = T
      BY DEF ItemsOf
    <3>4. gate_available[b] + Cardinality(S) = Ceiling /\ gate_available[b] \in Nat
      BY <1>1 DEF GateExact
    <3> HIDE DEF S, T
    <3>5. /\ Cardinality(S) \in Nat /\ Cardinality(T) \in Nat
          /\ (j \in S <=> j \in T) => Cardinality(T) = Cardinality(S)
          /\ j \notin S /\ j \in T => Cardinality(T) = Cardinality(S) + 1
          /\ j \in S /\ j \notin T => Cardinality(S) = Cardinality(T) + 1
      BY <3>1, SetMoves
    <3>6. gate_available'[b] + Cardinality(T) = Ceiling
      <4>1. CASE BatchOf[j] # b
        BY <1>1, <1>3, <3>2, <3>4, <3>5, <4>1, SMTT(30)
      <4>2. CASE BatchOf[j] = b
        BY <1>1, <1>3, <3>2, <3>4, <3>5, <4>2, SMTT(30)
      <4> QED
        BY <4>1, <4>2, SMTT(30)
    <3> QED
      BY <3>3, <3>6
  <2>3. Ceiling' = Ceiling
    BY DEF Ceiling
  <2> QED
    BY <2>1, <2>2, <2>3 DEF GateExact
<1> QED
  BY <1>2, <1>3, JobGateStep

\* What a step of run_batch does to the counters, and to its batch.
BatchCounted(b) ==
    \/ counters' = counters /\ (CutShort(b) => CutShort(b)')
    \/ /\ counters' = [counters EXCEPT !["rejected"] = @ + 1]
       /\ ~CutShort(b) /\ CutShort(b)'

\* The before phase of a batch is one job.
LEMMA OneBefore ==
    ASSUME NEW b \in Batches, NEW j \in BeforeOf(b), NEW k \in BeforeOf(b) PROVE j = k
<1>1. Cardinality(BeforeOf(b)) <= 1 /\ IsFiniteSet(BeforeOf(b)) /\ Cardinality(BeforeOf(b)) \in Nat
  BY BatchAssumption, BatchJobsFinite, PhaseJobs DEF BatchAssumption, BeforeOf
<1>2. Cardinality({j}) = 1 /\ {j} \subseteq BeforeOf(b)
  BY FS_Singleton, SMTT(30)
<1>3. Cardinality({j}) <= Cardinality(BeforeOf(b))
      /\ (Cardinality(BeforeOf(b)) = Cardinality({j}) => BeforeOf(b) = {j})
  BY <1>1, <1>2, FS_Subset
<1> QED
  BY <1>1, <1>2, <1>3, SMTT(30)

\* The steps of run_batch that start no job.
LEMMA BatchMovesOn ==
    ASSUME ServerInv, ServerLedger, NEW b \in Batches, counters \in [Counters -> Nat],
           BatchArrives(b) \/ BatchHandler(b) \/ BatchDisconnect(b), UNCHANGED jpc
    PROVE  BatchPhases(b)' /\ BatchCounted(b)
<1> USE DEF BatchGoto, Count
<1>0. /\ bpc \in [Batches -> BatchSteps] /\ PhaseOrder /\ BatchPhases(b)
      /\ \A k \in BatchJobs : JobLedger(k)
  BY DEF ServerInv, ServerLedger
<1>1. /\ ItemsOf(b)' = ItemsOf(b) /\ BeforeOf(b)' = BeforeOf(b) /\ AfterOf(b)' = AfterOf(b)
  BY DEF ItemsOf, BeforeOf, AfterOf
<1>2. bpc[b] \in {"idle", "gates", "before", "before_run", "shared", "fan_out"}
         => \A j \in ItemsOf(b) : jpc[j] = "idle"
  BY <1>0 DEF PhaseOrder
<1>3. CASE BatchArrives(b)
  BY <1>0, <1>1, <1>3, Zenon DEF BatchArrives, BatchPhases, BatchCounted, CutShort, executionVars
<1>4. CASE BatchGates(b)
  <2>1. /\ bpc[b] = "gates" /\ UNCHANGED <<jpc, result, batch_audits>>
        /\ \/ bpc' = [bpc EXCEPT ![b] = "before"] /\ counters' = counters
           \/ /\ \E step \in {"done", "denied_first"} : bpc' = [bpc EXCEPT ![b] = step]
              /\ counters' = [counters EXCEPT !["rejected"] = @ + 1]
           \/ bpc' = [bpc EXCEPT ![b] = "denied_after"] /\ counters' = counters
    BY <1>4 DEF BatchGates
  <2>2. BatchPhases(b)'
    BY <1>0, <1>1, <1>2, <2>1, ZenonT(30) DEF BatchPhases
  <2> QED
    BY <1>0, <1>1, <1>2, <2>1, <2>2, SMTT(30) DEF BatchCounted, CutShort
<1>5. CASE BatchDenied(b)
  <2>1. /\ \/ bpc[b] = "denied_first" /\ counters' = counters
           \/ bpc[b] = "denied_after" /\ counters' = [counters EXCEPT !["rejected"] = @ + 1]
        /\ UNCHANGED <<jpc, result>> /\ bpc' = [bpc EXCEPT ![b] = "done"]
        /\ batch_audits' = [batch_audits EXCEPT ![b] = @ + 1]
    BY <1>5 DEF BatchDenied
  <2>2. batch_audits[b] = 0
    BY <1>0, <2>1, Zenon DEF BatchPhases
  <2>3. batch_audits'[b] \in {0, 1}
    BY <2>1, <2>2 DEF BatchPhases
  <2>4. BatchPhases(b)'
    BY <1>0, <1>1, <2>1, <2>3, Zenon DEF BatchPhases
  <2> QED
    BY <1>0, <1>1, <2>1, <2>4, Zenon DEF BatchCounted, CutShort, BatchPhases
<1>6. CASE BeforeEnds(b)
  <2>1. PICK j \in BeforeOf(b) :
           /\ bpc[b] = "before_run" /\ UNCHANGED <<jpc, result, batch_audits>>
           /\ jpc[j] = "rendered"
           /\ \/ /\ result[j] = "ok" /\ bpc' = [bpc EXCEPT ![b] = "shared"]
                 /\ counters' = counters
              \/ /\ bpc' = [bpc EXCEPT ![b] = "done"]
                 /\ counters' = [counters EXCEPT !["rejected"] = @ + 1]
    BY <1>6, Zenon DEF BeforeEnds
  <2>2. \A k \in BeforeOf(b) : k = j
    BY OneBefore
  <2>3. BatchPhases(b)'
    BY <1>0, <1>1, <1>2, <2>1, <2>2, ZenonT(30) DEF BatchPhases
  <2> QED
    BY <1>0, <1>1, <1>2, <2>1, <2>3, ZenonT(30) DEF BatchCounted, CutShort
<1>7. CASE StartBefore(b) \/ CheckShared(b)
  <2>1. /\ bpc[b] \in {"before", "shared"}
        /\ UNCHANGED <<jpc, result, batch_audits, counters>>
        /\ \/ bpc[b] = "before" /\ BeforeOf(b) = {} /\ bpc' = [bpc EXCEPT ![b] = "shared"]
           \/ bpc[b] = "before" /\ bpc' = [bpc EXCEPT ![b] = "before_run"]
           \/ bpc[b] = "shared" /\ bpc' = [bpc EXCEPT ![b] = "fan_out"]
           \/ bpc[b] = "shared" /\ bpc' = [bpc EXCEPT ![b] = "denied_after"]
    BY <1>7 DEF StartBefore, CheckShared, executionVars
  <2>2. BatchPhases(b)'
    BY <1>0, <1>1, <1>2, <2>1, ZenonT(30) DEF BatchPhases
  <2> QED
    BY <1>0, <2>1, <2>2, SMTT(30) DEF BatchCounted, CutShort
<1>8. CASE FanOut(b) \/ Collect(b) \/ StartAfter(b) \/ AfterEnds(b)
  <2>1. /\ UNCHANGED <<jpc, result, batch_audits, counters>>
        /\ \/ bpc[b] = "fan_out" /\ bpc' = [bpc EXCEPT ![b] = "items"]
           \/ /\ bpc[b] = "items" /\ bpc' = [bpc EXCEPT ![b] = "after"]
              /\ \A j \in ItemsOf(b) : jpc[j] = "rendered"
           \/ bpc[b] = "after" /\ bpc' = [bpc EXCEPT ![b] = "after_run"]
           \/ bpc[b] = "after" /\ bpc' = [bpc EXCEPT ![b] = "done"]
           \/ /\ bpc[b] = "after_run" /\ bpc' = [bpc EXCEPT ![b] = "done"]
              /\ \A j \in AfterOf(b) : jpc[j] = "rendered"
    BY <1>8 DEF FanOut, Collect, StartAfter, AfterEnds, executionVars
  <2>2. BatchPhases(b)'
    BY <1>0, <1>1, <1>2, <2>1, ZenonT(30) DEF BatchPhases
  <2> QED
    BY <1>0, <2>1, <2>2, SMTT(30) DEF BatchCounted, CutShort
<1>9. CASE BatchDisconnect(b)
  <2>1. /\ UNCHANGED <<jpc, result, batch_audits, counters>>
        /\ bpc' = [bpc EXCEPT ![b] = "gone"] /\ bpc[b] \notin {"done", "gone"}
    BY <1>9 DEF BatchDisconnect, BatchAwaits, executionVars
  <2>2. BatchPhases(b)'
    BY <1>0, <1>1, <2>1, Zenon DEF BatchPhases
  <2> QED
    BY <1>0, <1>1, <2>1, <2>2 DEF BatchCounted, CutShort
<1> QED
  BY <1>3, <1>4, <1>5, <1>6, <1>7, <1>8, <1>9, SMTT(30) DEF BatchHandler

\* The steps of run_batch that start the jobs of a phase.
LEMMA BatchStartsPhase ==
    ASSUME ServerInv, ServerLedger, NEW b \in Batches,
           StartBefore(b) \/ FanOut(b) \/ StartAfter(b), ~UNCHANGED jpc
    PROVE  BatchPhases(b)' /\ BatchCounted(b)
<1> USE DEF BatchGoto
<1>0. /\ bpc \in [Batches -> BatchSteps] /\ jpc \in [BatchJobs -> JobSteps] /\ PhaseOrder
      /\ BatchPhases(b) /\ \A k \in BatchJobs : JobLedger(k)
  BY DEF ServerInv, ServerLedger
<1>1. /\ ItemsOf(b)' = ItemsOf(b) /\ BeforeOf(b)' = BeforeOf(b) /\ AfterOf(b)' = AfterOf(b)
      /\ UNCHANGED <<result, batch_audits, counters>>
  BY DEF ItemsOf, BeforeOf, AfterOf, StartBefore, FanOut, StartAfter, executionVars
<1>2. /\ \A j \in ItemsOf(b) : j \notin BeforeOf(b) /\ j \notin AfterOf(b) /\ j \in BatchJobs
      /\ \A j \in BeforeOf(b) : j \notin ItemsOf(b) /\ j \notin AfterOf(b) /\ j \in BatchJobs
      /\ \A j \in AfterOf(b) : j \notin ItemsOf(b) /\ j \notin BeforeOf(b) /\ j \in BatchJobs
  BY BatchAssumption, SMTT(30) DEF BatchAssumption, ItemsOf, BeforeOf, AfterOf, BatchJobs
<1>3. CASE StartBefore(b)
  <2>1. /\ bpc[b] = "before"
        /\ jpc' = [j \in BatchJobs |-> IF j \in BeforeOf(b) THEN "check" ELSE jpc[j]]
        /\ BeforeOf(b) # {} /\ bpc' = [bpc EXCEPT ![b] = "before_run"]
    <3>1. BeforeOf(b) = {} => jpc' = jpc
      BY <1>0, <1>3, SMTT(30) DEF StartBefore
    <3> QED
      BY <1>3, <3>1, Zenon DEF StartBefore
  <2>2. /\ \A j \in ItemsOf(b) : jpc'[j] = "idle"
        /\ \A j \in AfterOf(b) : jpc'[j] = "idle"
    BY <1>0, <1>2, <2>1, SMTT(30) DEF PhaseOrder
  <2>3. BatchPhases(b)'
    BY <1>0, <1>1, <2>1, <2>2, SMTT(30) DEF BatchPhases
  <2> QED
    BY <1>0, <1>1, <2>1, <2>3, SMTT(30) DEF BatchCounted, CutShort
<1>4. CASE FanOut(b)
  <2>1. /\ bpc[b] = "fan_out" /\ bpc' = [bpc EXCEPT ![b] = "items"]
        /\ jpc' = [j \in BatchJobs |-> IF j \in ItemsOf(b) THEN "check" ELSE jpc[j]]
    BY <1>4 DEF FanOut
  <2>2. /\ \A j \in AfterOf(b) : jpc'[j] = "idle"
        /\ \A j \in BeforeOf(b) : jpc'[j] = jpc[j] /\ result[j] = "ok"
    BY <1>0, <1>2, <2>1, SMTT(30) DEF PhaseOrder, BatchPhases
  <2>3. BatchPhases(b)'
    BY <1>0, <1>1, <2>1, <2>2, SMTT(30) DEF BatchPhases
  <2> QED
    BY <1>0, <1>1, <2>1, <2>3, SMTT(30) DEF BatchCounted, CutShort
<1>5. CASE StartAfter(b)
  <2>1. /\ bpc[b] = "after" /\ bpc' = [bpc EXCEPT ![b] = "after_run"]
        /\ jpc' = [j \in BatchJobs |-> IF j \in AfterOf(b) THEN "check" ELSE jpc[j]]
    BY <1>5 DEF StartAfter
  <2>2. /\ \A j \in ItemsOf(b) : jpc'[j] = "rendered"
        /\ \A j \in BeforeOf(b) : jpc'[j] = jpc[j] /\ result[j] = "ok"
    BY <1>0, <1>2, <2>1, SMTT(30) DEF BatchPhases
  <2>3. BatchPhases(b)'
    BY <1>0, <1>1, <2>1, <2>2, SMTT(30) DEF BatchPhases
  <2> QED
    BY <1>0, <1>1, <2>1, <2>3, SMTT(30) DEF BatchCounted, CutShort
<1> QED
  BY <1>3, <1>4, <1>5

\* A step of run_batch keeps the books of its jobs and of the other batches.
LEMMA BatchStepLedger ==
    ASSUME ServerInv, ServerLedger, ExecuteLedger, UNCHANGED executeVars, NEW b \in Batches,
           BatchArrives(b) \/ BatchHandler(b) \/ BatchDisconnect(b)
    PROVE  /\ ServerLedger' /\ ExecuteLedger' /\ BatchCounted(b)
           /\ UNCHANGED <<tasks, result>>
           /\ \A c \in Batches : c # b => (CutShort(c)' <=> CutShort(c))
<1> USE DEF BatchGoto, Count
<1>0. /\ bpc \in [Batches -> BatchSteps] /\ counters \in [Counters -> Nat]
      /\ \A k \in BatchJobs : JobLedger(k) /\ k \in Jobs
  BY BatchAssumption
     DEF ServerInv, ServerLedger, ExecuteLedger, ExecutionTypeOK, BatchAssumption, BatchJobs
<1>1. /\ UNCHANGED <<tasks, emitted, server, result, gate_permits>>
      /\ \/ gate_available' = gate_available
         \/ FanOut(b) /\ gate_available' = [gate_available EXCEPT ![b] = Ceiling]
      /\ \/ counters' = counters
         \/ counters' = [counters EXCEPT !["rejected"] = @ + 1]
      /\ bpc[b] # "gone"
  BY Zenon DEF BatchArrives, BatchHandler, BatchDisconnect, BatchGates, BatchDenied, StartBefore,
         BeforeEnds, CheckShared, FanOut, Collect, StartAfter, AfterEnds, executionVars,
         gateVars, BatchAwaits
<1>2. /\ batch_audits' \in [Batches -> Nat]
      /\ \A c \in Batches : c # b => bpc'[c] = bpc[c] /\ batch_audits'[c] = batch_audits[c]
  <2>1. batch_audits' = batch_audits \/ batch_audits' = [batch_audits EXCEPT ![b] = @ + 1]
    BY Zenon DEF BatchArrives, BatchHandler, BatchDisconnect, BatchGates, BatchDenied, StartBefore,
           BeforeEnds, CheckShared, FanOut, Collect, StartAfter, AfterEnds
  <2>2. \A c \in Batches : c # b => bpc'[c] = bpc[c]
    BY <1>0, Zenon
       DEF BatchArrives, BatchHandler, BatchDisconnect, BatchGates, BatchDenied, StartBefore,
           BeforeEnds, CheckShared, FanOut, Collect, StartAfter, AfterEnds
  <2>3. batch_audits \in [Batches -> Nat]
    BY DEF ServerLedger
  <2> QED
    BY <1>0, <2>1, <2>2, <2>3, SMTT(30)
<1>3. \A j \in BatchJobs :
         jpc'[j] = jpc[j] \/ (jpc[j] = "idle" /\ jpc'[j] = "check" /\ BatchOf[j] = b)
  BY BatchStarts, Zenon
<1>4. counters' \in [Counters -> Nat]
  BY <1>0, <1>1 DEF Counters
<1>5. ExecuteLedger'
  <2>1. ExecutionTypeOK'
    BY <1>1, <1>4 DEF ExecuteLedger, ExecutionTypeOK
  <2>2. \A r \in Requests : RequestLedger(r)'
    BY <1>1, Zenon DEF ExecuteLedger, RequestLedger, IsConcluded, executeVars
  <2> QED
    BY <1>1, <2>1, <2>2, SMTT(30) DEF ExecuteLedger, executeVars
<1>6. ASSUME NEW j \in BatchJobs PROVE JobLedger(j)'
  <2>1. BatchOf[j] \in Batches
    BY BatchAssumption, SMTT(30) DEF BatchAssumption, BatchJobs
  <2>2. bpc[BatchOf[j]] = "gone" => bpc'[BatchOf[j]] = "gone"
    BY <1>1, <1>2, <2>1
  <2>3. CASE jpc'[j] = jpc[j]
    BY <1>0, <1>1, <2>2, <2>3, ZenonT(30) DEF JobLedger, JobConcluded
  <2>4. CASE jpc[j] = "idle" /\ jpc'[j] = "check"
    BY <1>0, <1>1, <2>4, Zenon DEF JobLedger, JobConcluded, JobAdmitted
  <2> QED
    BY <1>3, <2>3, <2>4, SMTT(30)
<1>7. ASSUME NEW c \in Batches, c # b
      PROVE  BatchPhases(c)' /\ (CutShort(c)' <=> CutShort(c))
  <2>1. \A j \in ItemsOf(c) \cup BeforeOf(c) \cup AfterOf(c) :
           j \in BatchJobs /\ BatchOf[j] # b /\ jpc'[j] = jpc[j]
    BY <1>3, <1>7, SMTT(30) DEF ItemsOf, BeforeOf, AfterOf, BatchJobs
  <2>2. /\ ItemsOf(c)' = ItemsOf(c) /\ BeforeOf(c)' = BeforeOf(c) /\ AfterOf(c)' = AfterOf(c)
        /\ BatchPhases(c) /\ bpc'[c] = bpc[c] /\ batch_audits'[c] = batch_audits[c]
    BY <1>2, <1>7 DEF ItemsOf, BeforeOf, AfterOf, ServerLedger
  <2>3. CutShort(c)' <=> CutShort(c)
    BY <2>1, <2>2, Zenon DEF CutShort
  <2>4. BatchPhases(c)'
    BY <1>1, <2>1, <2>2, ZenonT(30) DEF BatchPhases
  <2> QED
    BY <2>3, <2>4
<1>8. BatchPhases(b)' /\ BatchCounted(b)
  <2>1. CASE UNCHANGED jpc
    BY <1>0, <2>1, BatchMovesOn
  <2>2. CASE ~UNCHANGED jpc
    <3>1. StartBefore(b) \/ FanOut(b) \/ StartAfter(b)
      BY <2>2, Zenon DEF BatchArrives, BatchHandler, BatchDisconnect, BatchGates, BatchDenied,
                  BeforeEnds, CheckShared, Collect, AfterEnds
    <3> QED
      BY <2>2, <3>1, BatchStartsPhase
  <2> QED
    BY <2>1, <2>2
<1>9. GateExact'
  <2>1. Ceiling' = Ceiling /\ Ceiling \in Nat
    BY BulkheadAssumption DEF Ceiling, BulkheadAssumption
  <2>2. gate_available' \in [Batches -> Nat]
    BY <1>1, <2>1, SMTT(30) DEF ServerLedger, GateExact
  <2>3. ASSUME NEW c \in Batches
        PROVE  gate_available'[c] + Cardinality(gate_permits \cap ItemsOf(c)) = Ceiling
    <3>1. CASE c # b \/ gate_available' = gate_available
      BY <1>1, <3>1 DEF ServerLedger, GateExact
    <3>2. CASE c = b /\ FanOut(b) /\ gate_available' = [gate_available EXCEPT ![b] = Ceiling]
      <4>1. \A j \in ItemsOf(b) : jpc[j] = "idle" /\ j \in BatchJobs
        BY <3>2, PhaseJobs, SMTT(30) DEF FanOut, ServerInv, PhaseOrder
      <4>2. gate_permits \cap ItemsOf(b) = {}
        BY <4>1 DEF ServerInv, HoldingsMatchStep, JobHoldings, JobAdmitted
      <4> QED
        BY <2>1, <3>2, <4>2, FS_EmptySet, SMTT(30) DEF ServerLedger, GateExact
    <3> QED
      BY <1>1, <3>1, <3>2, SMTT(30)
  <2> QED
    BY <1>1, <2>1, <2>2, <2>3, Zenon DEF GateExact, ItemsOf
<1> QED
  BY <1>1, <1>2, <1>5, <1>6, <1>7, <1>8, <1>9, Zenon DEF ServerLedger

\* A step of run_batch counts at most its own batch, and no job.
LEMMA BatchTally ==
    ASSUME ServerInv, ServerLedger, ExecuteLedger, UNCHANGED executeVars, NEW b \in Batches,
           BatchArrives(b) \/ BatchHandler(b) \/ BatchDisconnect(b)
    PROVE  /\ JobsConcluded' = JobsConcluded /\ JobsObserved' = JobsObserved
           /\ JobsPerhapsObserved' = JobsPerhapsObserved
           /\ OutcomesCounted' = OutcomesCounted
           /\ counters'["executions"] = counters["executions"]
           /\ RefusalsCounted' + Cardinality(BatchesCut)
                 <= RefusalsCounted + Cardinality(BatchesCut')
<1>1. /\ BatchCounted(b) /\ UNCHANGED tasks
      /\ \A c \in Batches : c # b => (CutShort(c)' <=> CutShort(c))
  BY BatchStepLedger
<1>2. \A j \in BatchJobs :
         jpc'[j] = jpc[j] \/ (jpc[j] = "idle" /\ jpc'[j] = "check" /\ BatchOf[j] = b)
  BY BatchStarts, Zenon DEF ServerInv
<1>3. /\ JobsConcluded' = JobsConcluded /\ JobsObserved' = JobsObserved
      /\ JobsPerhapsObserved' = JobsPerhapsObserved
  BY <1>1, <1>2 DEF JobsConcluded, JobsObserved, JobsPerhapsObserved, JobConcluded, JobObserved
<1>4. counters \in [Counters -> Nat]
  BY SMTT(30) DEF ExecuteLedger, ExecutionTypeOK
<1> DEFINE S == BatchesCut
           T == BatchesCut'
<1>5. IsFiniteSet(S)
  BY BatchAssumption, FS_Subset DEF BatchAssumption, BatchesCut
<1>6. /\ \A c : c # b => (c \in S <=> c \in T)
      /\ b \in S <=> CutShort(b)
      /\ b \in T <=> CutShort(b)'
  BY <1>1 DEF BatchesCut
<1> HIDE DEF S, T
<1>7. /\ Cardinality(S) \in Nat /\ Cardinality(T) \in Nat
      /\ (b \in S <=> b \in T) => Cardinality(T) = Cardinality(S)
      /\ b \notin S /\ b \in T => Cardinality(T) = Cardinality(S) + 1
      /\ b \in S /\ b \notin T => Cardinality(S) = Cardinality(T) + 1
  BY <1>5, <1>6, SetMoves, SMTT(30)
<1>8. /\ OutcomesCounted' = OutcomesCounted /\ counters'["executions"] = counters["executions"]
      /\ RefusalsCounted' + Cardinality(S) <= RefusalsCounted + Cardinality(T)
  <2>1. CASE counters' = counters /\ (CutShort(b) => CutShort(b)')
    <3>1. RefusalsCounted' = RefusalsCounted /\ RefusalsCounted \in Nat
      BY <1>4, <2>1 DEF RefusalsCounted, Counters
    <3> QED
      BY <1>6, <1>7, <2>1, <3>1, SMTT(30) DEF OutcomesCounted
  <2>2. CASE /\ counters' = [counters EXCEPT !["rejected"] = @ + 1]
             /\ ~CutShort(b) /\ CutShort(b)'
    <3>1. RefusalsCounted' = RefusalsCounted + 1 /\ RefusalsCounted \in Nat
      BY <1>4, <2>2 DEF RefusalsCounted, Counters
    <3>2. OutcomesCounted' = OutcomesCounted /\ counters'["executions"] = counters["executions"]
      BY <1>4, <2>2, SMTT(30) DEF OutcomesCounted, Counters
    <3> QED
      BY <1>6, <1>7, <2>2, <3>1, <3>2, SMTT(30)
  <2> QED
    BY <1>1, <2>1, <2>2, SMTT(30) DEF BatchCounted
<1> QED
  BY <1>3, <1>8 DEF S, T

-----------------------------------------------------------------------------
(* The box                                                                 *)

\* What the batches and their jobs leave alone, the requests do, and the other
\* way round.
LEMMA RequestSetsKeep ==
    ASSUME UNCHANGED executeVars
    PROVE  /\ Concluded' = Concluded /\ Rejected' = Rejected
           /\ Observed' = Observed /\ PerhapsObserved' = PerhapsObserved
  BY SMTT(30)
     DEF executeVars, Concluded, Rejected, Observed, PerhapsObserved, IsConcluded, IsRejected,
         IsObserved, MayBeObserved

\* Without a step of theirs, the books of the batches and their jobs stay.
LEMMA BatchBooksKeep ==
    ASSUME ServerLedger, UNCHANGED batchVars,
           \A j \in BatchJobs : tasks'[j] = tasks[j] /\ emitted'[j] = emitted[j]
    PROVE  /\ ServerLedger' /\ BatchesCut' = BatchesCut
           /\ JobsConcluded' = JobsConcluded /\ JobsObserved' = JobsObserved
           /\ JobsPerhapsObserved' = JobsPerhapsObserved
<1>1. UNCHANGED <<bpc, jpc, result, gate_available, gate_permits, batch_audits>>
  BY DEF batchVars, gateVars
<1>2. ASSUME NEW j \in BatchJobs PROVE JobLedger(j)'
  <2>1. JobLedger(j)
    BY DEF ServerLedger
  <2>2. tasks'[j] = tasks[j] /\ emitted'[j] = emitted[j]
    OBVIOUS
  <2> QED
    BY <1>1, <2>1, <2>2, Zenon DEF JobLedger, JobConcluded
<1>3. ASSUME NEW b \in Batches PROVE BatchPhases(b)'
  <2>1. BatchPhases(b)
    BY DEF ServerLedger
  <2> QED
    BY <1>1, <2>1, Zenon DEF BatchPhases, BeforeOf, ItemsOf, AfterOf
<1>4. GateExact'
  BY <1>1, Zenon DEF ServerLedger, GateExact, ItemsOf, Ceiling
<1>5. ServerLedger'
  BY <1>1, <1>2, <1>3, <1>4, SMTT(30) DEF ServerLedger
<1> QED
  BY <1>1, <1>5, SMTT(30) DEF BatchesCut, CutShort, ItemsOf, JobsConcluded, JobsObserved,
                    JobsPerhapsObserved, JobConcluded, JobObserved

\* The sizes of the sets of requests, jobs and batches are numbers.
LEMMA BookSizes ==
    ASSUME ExecutionTypeOK
    PROVE  /\ Cardinality(Concluded) \in Nat /\ Cardinality(JobsConcluded) \in Nat
           /\ Cardinality(Rejected) \in Nat /\ Cardinality(BatchesCut) \in Nat
           /\ Cardinality(Observed) \in Nat /\ Cardinality(JobsObserved) \in Nat
           /\ Cardinality(PerhapsObserved) \in Nat
           /\ Cardinality(JobsPerhapsObserved) \in Nat
           /\ OutcomesCounted \in Nat /\ RefusalsCounted \in Nat
           /\ counters["executions"] \in Nat
<1>1. /\ Cardinality(Concluded) \in Nat /\ Cardinality(Rejected) \in Nat
      /\ Cardinality(Observed) \in Nat /\ Cardinality(PerhapsObserved) \in Nat
  BY RequestsFinite, SMTT(30) DEF Concluded, Rejected, Observed, PerhapsObserved
<1>2. /\ Cardinality(JobsConcluded) \in Nat /\ Cardinality(JobsObserved) \in Nat
      /\ Cardinality(JobsPerhapsObserved) \in Nat
  BY BatchJobsFinite, SMTT(30) DEF JobsConcluded, JobsObserved, JobsPerhapsObserved
<1>3. Cardinality(BatchesCut) \in Nat
  <2>1. IsFiniteSet(BatchesCut)
    BY BatchAssumption, FS_Subset, SMTT(30) DEF BatchAssumption, BatchesCut
  <2> QED
    BY <2>1, FS_CardinalityType, SMTT(30)
<1>4. OutcomesCounted \in Nat /\ RefusalsCounted \in Nat /\ counters["executions"] \in Nat
  BY DEF ExecutionTypeOK, OutcomesCounted, RefusalsCounted, Counters
<1> QED
  BY <1>1, <1>2, <1>3, <1>4, SMTT(30)

\* Initially the books are empty.
LEMMA ServerInitLedger == ServerInit => ExecuteLedger /\ ServerLedger /\ ServerTally
<1> SUFFICES ASSUME ServerInit PROVE ExecuteLedger /\ ServerLedger /\ ServerTally
  OBVIOUS
<1>0. Init /\ BatchInit
  BY DEF ServerInit
<1>1. ExecuteLedger /\ ExecuteTally
  BY <1>0, ExecuteInitLedger, SMTT(30)
<1>2. ASSUME NEW j \in BatchJobs PROVE JobLedger(j)
  BY <1>0, BatchAssumption, SMTT(30)
     DEF JobLedger, JobConcluded, JobAdmitted, EventKinds, BatchAssumption, BatchJobs, Init,
         ExecutionInit, BatchInit
<1>3. ASSUME NEW b \in Batches PROVE BatchPhases(b)
  BY <1>0, PhaseJobs, SMTT(30) DEF BatchInit, BatchPhases
<1>4. GateExact
  <2>1. Ceiling \in Nat /\ Cardinality({}) = 0
    BY BulkheadAssumption, FS_EmptySet, SMTT(30) DEF Ceiling, BulkheadAssumption
  <2>2. \A b : gate_permits \cap ItemsOf(b) = {}
    BY <1>0 DEF BatchInit
  <2> QED
    BY <1>0, <2>1, <2>2, SMTT(30) DEF GateExact, BatchInit
<1>5. ServerLedger
  BY <1>0, <1>2, <1>3, <1>4, SMTT(30) DEF ServerLedger, BatchInit
<1>6. JobsConcluded = {} /\ JobsObserved = {} /\ JobsPerhapsObserved = {} /\ BatchesCut = {}
  BY <1>0, SMTT(30) DEF JobsConcluded, JobsObserved, JobsPerhapsObserved, BatchesCut, CutShort,
              JobConcluded, JobObserved, BatchInit
<1>7. ServerTally
  BY <1>1, <1>6, FS_EmptySet, BookSizes, SMTT(30) DEF ExecuteTally, ServerTally, ExecuteLedger
<1> QED
  BY <1>1, <1>5, <1>7, SMTT(30)

\* A step of a request.
LEMMA ServeExecuteLedger ==
    ASSUME ExecuteLedger, ServerLedger, ServerTally, ServeExecute
    PROVE  ExecuteLedger' /\ ServerLedger' /\ ServerTally'
<1>1. PICK r \in Requests : Arrive(r) \/ Handler(r) \/ RunTask(r) \/ Disconnect(r)
  BY DEF ServeExecute, ExecuteStep
<1>2. ExecuteLedger'
  BY <1>1, ExecuteStepLedger
<1>3. \A j \in BatchJobs : tasks'[j] = tasks[j] /\ emitted'[j] = emitted[j]
  BY <1>1, RequestStepLedger, ServerAssumption, BatchAssumption, ZenonT(30)
     DEF RequestAlone, ServerAssumption, BatchAssumption, BatchJobs
<1>4. /\ ServerLedger' /\ BatchesCut' = BatchesCut
      /\ JobsConcluded' = JobsConcluded /\ JobsObserved' = JobsObserved
      /\ JobsPerhapsObserved' = JobsPerhapsObserved
  BY <1>3, BatchBooksKeep, Zenon DEF ServeExecute
<1>5. /\ OutcomesCounted' + Cardinality(Concluded) = OutcomesCounted + Cardinality(Concluded')
      /\ RefusalsCounted' + Cardinality(Rejected) = RefusalsCounted + Cardinality(Rejected')
      /\ counters'["executions"] + Cardinality(Observed)
            >= counters["executions"] + Cardinality(Observed')
      /\ counters'["executions"] + Cardinality(PerhapsObserved)
            <= counters["executions"] + Cardinality(PerhapsObserved')
  BY <1>1, RequestTally, SMTT(30)
<1>6. /\ Cardinality(Concluded) \in Nat /\ Cardinality(JobsConcluded) \in Nat
      /\ Cardinality(Rejected) \in Nat /\ Cardinality(BatchesCut) \in Nat
      /\ Cardinality(Observed) \in Nat /\ Cardinality(JobsObserved) \in Nat
      /\ Cardinality(PerhapsObserved) \in Nat
      /\ Cardinality(JobsPerhapsObserved) \in Nat
      /\ OutcomesCounted \in Nat /\ RefusalsCounted \in Nat
      /\ counters["executions"] \in Nat
  BY BookSizes DEF ExecuteLedger
<1>7. /\ Cardinality(Concluded') \in Nat /\ Cardinality(Rejected') \in Nat
      /\ Cardinality(Observed') \in Nat /\ Cardinality(PerhapsObserved') \in Nat
  BY RequestsFinite, SMTT(30) DEF Concluded, Rejected, Observed, PerhapsObserved
<1>8. /\ OutcomesCounted' \in Nat /\ RefusalsCounted' \in Nat
      /\ counters'["executions"] \in Nat
  BY <1>2, SMTT(30) DEF ExecuteLedger, ExecutionTypeOK, OutcomesCounted, RefusalsCounted, Counters
<1>9. ServerTally'
  BY <1>4, <1>5, <1>6, <1>7, <1>8, SMTT(30) DEF ServerTally
<1> QED
  BY <1>2, <1>4, <1>9, SMTT(30)

\* A step of an item or a phase.
LEMMA ServeJobLedger ==
    ASSUME ServerInv, ExecuteLedger, ServerLedger, ServerTally, UNCHANGED executeVars,
           NEW j \in BatchJobs, JobStep(j) \/ RunJobTask(j)
    PROVE  ExecuteLedger' /\ ServerLedger' /\ ServerTally'
<1>1. BooksTyped /\ (\A k \in BatchJobs : JobLedger(k)) /\ counters \in [Counters -> Nat]
  BY DEF BooksTyped, ServerInv, ServerLedger, ExecuteLedger, ExecutionTypeOK
<1>2. /\ JobAlone(j) /\ JobLedger(j)' /\ JobCounted(j) /\ JobProgress(j)
      /\ result' \in [BatchJobs -> {"none", "ok", "failed"}]
  BY <1>1, JobStepLedger, SMTT(30)
<1>3. ExecuteLedger' /\ \A k \in BatchJobs : JobLedger(k)'
  BY <1>1, <1>2, JobOthersLedger, SMTT(30)
<1>4. \A b \in Batches : BatchPhases(b)' /\ (CutShort(b)' <=> CutShort(b))
  BY <1>1, <1>2, JobKeepsPhases, SMTT(30) DEF ServerLedger
<1>5. GateExact'
  BY JobKeepsGates DEF ServerLedger
<1>6. ServerLedger'
  BY <1>2, <1>3, <1>4, <1>5, Zenon DEF ServerLedger, JobAlone
<1>7. /\ BatchesCut' = BatchesCut
      /\ Concluded' = Concluded /\ Rejected' = Rejected
      /\ Observed' = Observed /\ PerhapsObserved' = PerhapsObserved
  BY <1>4, RequestSetsKeep, SMTT(30) DEF BatchesCut
<1>8. /\ OutcomesCounted' + Cardinality(JobsConcluded)
            = OutcomesCounted + Cardinality(JobsConcluded')
      /\ RefusalsCounted' = RefusalsCounted
      /\ counters'["executions"] + Cardinality(JobsObserved)
            >= counters["executions"] + Cardinality(JobsObserved')
      /\ counters'["executions"] + Cardinality(JobsPerhapsObserved)
            <= counters["executions"] + Cardinality(JobsPerhapsObserved')
  BY <1>1, <1>2, JobTally, SMTT(30)
<1>9. /\ Cardinality(Concluded) \in Nat /\ Cardinality(JobsConcluded) \in Nat
      /\ Cardinality(Rejected) \in Nat /\ Cardinality(BatchesCut) \in Nat
      /\ Cardinality(Observed) \in Nat /\ Cardinality(JobsObserved) \in Nat
      /\ Cardinality(PerhapsObserved) \in Nat
      /\ Cardinality(JobsPerhapsObserved) \in Nat
      /\ OutcomesCounted \in Nat /\ RefusalsCounted \in Nat
      /\ counters["executions"] \in Nat
  BY BookSizes, SMTT(30) DEF ExecuteLedger
<1>10. /\ Cardinality(JobsConcluded') \in Nat /\ Cardinality(JobsObserved') \in Nat
       /\ Cardinality(JobsPerhapsObserved') \in Nat
  BY BatchJobsFinite, SMTT(30) DEF JobsConcluded, JobsObserved, JobsPerhapsObserved
<1>11. /\ OutcomesCounted' \in Nat /\ RefusalsCounted' \in Nat
       /\ counters'["executions"] \in Nat
  BY <1>3, SMTT(30) DEF ExecuteLedger, ExecutionTypeOK, OutcomesCounted, RefusalsCounted, Counters
<1>12. ServerTally'
  BY <1>7, <1>8, <1>9, <1>10, <1>11, SMTT(30) DEF ServerTally
<1> QED
  BY <1>3, <1>6, <1>12, SMTT(30)

\* A step of run_batch.
LEMMA ServeBatchLedger ==
    ASSUME ServerInv, ExecuteLedger, ServerLedger, ServerTally, UNCHANGED executeVars,
           NEW b \in Batches, BatchArrives(b) \/ BatchHandler(b) \/ BatchDisconnect(b)
    PROVE  ExecuteLedger' /\ ServerLedger' /\ ServerTally'
<1>1. ExecuteLedger' /\ ServerLedger'
  BY BatchStepLedger
<1>2. /\ JobsConcluded' = JobsConcluded /\ JobsObserved' = JobsObserved
      /\ JobsPerhapsObserved' = JobsPerhapsObserved
      /\ OutcomesCounted' = OutcomesCounted
      /\ counters'["executions"] = counters["executions"]
      /\ RefusalsCounted' + Cardinality(BatchesCut)
            <= RefusalsCounted + Cardinality(BatchesCut')
  BY BatchTally, Zenon
<1>3. /\ Concluded' = Concluded /\ Rejected' = Rejected
      /\ Observed' = Observed /\ PerhapsObserved' = PerhapsObserved
  BY RequestSetsKeep
<1>4. /\ Cardinality(Rejected) \in Nat /\ Cardinality(BatchesCut) \in Nat
      /\ RefusalsCounted \in Nat
  BY BookSizes DEF ExecuteLedger
<1>5. Cardinality(BatchesCut') \in Nat
  <2>1. IsFiniteSet(BatchesCut')
    BY BatchAssumption, FS_Subset, Zenon DEF BatchAssumption, BatchesCut
  <2> QED
    BY <2>1, FS_CardinalityType
<1>6. RefusalsCounted' \in Nat
  BY <1>1, SMTT(30) DEF ExecuteLedger, ExecutionTypeOK, RefusalsCounted, Counters
<1>7. ServerTally'
  BY <1>2, <1>3, <1>4, <1>5, <1>6, SMTT(30) DEF ServerTally
<1> QED
  BY <1>1, <1>7, SMTT(30)

\* Only requests, items and phases have tasks.
NoStrangers == \A j \in Jobs : j \notin Requests \cup BatchJobs => tasks[j] = "none"

\* No step gives anybody else a task.
LEMMA StrangersKept ==
    ASSUME ServerInv, ExecuteLedger, ServerLedger, NoStrangers, [ServerNext]_serverVars
    PROVE  NoStrangers'
<1>1. CASE ServeExecute
  <2>1. PICK r \in Requests : Arrive(r) \/ Handler(r) \/ RunTask(r) \/ Disconnect(r)
    BY <1>1 DEF ServeExecute, ExecuteStep
  <2>2. RequestAlone(r)
    BY <2>1, RequestStepLedger
  <2> QED
    BY <2>2, Zenon DEF RequestAlone, NoStrangers
<1>2. CASE ServeBatch
  <2>1. ASSUME NEW j \in BatchJobs, JobStep(j) \/ RunJobTask(j) PROVE NoStrangers'
    <3>1. BooksTyped /\ JobLedger(j)
      BY DEF BooksTyped, ServerInv, ServerLedger, ExecuteLedger
    <3>2. JobAlone(j)
      BY <2>1, <3>1, JobStepLedger
    <3> QED
      BY <3>2, Zenon DEF JobAlone, NoStrangers
  <2>2. ASSUME NEW b \in Batches, BatchArrives(b) \/ BatchHandler(b) \/ BatchDisconnect(b)
        PROVE  NoStrangers'
    <3>1. UNCHANGED tasks
      BY <1>2, <2>2, BatchStepLedger, SMTT(30) DEF ServeBatch
    <3> QED
      BY <3>1 DEF NoStrangers
  <2> QED
    BY <1>2, <2>1, <2>2, Zenon DEF ServeBatch, BatchStep
<1>3. CASE ServerSignal \/ ServerStop \/ UNCHANGED serverVars
  BY <1>3 DEF ServerSignal, ServerStop, Signal, SignalShutdown, Stop, serverVars,
              executionVars, NoStrangers
<1> QED
  BY <1>1, <1>2, <1>3 DEF ServerNext

ServerBooks == ServerInv /\ ExecuteLedger /\ ServerLedger /\ ServerTally /\ NoStrangers

\* Every step of the box keeps its books.
LEMMA ServerNextLedger == ServerBooks /\ [ServerNext]_serverVars => ServerBooks'
<1> SUFFICES ASSUME ServerInv, ExecuteLedger, ServerLedger, ServerTally, NoStrangers,
                    [ServerNext]_serverVars
             PROVE  ServerBooks'
  BY DEF ServerBooks
<1>1. ServerInv' /\ NoStrangers'
  BY ServerNextInv, StrangersKept
<1>2. CASE ServeExecute
  BY <1>1, <1>2, ServeExecuteLedger, SMTT(30) DEF ServerBooks
<1>3. CASE ServeBatch
  <2>1. UNCHANGED executeVars
    BY <1>3, SMTT(30) DEF ServeBatch
  <2>2. CASE \E j \in BatchJobs : JobStep(j) \/ RunJobTask(j)
    BY <1>1, <2>1, <2>2, ServeJobLedger, SMTT(30) DEF ServerBooks
  <2>3. CASE \E b \in Batches : BatchArrives(b) \/ BatchHandler(b) \/ BatchDisconnect(b)
    BY <1>1, <2>1, <2>3, ServeBatchLedger, ZenonT(30) DEF ServerBooks
  <2> QED
    BY <1>3, <2>2, <2>3, SMTT(30) DEF ServeBatch, BatchStep
<1>4. CASE ServerSignal \/ ServerStop \/ UNCHANGED serverVars
  <2>1. /\ UNCHANGED <<pc, refused, tasks, counters, emitted>> /\ UNCHANGED batchVars
        /\ \/ server' = server \/ server' = "draining"
           \/ server' = "stopped" /\ \A r \in Requests : pc[r] \in {"idle", "done", "gone"}
    BY <1>4 DEF ServerSignal, ServerStop, Signal, SignalShutdown, Stop, serverVars,
                executeVars, executionVars
  <2>2. /\ ServerLedger' /\ BatchesCut' = BatchesCut
        /\ JobsConcluded' = JobsConcluded /\ JobsObserved' = JobsObserved
        /\ JobsPerhapsObserved' = JobsPerhapsObserved
    BY <2>1, BatchBooksKeep, Zenon
  <2> QED
    BY <1>1, <2>1, <2>2, IdleLedger, SMTT(30) DEF ServerTally, ServerBooks
<1> QED
  BY <1>2, <1>3, <1>4 DEF ServerNext

\* The books are kept in every reachable state of the box.
LEMMA ServerKeepsBooks == ServerSpec => []ServerBooks
<1>1. ServerInit => NoStrangers
  BY DEF ServerInit, Init, ExecutionInit, NoStrangers
<1>2. ServerInit => ServerBooks
  BY <1>1, ServerInitInv, ServerInitLedger, SMTT(30) DEF ServerBooks
<1> QED
  BY <1>2, ServerNextLedger, PTL DEF ServerSpec

\* For any number of batches, items and permits: the items of a batch never take
\* more than its ceiling, its gate neither loses nor invents a slot, no item starts
\* before the before phase has succeeded, and no after phase before every item is
\* rendered (run_batch, fan_out_items).
THEOREM BatchesKeepDiscipline == ServerSpec => []BatchDiscipline
<1>1. ASSUME ServerInv, ServerLedger PROVE FairShare
  <2> SUFFICES ASSUME NEW b \in Batches
               PROVE  /\ Cardinality({j \in ItemsOf(b) : jpc[j] \in {"global", "queued", "exec",
                                           "emit_usage", "emit_audit"}}) <= Ceiling
                      /\ gate_available[b] + Cardinality(gate_permits \cap ItemsOf(b)) = Ceiling
    BY SMTT(30) DEF FairShare
  <2>1. {j \in ItemsOf(b) : jpc[j] \in {"global", "queued", "exec", "emit_usage", "emit_audit"}}
           = gate_permits \cap ItemsOf(b)
    BY <1>1, SMTT(30) DEF ServerInv, HoldingsMatchStep, JobHoldings, JobAdmitted, ItemsOf, BatchJobs
  <2>2. /\ gate_available[b] + Cardinality(gate_permits \cap ItemsOf(b)) = Ceiling
        /\ gate_available[b] \in Nat
    BY <1>1 DEF ServerLedger, GateExact
  <2>3. Cardinality(gate_permits \cap ItemsOf(b)) \in Nat
    <3>1. gate_permits \cap ItemsOf(b) \subseteq BatchJobs
      BY PhaseJobs
    <3> QED
      BY <3>1, BatchJobsFinite, SMTT(30)
  <2> QED
    BY <2>1, <2>2, <2>3, SMTT(30)
<1>2. ASSUME ServerLedger PROVE PhasesInOrder
  BY <1>2, PhaseJobs, ZenonT(30) DEF ServerLedger, JobLedger, BatchPhases, PhasesInOrder
<1>3. ServerBooks => BatchDiscipline
  BY <1>1, <1>2, SMTT(30) DEF ServerBooks, BatchDiscipline
<1> QED
  BY <1>3, ServerKeepsBooks, PTL

\* The events of a rendered job are those of what it was.
LEMMA LedgerJobEvents == ExecuteLedger /\ ServerLedger => JobEventsMatch
<1> SUFFICES ASSUME ExecuteLedger, ServerLedger PROVE JobEventsMatch
  BY SMTT(30)
<1>1. ASSUME NEW j \in BatchJobs, jpc[j] = "rendered"
      PROVE  emitted[j] = [e \in EventKinds |->
                IF (e = "denied") = (tasks[j] = "none") THEN 1 ELSE 0]
  <2>1. emitted[j] \in [EventKinds -> Nat] /\ JobLedger(j)
    BY BatchAssumption, Zenon
       DEF ExecuteLedger, ExecutionTypeOK, BatchAssumption, BatchJobs, ServerLedger
  <2>2. \A e \in EventKinds :
           emitted[j][e] = IF (e = "denied") = (tasks[j] = "none") THEN 1 ELSE 0
    BY <1>1, <2>1, SMTT(30) DEF JobLedger, JobConcluded, EventKinds
  <2> QED
    BY <2>1, <2>2, Zenon
<1>2. \A b \in Batches : batch_audits[b] <= 1
  BY SMTT(30) DEF ServerLedger, BatchPhases
<1> QED
  BY <1>1, <1>2, Zenon DEF JobEventsMatch

\* When both endpoints have answered, the sets the counters measure are those of
\* the executed jobs, the refused requests and the batches without items.
LEMMA LedgerCounters == ServerBooks => CountersMatchWork
<1> SUFFICES ASSUME ServerInv, ExecuteLedger, ServerLedger, ServerTally, NoStrangers,
                    \A r \in Requests : pc[r] = "done", \A b \in Batches : bpc[b] = "done"
             PROVE  /\ counters["executions"] = Cardinality({j \in Jobs : tasks[j] # "none"})
                    /\ counters["executions"] = counters["success"] + counters["engine_error"]
                    /\ OutcomeCount - counters["executions"]
                          <= Cardinality({r \in Requests : refused[r] # "none"})
                             + Cardinality({b \in Batches : \A j \in ItemsOf(b) : jpc[j] = "idle"})
  BY Zenon DEF ServerBooks, CountersMatchWork
<1>1. Observed = Concluded /\ PerhapsObserved = Concluded
  BY DEF Observed, PerhapsObserved, Concluded, IsObserved, MayBeObserved, IsConcluded
<1>2. \A j \in BatchJobs : jpc[j] \in {"idle", "rendered"}
  <2>1. \A j \in BatchJobs : BatchOf[j] \in Batches
                          /\ j \in ItemsOf(BatchOf[j]) \cup BeforeOf(BatchOf[j]) \cup AfterOf(BatchOf[j])
    BY BatchAssumption, Zenon DEF BatchAssumption, BatchJobs, ItemsOf, BeforeOf, AfterOf
  <2> QED
    BY <2>1, ZenonT(30) DEF ServerLedger, BatchPhases
<1>3. JobsObserved = JobsConcluded /\ JobsPerhapsObserved = JobsConcluded
  BY <1>2, SMTT(30) DEF JobsObserved, JobsPerhapsObserved, JobsConcluded, JobObserved
<1>4. counters["executions"] = Cardinality(Concluded) + Cardinality(JobsConcluded)
  BY <1>1, <1>3, BookSizes, SMTT(30) DEF ServerTally, ExecuteLedger
<1>5. {j \in Jobs : tasks[j] # "none"} = Concluded \cup JobsConcluded
  <2>1. \A r \in Requests : r \in Jobs /\ (tasks[r] # "none" <=> IsConcluded(r))
    BY ExecuteAssumption, Zenon DEF ExecuteLedger, RequestLedger, IsConcluded, ExecuteAssumption
  <2>2. \A j \in BatchJobs : j \in Jobs /\ (tasks[j] # "none" <=> JobConcluded(j))
    BY <1>2, BatchAssumption, ZenonT(30)
       DEF ServerLedger, JobLedger, JobConcluded, JobAdmitted, BatchAssumption, BatchJobs
  <2> QED
    BY <2>1, <2>2, SMTT(30) DEF NoStrangers, Concluded, JobsConcluded
<1>6. Cardinality(Concluded \cup JobsConcluded)
         = Cardinality(Concluded) + Cardinality(JobsConcluded)
  <2>1. IsFiniteSet(Concluded) /\ IsFiniteSet(JobsConcluded)
    BY RequestsFinite, BatchJobsFinite, SMTT(30) DEF Concluded, JobsConcluded
  <2>2. Concluded \cap JobsConcluded = {}
    BY ServerAssumption, SMTT(30) DEF ServerAssumption, Concluded, JobsConcluded
  <2>3. Cardinality(Concluded \cup JobsConcluded) = Cardinality(Concluded)
           + Cardinality(JobsConcluded) - Cardinality(Concluded \cap JobsConcluded)
    BY <2>1, FS_Union, SMTT(30)
  <2>4. Cardinality(Concluded \cap JobsConcluded) = 0
    BY <2>2, FS_EmptySet, SMTT(30)
  <2>5. Cardinality(Concluded) \in Nat /\ Cardinality(JobsConcluded) \in Nat
    BY <2>1, FS_CardinalityType, SMTT(30)
  <2> QED
    BY <2>3, <2>4, <2>5, SMTT(30)
<1>7. OutcomesCounted = counters["executions"]
  BY <1>4, SMTT(30) DEF ServerTally
<1>8. OutcomeCount - counters["executions"] = RefusalsCounted
  <2>1. /\ counters["success"] \in Nat /\ counters["engine_error"] \in Nat
        /\ counters["rejected"] \in Nat /\ counters["overload_global"] \in Nat
        /\ counters["overload_partition"] \in Nat /\ counters["executions"] \in Nat
    BY DEF ExecuteLedger, ExecutionTypeOK, Counters
  <2>2. OutcomeCount = OutcomesCounted + RefusalsCounted
    BY <2>1 DEF OutcomeCount, OutcomesCounted, RefusalsCounted
  <2>3. OutcomesCounted \in Nat /\ RefusalsCounted \in Nat
    BY <2>1 DEF OutcomesCounted, RefusalsCounted
  <2> QED
    BY <1>7, <2>2, <2>3, SMTT(30)
<1> DEFINE R == {r \in Requests : refused[r] # "none"}
           B == {b \in Batches : \A j \in ItemsOf(b) : jpc[j] = "idle"}
<1>9. Cardinality(Rejected) <= Cardinality(R) /\ Cardinality(R) \in Nat
  <2>1. Rejected \subseteq R
    BY Zenon DEF Rejected, IsRejected, RecordedFirst, RecordedAfter, Overloads
  <2>2. IsFiniteSet(R) /\ Cardinality(R) \in Nat
    BY RequestsFinite, Zenon
  <2> HIDE DEF R
  <2> QED
    BY <2>1, <2>2, FS_Subset, Zenon
<1>10. Cardinality(BatchesCut) <= Cardinality(B) /\ Cardinality(B) \in Nat
  <2>1. BatchesCut \subseteq B /\ B \subseteq Batches /\ IsFiniteSet(Batches)
    BY BatchAssumption, Zenon DEF BatchesCut, CutShort, BatchAssumption
  <2> HIDE DEF B
  <2>2. IsFiniteSet(B)
    BY <2>1, FS_Subset, Zenon
  <2> QED
    BY <2>1, <2>2, FS_Subset, FS_CardinalityType, SMTT(30)
<1> HIDE DEF R, B
<1>11. RefusalsCounted <= Cardinality(R) + Cardinality(B)
  BY <1>9, <1>10, BookSizes DEF ServerTally, ExecuteLedger
<1> QED
  BY <1>4, <1>5, <1>6, <1>7, <1>8, <1>11, ZenonT(30) DEF R, B, OutcomesCounted

\* For any number of requests, batches and items sharing the box, and whoever
\* leaves: when both endpoints have answered, /metrics counts every execution once
\* with its outcome and nothing else but refusals, and every item and phase has left
\* the events of what it was (record_outcome, record_rejection, emit_executed).
THEOREM ServerWorkAccounted == ServerSpec => []WorkAccounted
<1>1. ServerBooks => WorkAccounted
  BY LedgerCounters, LedgerJobEvents, SMTT(30) DEF ServerBooks, WorkAccounted
<1> QED
  BY <1>1, ServerKeepsBooks, PTL

\* For any number of requests and batches: an execution of /execute that runs holds
\* its permit and keeps the server from stopping, unless its client has gone
\* (exec_and_respond holds both across the join).
THEOREM ServerCoversTasks == ServerSpec => []UncoveredTasksAbandoned
<1>1. ASSUME ServerInv, ExecuteLedger PROVE UncoveredTasksAbandoned
  <2> SUFFICES ASSUME NEW r \in Requests, tasks[r] = "running", pc[r] # "gone"
               PROVE  r \in permits /\ server # "stopped"
    BY DEF UncoveredTasksAbandoned, RunningTasks
  <2>1. pc[r] = "exec"
    BY <1>1, Zenon DEF ExecuteLedger, RequestLedger
  <2> QED
    BY <1>1, <2>1, ZenonT(30) DEF ExecuteLedger, ServerInv, HoldingsMatchStep, RequestHoldings
<1>2. ServerBooks => UncoveredTasksAbandoned
  BY <1>1 DEF ServerBooks
<1> QED
  BY <1>2, ServerKeepsBooks, PTL
=============================================================================
