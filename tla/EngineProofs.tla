---------------------------- MODULE EngineProofs ----------------------------
(***************************************************************************)
(* Proofs about the engine and what its requests share: one invocation,    *)
(* for every budget, every set of names and every script (the budgets, the *)
(* reach of the mux, the effects, the status line, the timeout and the     *)
(* cause); the pool of runtimes, for every number of threads and every     *)
(* cap; and the key cache of the signed contracts, for every number of     *)
(* requests and of keys.                                                   *)
(***************************************************************************)
EXTENDS Invocation, JsPool, ContractKeys, FiniteSetTheorems, TLAPS

-----------------------------------------------------------------------------
(* Budgets and reach                                                       *)

\* A backend call spends an operation first, so the calls never outrun the counter;
\* every buffer is bounded where it grows.
BudgetInv ==
    /\ used \in Nat /\ calls \in Nat /\ calls <= used /\ used <= MaxOps
    /\ effects \in Seq(Kinds) /\ Len(effects) <= MaxOps
    /\ logs \in Seq(Nat) /\ Len(logs) <= MaxEntries
    /\ logBytes \in Nat /\ logBytes <= MaxTotalBytes
    /\ reached \subseteq Listed
    /\ profile = "deterministic" => reached = {}

\* The bytes of an entry are a natural number.
LEMMA EntryBytesNat ==
    ASSUME NEW t \in Nat, NEW p \in Nat, NEW m \in Nat
    PROVE  EntryBytes(t, p, m) \in Nat
BY InvocationAssumption DEF EntryBytes, Minus

\* Dispatching counts at most one call, for the name it was given.
LEMMA DispatchFacts ==
    ASSUME NEW name, calls \in Nat, Dispatch(name)
    PROVE  /\ calls' \in Nat /\ calls' <= calls + 1
           /\ reached' \in {reached, reached \union {name}}
<1>1. \/ reached' = reached \union {name} /\ calls' = calls + 1
      \/ UNCHANGED <<reached, calls>>
  BY Zenon DEF Dispatch
<1> QED BY <1>1

\* Every step keeps the budgets: only emit, log and io change a buffer.
LEMMA BudgetStep == BudgetInv /\ [InvocationNext]_invocationVars => BudgetInv'
<1> SUFFICES ASSUME BudgetInv, [InvocationNext]_invocationVars PROVE BudgetInv'
  OBVIOUS
<1> USE InvocationAssumption
<1>1. ASSUME UNCHANGED <<profile, used, calls, effects, logs, logBytes, reached>>
      PROVE  BudgetInv'
  BY <1>1 DEF BudgetInv
<1>2. ASSUME NEW kind \in Kinds \union {"malformed"}, Emit(kind) PROVE BudgetInv'
  <2>1. CASE kind \notin Kinds \/ Len(effects) >= MaxOps
    BY <1>2, <2>1, <1>1 DEF Emit, ScriptUnchanged, history
  <2>2. CASE ~ (kind \notin Kinds \/ Len(effects) >= MaxOps)
    <3>1. effects' = Append(effects, kind) /\ kind \in Kinds /\ Len(effects) < MaxOps
      BY <1>2, <2>2 DEF Emit, BudgetInv
    <3>2. UNCHANGED <<profile, used, calls, logs, logBytes, reached>>
      BY <1>2 DEF Emit, ScriptUnchanged, history
    <3> QED BY <3>1, <3>2 DEF BudgetInv
  <2> QED BY <2>1, <2>2
<1>3. ASSUME NEW t \in Sizes, NEW p \in Sizes, NEW m \in Sizes, Log(t, p, m)
      PROVE  BudgetInv'
  <2> DEFINE bytes == EntryBytes(t, p, m)
  <2>1. bytes \in Nat
    BY EntryBytesNat
  <2> HIDE DEF bytes
  <2>2. UNCHANGED <<profile, used, calls, effects, reached>>
    BY <1>3 DEF Log, ScriptUnchanged, history
  <2>3. CASE UNCHANGED <<logs, logBytes>>
    BY <2>2, <2>3, <1>1
  <2>4. CASE /\ Len(logs) < MaxEntries /\ logBytes + bytes <= MaxTotalBytes
             /\ logs' = Append(logs, bytes) /\ logBytes' = logBytes + bytes
    BY <2>1, <2>2, <2>4, SMTT(30) DEF BudgetInv
  <2>5. \/ UNCHANGED <<logs, logBytes>>
        \/ /\ Len(logs) < MaxEntries /\ logBytes + bytes <= MaxTotalBytes
           /\ logs' = Append(logs, bytes) /\ logBytes' = logBytes + bytes
    <3>1. IF Len(logs) >= MaxEntries \/ logBytes + bytes > MaxTotalBytes
            THEN UNCHANGED <<logs, logBytes>>
            ELSE logs' = Append(logs, bytes) /\ logBytes' = logBytes + bytes
      BY <1>3, Zenon DEF Log, Captured, bytes
    <3>2. Len(logs) \in Nat /\ logBytes \in Nat /\ MaxEntries \in Nat /\ MaxTotalBytes \in Nat
      BY InvocationAssumption DEF BudgetInv
    <3> QED BY <2>1, <3>1, <3>2
  <2> QED BY <2>3, <2>4, <2>5
<1>4. ASSUME NEW name \in Names, IoCall(name) PROVE BudgetInv'
  <2>1. UNCHANGED <<profile, effects, logs, logBytes>> /\ profile = "full"
    BY <1>4 DEF IoCall, ScriptUnchanged, IoInjected
  <2>2. CASE name \notin Listed \/ BudgetSpent
    BY <1>4, <2>1, <2>2, <1>1, Zenon DEF IoCall
  <2>3. CASE name \in Listed /\ ~ BudgetSpent
    <3>1. Dispatch(name) /\ used' = used + 1
      BY <1>4, <2>3 DEF IoCall
    <3>2. used < MaxOps
      BY <2>3, SMTT(30) DEF BudgetSpent, BudgetInv
    <3>3. /\ calls' \in Nat /\ calls' <= calls + 1
          /\ reached' \in {reached, reached \union {name}}
      BY <3>1, DispatchFacts, Zenon DEF BudgetInv
    <3> QED BY <2>1, <2>3, <3>1, <3>2, <3>3 DEF BudgetInv
  <2> QED BY <2>2, <2>3
<1>5. CASE \/ Inject \/ Evaluated \/ EvalFails \/ Freeze \/ ParseContext
           \/ \E v \in Values : HandlerReturns(v)
           \/ HandlerThrows \/ SerializeFails \/ Serialized
  BY <1>5, <1>1, SMTT(30) DEF Inject, Evaluated, EvalFails, Freeze, ParseContext, HandlerReturns,
     HandlerThrows, SerializeFails, Serialized, RunUnchanged, buffers, history
<1>6. CASE FrameworkFails \/ BuildsResponse \/ DeadlinePasses
  BY <1>6, <1>1 DEF FrameworkFails, BuildsResponse, DeadlinePasses, buffers, history
<1>7. CASE KeepDate \/ ReadClock \/ Throw \/ Catch \/ Interrupt
  BY <1>7, <1>1, Zenon
     DEF KeepDate, ReadClock, Throw, Catch, Interrupt, ScriptUnchanged, ExcUnchanged,
     buffers, history
<1>8. CASE UNCHANGED invocationVars
  BY <1>8, <1>1, Zenon DEF invocationVars, execution, history
<1> QED BY <1>2, <1>3, <1>4, <1>5, <1>6, <1>7, <1>8 DEF InvocationNext

\* The budgets hold in every state.
LEMMA BudgetInvHolds == InvocationSpec => []BudgetInv
<1>1. InvocationInit => BudgetInv
  BY InvocationAssumption DEF InvocationInit, BudgetInv
<1> QED BY <1>1, BudgetStep, PTL DEF InvocationSpec

\* No script, however it catches and retries, exceeds a budget of its execution
\* (inject_mux, inject_emit, capture_log).
THEOREM InvocationBudgets == InvocationSpec => []BudgetsHold
<1>1. BudgetInv => BudgetsHold
  BY InvocationAssumption DEF BudgetInv, BudgetsHold
<1> QED BY <1>1, BudgetInvHolds, PTL

\* No backend is called for a name that was not listed, and none in a deterministic run
\* (inject_mux, engine/mod.rs run).
THEOREM InvocationReach == InvocationSpec => []OnlyListedReached
<1>1. BudgetInv => OnlyListedReached
  BY DEF BudgetInv, OnlyListedReached
<1> QED BY <1>1, BudgetInvHolds, PTL

-----------------------------------------------------------------------------
(* The effects and the status line                                         *)

\* The engine errors that carry no tag.
PlainKinds == {"Syntax", "ScriptNotFound", "ModuleNotFound", "HandlerNotDefined", "Timeout",
               "MemoryLimit", "Malformed", "OutputTooLarge", "Internal", "ShuttingDown",
               "Script"}

\* An outcome the response can be built from.
GoodOutcome(o) ==
    \/ o.kind = "success" \/ o.kind \in PlainKinds
    \/ o.kind = "Capability" /\ o.tag.owner \in Owners /\ o.tag.retryable \in BOOLEAN
         /\ o.tag.code \in Codes

\* A pending capability fault has the fields the tag is read from.
GoodExc(e) == e.kind = "capability" => e.tag \in [source : Names \union {"engine"},
                                                   code : Codes, retryable : BOOLEAN,
                                                   owner : Owners]

GoodResponse(r) ==
    /\ r.status = 200 <=> r.error = "null"
    /\ r.status \in {500, 503} <=> r.retryable
    /\ r.retryAfter <=> r.retryable
    /\ r.status = 200 \/ r.status \in 400 .. 499 \/ r.retryable
    /\ r.effects = effects

ResponseInv ==
    /\ runStage \in RunStages
    /\ GoodExc(exc)
    /\ runStage = "ended" => GoodOutcome(outcome)
    /\ runStage = "answered" => GoodResponse(response)

\* The envelope of an engine error: its retry hint is a Boolean, its owner one of the
\* three, and its code is not the null of a success.
LEMMA EnvelopeFields ==
    ASSUME NEW o, GoodOutcome(o), o.kind # "success"
    PROVE  /\ IntoEnvelope(o).retryable \in BOOLEAN
           /\ IntoEnvelope(o).owner \in Owners
           /\ IntoEnvelope(o).code # "null"
<1>1. CASE o.kind \in PlainKinds
  BY <1>1, TimeoutRetryableAssumption, Zenon
     DEF PlainKinds, IntoEnvelope, RuntimeEnvelope, Envelope, Owners
<1>2. CASE o.kind = "Capability" /\ o.tag.owner \in Owners /\ o.tag.retryable \in BOOLEAN
           /\ o.tag.code \in Codes
  BY <1>2 DEF IntoEnvelope, Envelope, Codes
<1> QED BY <1>1, <1>2 DEF GoodOutcome

\* A parked fault is a 4xx.
LEMMA ParkIs4xx ==
    ASSUME NEW owner \in Owners, NEW code
    PROVE  ParkStatus(owner, code) \in 400 .. 499
<1>1. ParkStatus(owner, code) \in {413, 404, 400, 409, 422}
  BY DEF ParkStatus, Owners
<1> QED BY <1>1

\* Whatever error it answers, the box keeps status line and body in step.
LEMMA ErrorResponseGood ==
    ASSUME NEW o, GoodOutcome(o), o.kind # "success"
    PROVE  GoodResponse(ErrorResponse(IntoEnvelope(o)))
<1> DEFINE e == IntoEnvelope(o)
           p == Project(e.retryable, e.owner, e.code)
<1>1. e.retryable \in BOOLEAN /\ e.owner \in Owners /\ e.code # "null"
  BY EnvelopeFields
<1> HIDE DEF e, p
<1>2. /\ p.retryAfter = e.retryable
      /\ e.retryable => p.status \in {500, 503}
      /\ ~ e.retryable => p.status \in 400 .. 499
  <2>1. CASE e.retryable
    <3>1. p = Projected(IF e.code = "INTERNAL" THEN 500 ELSE 503, TRUE)
      BY <2>1, Zenon DEF p, Project
    <3>2. p.retryAfter = TRUE /\ p.status \in {500, 503}
      BY <3>1 DEF Projected
    <3>3. e.retryable = TRUE
      BY <1>1, <2>1
    <3> QED BY <3>2, <3>3, Zenon
  <2>2. CASE ~ e.retryable
    <3>1. p = Projected(ParkStatus(e.owner, e.code), FALSE)
      BY <2>2, Zenon DEF p, Project
    <3>2. p.retryAfter = FALSE /\ p.status = ParkStatus(e.owner, e.code)
      BY <3>1 DEF Projected
    <3>3. ParkStatus(e.owner, e.code) \in 400 .. 499
      BY <1>1, ParkIs4xx
    <3>4. e.retryable = FALSE
      BY <1>1, <2>2
    <3> QED BY <3>2, <3>3, <3>4, ZenonT(30)
  <2> QED BY <2>1, <2>2, Zenon
<1>3. ErrorResponse(e) = [error |-> e.code, retryable |-> e.retryable, status |-> p.status,
                          retryAfter |-> p.retryAfter, effects |-> effects]
  BY DEF ErrorResponse, p
<1>4. GoodResponse(ErrorResponse(e))
  BY <1>1, <1>2, <1>3 DEF GoodResponse
<1> QED BY <1>4 DEF e

\* So does the answer to a script that returned (response.rs, handler_status).
LEMMA HandlerResponseGood ==
    ASSUME NEW error \in HandlerErrors
    PROVE  GoodResponse(HandlerResponse(error))
<1> DEFINE r == HandlerResponse(error)
<1>1. CASE error = "null"
  <2>1. r = [error |-> "null", retryable |-> FALSE, status |-> 200, retryAfter |-> FALSE,
             effects |-> effects]
    BY <1>1, Zenon DEF HandlerResponse, HandlerStatus, Projected
  <2>2. /\ r.error = "null" /\ r.retryable = FALSE /\ r.status = 200
        /\ r.retryAfter = FALSE /\ r.effects = effects
    BY <2>1
  <2> HIDE DEF r
  <2>3. r.status \notin {500, 503}
    BY <2>2
  <2>4. GoodResponse(r)
    BY <2>2, <2>3 DEF GoodResponse
  <2> QED BY <2>4 DEF r
<1>2. CASE error = "retryable"
  <2>1. r = [error |-> "handler", retryable |-> TRUE, status |-> 503, retryAfter |-> TRUE,
             effects |-> effects]
    BY <1>2, Zenon DEF HandlerResponse, HandlerStatus, Projected
  <2>2. /\ r.error # "null" /\ r.status # 200 /\ r.status \in {500, 503}
        /\ r.retryable = TRUE /\ r.retryAfter = TRUE /\ r.effects = effects
    BY <2>1
  <2> HIDE DEF r
  <2>3. GoodResponse(r)
    BY <2>2, Zenon DEF GoodResponse
  <2> QED BY <2>3 DEF r
<1>3. CASE error \in {"not_retryable", "other"}
  <2>1. r = [error |-> "handler", retryable |-> FALSE, status |-> 422, retryAfter |-> FALSE,
             effects |-> effects]
    BY <1>3, Zenon DEF HandlerResponse, HandlerStatus, Projected
  <2>2. /\ r.error # "null" /\ r.status # 200 /\ r.status \notin {500, 503}
        /\ r.status \in 400 .. 499
        /\ r.retryable = FALSE /\ r.retryAfter = FALSE /\ r.effects = effects
    BY <2>1
  <2> HIDE DEF r
  <2>3. GoodResponse(r)
    BY <2>2, ZenonT(30) DEF GoodResponse
  <2> QED BY <2>3 DEF r
<1> QED BY <1>1, <1>2, <1>3 DEF HandlerErrors

\* And the answer to any outcome of the engine.
LEMMA BuildResponseGood ==
    ASSUME NEW o, NEW v, GoodOutcome(o)
    PROVE  GoodResponse(BuildResponse(o, v))
<1>1. CASE o.kind # "success"
  BY <1>1, ErrorResponseGood DEF BuildResponse
<1>2. CASE o.kind = "success" /\ v.body = "malformed"
  <2>1. GoodOutcome(EngineError("Malformed")) /\ EngineError("Malformed").kind # "success"
    BY DEF GoodOutcome, EngineError, PlainKinds
  <2>2. BuildResponse(o, v) = ErrorResponse(IntoEnvelope(EngineError("Malformed")))
    BY <1>2, Zenon DEF BuildResponse
  <2> QED BY <2>1, <2>2, ErrorResponseGood
<1>3. CASE o.kind = "success" /\ v.body # "malformed"
  <2>1. BuildResponse(o, v)
          = HandlerResponse(IF v.body \in HandlerErrors THEN v.body ELSE "null")
    BY <1>3 DEF BuildResponse
  <2>2. (IF v.body \in HandlerErrors THEN v.body ELSE "null") \in HandlerErrors
    BY DEF HandlerErrors
  <2> QED BY <2>1, <2>2, HandlerResponseGood
<1> QED BY <1>1, <1>2, <1>3

\* Every step keeps it: exceptions are raised with well-formed tags, outcomes are
\* engine errors, and the response is built from one.
LEMMA ResponseStep == ResponseInv /\ [InvocationNext]_invocationVars => ResponseInv'
<1> SUFFICES ASSUME ResponseInv, [InvocationNext]_invocationVars PROVE ResponseInv'
  OBVIOUS
<1> DEFINE Quiet == runStage \notin {"ended", "answered"}
<1>0. \A k \in PlainKinds : GoodOutcome(EngineError(k))
  BY DEF GoodOutcome, EngineError
<1>1. ASSUME Quiet, UNCHANGED runStage, GoodExc(exc') PROVE ResponseInv'
  BY <1>1 DEF ResponseInv
<1>2. ASSUME NEW s \in RunStages \ {"ended", "answered"}, GotoStage(s), UNCHANGED exc PROVE ResponseInv'
  BY <1>2 DEF ResponseInv, GotoStage
<1>3. ASSUME NEW o, Ends(o), GoodOutcome(o), UNCHANGED exc PROVE ResponseInv'
  BY <1>3 DEF ResponseInv, Ends, RunStages
<1>4. \A k \in {"none", "script", "syntax", "unresolved", "memory", "interrupt"} : GoodExc(Exc(k))
  BY DEF GoodExc, Exc
<1>5. ASSUME ScriptRuns PROVE Quiet
  BY <1>5 DEF ScriptRuns, ScriptStages
<1>6. ASSUME NEW kind \in Kinds \union {"malformed"}, Emit(kind) PROVE ResponseInv'
  BY <1>1, <1>4, <1>5, <1>6 DEF Emit, Throws, Continues, ScriptUnchanged, ResponseInv
<1>7. ASSUME NEW t \in Sizes, NEW p \in Sizes, NEW m \in Sizes, Log(t, p, m)
      PROVE  ResponseInv'
  BY <1>1, <1>5, <1>7 DEF Log, Continues, ScriptUnchanged, ResponseInv
<1>8. ASSUME NEW name \in Names, IoCall(name) PROVE ResponseInv'
  <2>1. \A src \in Names \union {"engine"}, c \in Codes, r \in BOOLEAN, w \in Owners :
          GoodExc(CapabilityExc(Fault(src, c, r, w)))
    BY DEF GoodExc, CapabilityExc, Fault
  <2>2. \A f \in BackendFaults : GoodExc(CapabilityExc(f))
    BY DEF GoodExc, CapabilityExc, BackendFaults, Codes, Owners
  <2>3. \A f \in MuxFaults(name) : GoodExc(CapabilityExc(f))
    BY <2>1, Zenon DEF MuxFaults, Codes, Owners
  <2>4. ASSUME Dispatch(name) PROVE GoodExc(exc')
    <3>1. \/ exc' = exc
          \/ \E f \in BackendFaults : exc' = CapabilityExc(f)
          \/ exc' = CapabilityExc(Fault(name, "EGRESS_UNAVAILABLE", TRUE, "operator"))
          \/ \E f \in MuxFaults(name) : exc' = CapabilityExc(f)
      BY <2>4, Zenon DEF Dispatch, Throws, Continues
    <3>2. GoodExc(CapabilityExc(Fault(name, "EGRESS_UNAVAILABLE", TRUE, "operator")))
      BY <2>1, Zenon DEF Codes, Owners
    <3> QED BY <2>2, <2>3, <3>1, <3>2, Zenon DEF ResponseInv
  <2>5. GoodExc(CapabilityExc(Fault(name, "RESOURCE_NOT_FOUND", FALSE, "developer")))
    BY <2>1, Zenon DEF Codes, Owners
  <2>6. GoodExc(CapabilityExc(Fault("engine", "IO_OP_LIMIT", FALSE, "developer")))
    BY <2>1, Zenon DEF Codes, Owners
  <2>7. GoodExc(exc')
    BY <1>8, <2>4, <2>5, <2>6, Zenon DEF IoCall, Throws
  <2> QED BY <1>1, <1>5, <1>8, <2>7 DEF IoCall, ScriptUnchanged
<1>9. CASE KeepDate \/ ReadClock \/ Throw \/ Catch \/ Interrupt
  <2>1. UNCHANGED runStage /\ runStage \in ScriptStages
    BY <1>9 DEF KeepDate, ReadClock, Throw, Catch, Interrupt, ScriptRuns, ScriptUnchanged,
       ExcUnchanged
  <2>2. exc' = exc \/ \E k \in {"none", "script", "syntax", "unresolved", "memory", "interrupt"} :
                        exc' = Exc(k)
    BY <1>9 DEF KeepDate, ReadClock, Throw, Catch, Interrupt, Continues, NoExc, Exc
  <2>3. GoodExc(exc')
    BY <2>2, <1>4 DEF ResponseInv
  <2> QED BY <2>1, <2>3, <1>1 DEF ScriptStages
<1>10. CASE Inject \/ Evaluated \/ Freeze \/ ParseContext \/ \E v \in Values : HandlerReturns(v)
  <2>1. UNCHANGED exc
    BY <1>10 DEF Inject, Evaluated, Freeze, ParseContext, HandlerReturns, RunUnchanged
  <2>2. \/ \E s \in {"eval", "freeze", "parse", "handler", "serialize"} : GotoStage(s)
        \/ \E k \in {"HandlerNotDefined", "MemoryLimit"} : Ends(EngineError(k))
    BY <1>10 DEF Inject, Evaluated, Freeze, ParseContext, HandlerReturns
  <2> QED BY <2>1, <2>2, <1>0, <1>2, <1>3 DEF PlainKinds, RunStages
<1>11. CASE FrameworkFails \/ EvalFails \/ SerializeFails
  BY <1>11, <1>0, <1>3 DEF FrameworkFails, EvalFails, SerializeFails, RunUnchanged, PlainKinds
<1>12. CASE HandlerThrows
  <2>1. GoodOutcome(ClassifyThrow(exc, timedOut))
    <3>1. CASE exc.kind = "capability" /\ TagIsRead(exc.tag)
      <4>1. GoodOutcome(TagError(exc.tag))
        BY <3>1 DEF ResponseInv, GoodExc, TagError, GoodOutcome
      <4> QED BY <4>1, <1>0 DEF ClassifyThrow, PlainKinds
    <3>2. CASE ~ (exc.kind = "capability" /\ TagIsRead(exc.tag))
      BY <3>2, <1>0 DEF ClassifyThrow, PlainKinds
    <3> QED BY <3>1, <3>2
  <2> QED BY <1>12, <2>1, <1>3 DEF HandlerThrows, RunUnchanged
<1>13. CASE Serialized
  <2>1. GoodOutcome(CapsOutput(value))
    BY <1>0 DEF CapsOutput, GoodOutcome, Success, PlainKinds
  <2> QED BY <1>13, <2>1, <1>3 DEF Serialized, RunUnchanged
<1>14. CASE BuildsResponse
  <2> DEFINE r == BuildResponse(outcome, value)
  <2>1. GoodResponse(r)
    BY <1>14, BuildResponseGood DEF BuildsResponse, ResponseInv
  <2>2. response' = r /\ runStage' = "answered" /\ effects' = effects /\ exc' = exc
    BY <1>14 DEF BuildsResponse, buffers
  <2> HIDE DEF r
  <2>3. GoodResponse(response)'
    BY <2>1, <2>2 DEF GoodResponse
  <2>4. runStage' \in RunStages /\ runStage' # "ended" /\ GoodExc(exc')
    BY <2>2 DEF RunStages, ResponseInv
  <2> QED BY <2>3, <2>4, Zenon DEF ResponseInv
<1>15. ASSUME UNCHANGED <<runStage, exc, outcome, response, effects>> PROVE ResponseInv'
  <2> DEFINE r == response
  <2>0. response' = r /\ effects' = effects
    BY <1>15
  <2> HIDE DEF r
  <2>1. GoodResponse(r) => GoodResponse(response)'
    BY <2>0 DEF GoodResponse
  <2>2. GoodOutcome(outcome)' <=> GoodOutcome(outcome)
    BY <1>15, Zenon DEF GoodOutcome
  <2>3. GoodExc(exc)' <=> GoodExc(exc)
    BY <1>15, Zenon DEF GoodExc
  <2>4. runStage' = runStage
    BY <1>15
  <2> QED BY <2>1, <2>2, <2>3, <2>4, Zenon DEF ResponseInv, r
<1>16. CASE DeadlinePasses \/ UNCHANGED invocationVars
  <2>1. UNCHANGED <<runStage, exc, outcome, response, effects>>
    BY <1>16 DEF DeadlinePasses, buffers, invocationVars, execution
  <2> QED BY <1>15, <2>1
<1> QED BY <1>6, <1>7, <1>8, <1>9, <1>10, <1>11, <1>12, <1>13, <1>14, <1>16, SMTT(30)
           DEF InvocationNext

\* Exceptions, outcomes and the answer are well formed in every state.
LEMMA ResponseInvHolds == InvocationSpec => []ResponseInv
<1>1. InvocationInit => ResponseInv
  BY DEF InvocationInit, ResponseInv, NoExc, GoodExc, RunStages
<1> QED BY <1>1, ResponseStep, PTL DEF InvocationSpec

\* Whatever the script did, status line, retry hint and Retry-After of the answer agree
\* (status.rs project, response.rs handler_status).
THEOREM InvocationStatus == InvocationSpec => []StatusAgrees
<1>1. ResponseInv => StatusAgrees
  BY DEF ResponseInv, GoodResponse, StatusAgrees
<1> QED BY <1>1, ResponseInvHolds, PTL

\* The effects the script emitted are in the answer, on both paths (drain_effects).
THEOREM InvocationEffects == InvocationSpec => []EffectsSurvive
<1>1. ResponseInv => EffectsSurvive
  BY DEF ResponseInv, GoodResponse, EffectsSurvive
<1> QED BY <1>1, ResponseInvHolds, PTL

-----------------------------------------------------------------------------
(* The timeout                                                             *)

\* Once the flag is set no code of the script runs any more: the interrupt is pending
\* and cannot be caught until the run ends, as one of three outcomes.
TimeoutInv ==
    timedOut =>
        /\ runStage \in ScriptStages \union {"ended", "answered"}
        /\ runStage \in ScriptStages => exc = Exc("interrupt")
        /\ runStage \in {"ended", "answered"} => outcome.kind \in {"Syntax", "Internal", "Timeout"}
        /\ (runStage = "answered" /\ outcome.kind = "Timeout") =>
               response.error = "TIMEOUT" /\ response.retryable = TimeoutRetryable

\* Every step keeps an interrupt on its way to TIMEOUT.
LEMMA TimeoutStep == TimeoutInv /\ [InvocationNext]_invocationVars => TimeoutInv'
<1> SUFFICES ASSUME TimeoutInv, [InvocationNext]_invocationVars PROVE TimeoutInv'
  OBVIOUS
<1>1. Exc("interrupt") # NoExc /\ ~ Catchable(Exc("interrupt"))
  BY DEF Exc, NoExc, Catchable
<1>2. ASSUME ScriptRuns \/ runStage \in {"inject", "freeze", "parse"} PROVE ~ timedOut
  BY <1>1, <1>2 DEF ScriptRuns, ScriptStages, TimeoutInv
<1>3. ASSUME ~ timedOut, UNCHANGED timedOut PROVE TimeoutInv'
  BY <1>3 DEF TimeoutInv
<1>4. CASE \/ \E kind \in Kinds \union {"malformed"} : Emit(kind)
           \/ \E t, p, m \in Sizes : Log(t, p, m)
           \/ \E name \in Names : IoCall(name)
           \/ KeepDate \/ ReadClock \/ Throw
  BY <1>2, <1>3, <1>4, Zenon DEF Emit, Log, IoCall, KeepDate, ReadClock, Throw
<1>5. CASE Catch
  BY <1>1, <1>3, <1>5 DEF Catch, TimeoutInv
<1>6. CASE Interrupt
  BY <1>6 DEF Interrupt, TimeoutInv, ScriptRuns, ScriptStages, ExcUnchanged, ScriptUnchanged
<1>7. CASE Inject \/ Freeze \/ ParseContext
  BY <1>2, <1>3, <1>7 DEF Inject, Freeze, ParseContext, RunUnchanged
<1>8. CASE FrameworkFails
  BY <1>8, Zenon DEF FrameworkFails, Ends, TimeoutInv, EngineError, ScriptStages
<1>9. CASE Evaluated \/ Serialized \/ \E v \in Values : HandlerReturns(v)
  <2>1. runStage \in ScriptStages /\ exc = NoExc /\ UNCHANGED timedOut
    BY <1>9 DEF Evaluated, Serialized, HandlerReturns, RunUnchanged, ScriptStages
  <2> QED BY <1>1, <1>3, <2>1 DEF TimeoutInv
<1>10. CASE EvalFails \/ SerializeFails
  <2>1. /\ runStage' = "ended" /\ runStage \in {"eval", "serialize"}
        /\ UNCHANGED <<timedOut, exc, response>>
    BY <1>10 DEF EvalFails, SerializeFails, Ends, RunUnchanged
  <2>2. timedOut => exc.kind = "interrupt"
    BY <2>1 DEF TimeoutInv, Exc, ScriptStages
  <2>3. exc.kind = "interrupt" => outcome'.kind \in {"Syntax", "Internal"}
    BY <1>10 DEF EvalFails, SerializeFails, Ends, EngineError
  <2> QED BY <2>1, <2>2, <2>3 DEF TimeoutInv, ScriptStages
<1>11. CASE HandlerThrows
  <2>1. timedOut => ClassifyThrow(exc, timedOut) = EngineError("Timeout")
    BY DEF ClassifyThrow
  <2>2. /\ runStage' = "ended" /\ outcome' = ClassifyThrow(exc, timedOut)
        /\ UNCHANGED timedOut
    BY <1>11 DEF HandlerThrows, Ends, RunUnchanged
  <2>3. EngineError("Timeout").kind = "Timeout"
    BY DEF EngineError
  <2> QED BY <2>1, <2>2, <2>3, Zenon DEF TimeoutInv, ScriptStages
<1>12. CASE BuildsResponse
  <2>1. ASSUME outcome.kind = "Timeout"
        PROVE  /\ response'.error = "TIMEOUT"
               /\ response'.retryable = TimeoutRetryable
    <3>1. IntoEnvelope(outcome) = RuntimeEnvelope("TIMEOUT", TimeoutRetryable, "developer")
      BY <2>1 DEF IntoEnvelope
    <3>2. response' = ErrorResponse(IntoEnvelope(outcome))
      BY <1>12, <2>1 DEF BuildsResponse, BuildResponse
    <3> QED BY <3>1, <3>2 DEF ErrorResponse, RuntimeEnvelope, Envelope
  <2>2. runStage = "ended" /\ runStage' = "answered" /\ UNCHANGED <<timedOut, outcome, exc>>
    BY <1>12 DEF BuildsResponse
  <2> QED BY <2>1, <2>2, Zenon DEF TimeoutInv, ScriptStages
<1>13. CASE DeadlinePasses
  BY <1>13 DEF DeadlinePasses, TimeoutInv
<1>14. CASE UNCHANGED invocationVars
  BY <1>14 DEF invocationVars, execution, TimeoutInv
<1> QED BY <1>4, <1>5, <1>6, <1>7, <1>8, <1>9, <1>10, <1>11, <1>12, <1>13, <1>14 DEF InvocationNext

\* A pending interrupt stays on its way in every state.
LEMMA TimeoutInvHolds == InvocationSpec => []TimeoutInv
<1>1. InvocationInit => TimeoutInv
  BY DEF InvocationInit, TimeoutInv
<1> QED BY <1>1, TimeoutStep, PTL DEF InvocationSpec

\* A handler the deadline interrupts answers TIMEOUT with the operator's retry hint
\* (classify_throw, into_envelope).
THEOREM InvocationTimeout == InvocationSpec => []InterruptedHandlerTimesOut
<1>1. TimeoutInv => InterruptedHandlerTimesOut
  BY DEF TimeoutInv, InterruptedHandlerTimesOut
<1> QED BY <1>1, TimeoutInvHolds, PTL

-----------------------------------------------------------------------------
(* The cause                                                               *)

\* The run died of a capability error of a known source, and not of a module that
\* does not evaluate or a value that does not serialize.
Carried ==
    /\ exc.kind = "capability" /\ exc.tag.source \in KnownSources
    /\ outcome.kind \notin {"success", "Syntax", "Internal"}

\* The framework runs with no capability error pending; one that ends the run is in
\* the outcome, and then in the answer.
CauseInv ==
    /\ runStage \in {"inject", "freeze", "parse"} => exc.kind # "capability"
    /\ runStage = "ended" /\ Carried =>
          /\ outcome.kind = "Capability"
          /\ outcome.tag.code = exc.tag.code /\ outcome.tag.retryable = exc.tag.retryable
    /\ runStage = "answered" /\ Carried =>
          response.error = exc.tag.code /\ response.retryable = exc.tag.retryable

\* Every step keeps the cause.
LEMMA CauseStep == CauseInv /\ ResponseInv /\ TimeoutInv /\ [InvocationNext]_invocationVars => CauseInv'
<1> SUFFICES ASSUME CauseInv, ResponseInv, TimeoutInv, [InvocationNext]_invocationVars PROVE CauseInv'
  OBVIOUS
<1>1. NoExc.kind # "capability" /\ Exc("interrupt").kind # "capability"
  BY Zenon DEF NoExc, Exc
<1>2. ASSUME runStage' \in ScriptStages PROVE CauseInv'
  BY <1>2 DEF CauseInv, ScriptStages
<1>3. CASE \/ \E kind \in Kinds \union {"malformed"} : Emit(kind)
           \/ \E t, p, m \in Sizes : Log(t, p, m)
           \/ \E name \in Names : IoCall(name)
           \/ KeepDate \/ ReadClock \/ Throw \/ Catch \/ Interrupt
  <2>1. runStage \in ScriptStages /\ runStage' = runStage
    BY <1>3, Zenon DEF Emit, Log, IoCall, KeepDate, ReadClock, Throw, Catch, Interrupt, ScriptRuns,
                ExcUnchanged, ScriptUnchanged
  <2> QED BY <1>2, <2>1
<1>4. CASE Inject \/ Freeze \/ ParseContext \/ FrameworkFails
  <2>1. exc.kind # "capability" /\ exc' = exc
    BY <1>4, Zenon DEF Inject, Freeze, ParseContext, FrameworkFails, RunUnchanged, CauseInv
  <2> QED BY <2>1 DEF CauseInv, Carried
<1>5. CASE Evaluated \/ Serialized \/ \E v \in Values : HandlerReturns(v)
  <2>1. exc = NoExc /\ exc' = exc
    BY <1>5, Zenon DEF Evaluated, Serialized, HandlerReturns, RunUnchanged
  <2> QED BY <1>1, <2>1 DEF CauseInv, Carried
<1>6. CASE EvalFails \/ SerializeFails
  <2>1. exc' = exc /\ runStage' = "ended"
    BY <1>6 DEF EvalFails, SerializeFails, RunUnchanged, Ends
  <2>2. exc.kind = "capability" => outcome'.kind \in {"Syntax", "Internal"}
    BY <1>6, SMTT(30) DEF EvalFails, SerializeFails, Ends, EngineError
  <2> QED BY <2>1, <2>2 DEF CauseInv, Carried
<1>7. CASE HandlerThrows
  <2>1. /\ runStage = "handler" /\ runStage' = "ended" /\ exc' = exc
        /\ outcome' = ClassifyThrow(exc, timedOut)
    BY <1>7 DEF HandlerThrows, Ends, RunUnchanged
  <2>2. ASSUME exc.kind = "capability", exc.tag.source \in KnownSources
        PROVE  /\ outcome'.kind = "Capability"
               /\ outcome'.tag.code = exc.tag.code
               /\ outcome'.tag.retryable = exc.tag.retryable
    <3>1. ~ timedOut
      BY <1>1, <2>1, <2>2 DEF TimeoutInv, ScriptStages
    <3>2. outcome' = TagError(exc.tag)
      BY <2>1, <2>2, <3>1 DEF ClassifyThrow, TagIsRead
    <3>3. exc.tag \in [source : Names \union {"engine"}, code : Codes, retryable : BOOLEAN,
                       owner : Owners]
      BY <2>2, Zenon DEF ResponseInv, GoodExc
    <3> QED BY <3>2, <3>3 DEF TagError
  <2> QED BY <2>1, <2>2 DEF CauseInv, Carried
<1>8. CASE BuildsResponse
  <2>1. runStage = "ended" /\ runStage' = "answered" /\ UNCHANGED <<outcome, exc>>
        /\ response' = BuildResponse(outcome, value)
    BY <1>8, Zenon DEF BuildsResponse
  <2>2. ASSUME Carried
        PROVE  response'.error = exc.tag.code /\ response'.retryable = exc.tag.retryable
    <3>1. /\ outcome.kind = "Capability"
          /\ outcome.tag.code = exc.tag.code /\ outcome.tag.retryable = exc.tag.retryable
      BY <2>1, <2>2 DEF CauseInv
    <3>2. IntoEnvelope(outcome) = Envelope("capability", outcome.tag.source, outcome.tag.code,
                                           outcome.tag.retryable, outcome.tag.owner)
      BY <3>1 DEF IntoEnvelope
    <3>3. response' = ErrorResponse(IntoEnvelope(outcome))
      BY <2>1, <3>1 DEF BuildResponse
    <3> QED BY <3>1, <3>2, <3>3, SMTT(30) DEF ErrorResponse, Envelope
  <2>3. Carried' <=> Carried
    BY <2>1, Zenon DEF Carried
  <2> QED BY <2>1, <2>2, <2>3 DEF CauseInv
<1>9. CASE DeadlinePasses \/ UNCHANGED invocationVars
  <2>1. UNCHANGED <<runStage, exc, outcome, response>>
    BY <1>9 DEF DeadlinePasses, invocationVars, execution
  <2> QED BY <2>1 DEF CauseInv, Carried
<1> QED BY <1>3, <1>4, <1>5, <1>6, <1>7, <1>8, <1>9 DEF InvocationNext

\* What went wrong reaches the caller, for every script, budget and set of backends:
\* a capability error of a known source with its code and retry hint, an interrupted
\* handler as TIMEOUT, and a status line that agrees (classify_throw,
\* read_capability_tag, into_envelope, project).
THEOREM InvocationCause == InvocationSpec => []CauseReachesCaller
<1>1. InvocationInit => CauseInv
  BY DEF InvocationInit, CauseInv, NoExc
<1>2. CauseInv => KnownErrorsRoundTrip
  BY DEF CauseInv, Carried, KnownErrorsRoundTrip
<1>3. InvocationSpec => []CauseInv
  BY <1>1, CauseStep, ResponseInvHolds, TimeoutInvHolds, PTL DEF InvocationSpec
<1>4. StatusAgrees /\ KnownErrorsRoundTrip /\ InterruptedHandlerTimesOut => CauseReachesCaller
  BY DEF CauseReachesCaller
<1> QED BY <1>2, <1>3, <1>4, InvocationStatus, InvocationTimeout, PTL

-----------------------------------------------------------------------------
(* The engine pool: TypeOK relates what a thread holds to the step it is   *)
(* at and is inductive alone; the gauge and the warm set rest on it        *)

\* Any set of threads is finite.
LEMMA ThreadsFinite ==
    ASSUME NEW S, S \subseteq Threads PROVE IsFiniteSet(S) /\ Cardinality(S) \in Nat
  BY FS_Subset, FS_CardinalityType, PoolAssumption DEF PoolAssumption

\* Entering a set of threads adds one to its size.
LEMMA CountIn ==
    ASSUME NEW S, S \subseteq Threads, NEW t, t \notin S
    PROVE  Cardinality(S \cup {t}) = Cardinality(S) + 1
  BY ThreadsFinite, FS_AddElement

\* Leaving it takes one away.
LEMMA CountOut ==
    ASSUME NEW S, S \subseteq Threads, NEW t \in S
    PROVE  Cardinality(S \ {t}) = Cardinality(S) - 1
  BY ThreadsFinite, FS_RemoveElement

\* What popping does to a queue.
LEMMA QueuePop ==
    ASSUME NEW S, NEW q \in Seq(S), q # <<>>
    PROVE  Head(q) \in S /\ Tail(q) \in Seq(S) /\ Len(Tail(q)) = Len(q) - 1 /\ Len(Tail(q)) \in Nat
  OBVIOUS

\* Popping the queue yields a runtime and a queue shorter by one.
LEMMA PopFacts ==
    ASSUME TypeOK, idle # <<>>
    PROVE  /\ Head(idle) \in Runtimes
           /\ Tail(idle) \in Seq(Runtimes)
           /\ Len(Tail(idle)) = Len(idle) - 1
           /\ Len(Tail(idle)) \in 0..PoolSize
           /\ Len(idle) \in Nat
<1>1. idle \in Seq(Runtimes) /\ Len(idle) \in 0..PoolSize
  BY DEF TypeOK
<1>2. Head(idle) \in Runtimes /\ Tail(idle) \in Seq(Runtimes)
      /\ Len(Tail(idle)) = Len(idle) - 1
  BY <1>1, QueuePop
<1>3. Len(Tail(idle)) \in Nat
  BY <1>1, QueuePop
<1> QED
  BY <1>1, <1>2, <1>3, PoolAssumption DEF PoolAssumption

-----------------------------------------------------------------------------
(* TypeOK                                                                  *)

\* A full pool, and nobody running.
LEMMA InitType == Init => TypeOK
<1> SUFFICES ASSUME Init PROVE TypeOK
  OBVIOUS
<1>1. idle \in Seq(Runtimes) /\ Len(idle) = PoolSize
  BY PoolAssumption DEF Init, PoolAssumption, Runtimes
<1> QED
  BY <1>1, PoolAssumption DEF Init, TypeOK, PoolAssumption, Steps, Runtimes

\* Each atomic step of run preserves the types; the gauge is decremented only
\* by a thread that it counts, which InFlightGauge provides.
LEMMA RunType ==
    ASSUME TypeOK, InFlightGauge, NEW t \in Threads, Run(t) PROVE TypeOK'
<1> USE PoolAssumption DEF PoolAssumption, Goto, Steps, Runtimes
<1>1. CASE RunCheck(t)
  BY <1>1, SMTT(30) DEF RunCheck, TypeOK, poolState
<1>2. CASE ResolveSource(t)
  BY <1>2 DEF ResolveSource, TypeOK, poolState
<1>3. CASE AcquirePop(t)
  <2>1. CASE idle # <<>>
    <3> HIDE DEF Runtimes
    <3>1. idle' = Tail(idle) /\ runtime' = [runtime EXCEPT ![t] = Head(idle)]
          /\ pc' = [pc EXCEPT ![t] = "count_in"]
          /\ UNCHANGED <<poolState, stopper, runs, lost>>
      BY <1>3, <2>1 DEF AcquirePop
    <3>2. Head(idle) # "none"
      BY <2>1, PopFacts DEF Runtimes
    <3>3. idle' \in Seq(Runtimes) /\ Len(idle') \in 0..PoolSize
      BY <2>1, <3>1, PopFacts, Zenon
    <3>4. /\ runtime' \in [Threads -> Runtimes \cup {"none"}]
          /\ pc' \in [Threads -> Steps]
          /\ \A u \in Threads :
                runtime'[u] = "none" <=> pc'[u] \in {"ready", "resolve", "pop"}
      BY <2>1, <3>1, <3>2, PopFacts DEF TypeOK
    <3> QED
      BY <3>1, <3>3, <3>4, SMTT(30) DEF TypeOK, poolState
  <2>2. CASE idle = <<>>
    BY <1>3, <2>2, Zenon DEF AcquirePop, TypeOK, poolState
  <2> QED
    BY <2>1, <2>2, Zenon
<1>4. CASE AcquireCount(t)
  BY <1>4 DEF AcquireCount, TypeOK, poolState
<1>5. CASE EngineRun(t)
  BY <1>5, SMTT(30) DEF EngineRun, TypeOK, poolState
<1>6. CASE EngineUnwinds(t)
  BY <1>6, SMTT(30) DEF EngineUnwinds, TypeOK, poolState
<1>7. CASE ReleaseCount(t)
  <2>1. in_flight - 1 \in Nat
    <3>1. t \in Counted /\ Counted \subseteq Threads
      BY <1>7 DEF ReleaseCount, Counted
    <3>2. Cardinality(Counted) \in Nat /\ Cardinality(Counted) # 0
      BY <3>1, ThreadsFinite, FS_EmptySet
    <3> QED
      BY <3>2 DEF InFlightGauge, TypeOK
  <2> QED
    BY <1>7, <2>1 DEF ReleaseCount, TypeOK, poolState
<1>8. CASE ReleaseCheck(t)
  BY <1>8, ZenonT(30) DEF ReleaseCheck, TypeOK, poolState
<1>9. CASE ReleaseSeq(t)
  BY <1>9 DEF ReleaseSeq, TypeOK, poolState
<1>10. CASE ReleaseGc(t)
  BY <1>10, SMTT(30) DEF ReleaseGc, TypeOK, poolState
<1>11. CASE ReleasePush(t)
  <2>1. runtime[t] \in Runtimes
    BY <1>11, SMTT(30) DEF ReleasePush, TypeOK
  <2>2. idle' \in Seq(Runtimes) /\ Len(idle') \in 0..PoolSize
    BY <1>11, <2>1 DEF ReleasePush, TypeOK
  <2> QED
    BY <1>11, <2>2, SMTT(30) DEF ReleasePush, TypeOK, poolState
<1> QED
  BY <1>1, <1>2, <1>3, <1>4, <1>5, <1>6, <1>7, <1>8, <1>9, <1>10, <1>11, ZenonT(30) DEF Run

\* So do the steps of shutdown.
LEMMA ShutdownType == TypeOK /\ (ShutdownStore \/ ShutdownPop) => TypeOK'
<1> SUFFICES ASSUME TypeOK, ShutdownStore \/ ShutdownPop PROVE TypeOK'
  OBVIOUS
<1>1. CASE ShutdownStore
  BY <1>1, Zenon DEF ShutdownStore, TypeOK
<1>2. CASE ShutdownPop
  <2>1. idle' \in Seq(Runtimes) /\ Len(idle') \in 0..PoolSize
    <3>1. CASE idle # <<>>
      BY <1>2, <3>1, PopFacts, SMTT(30) DEF ShutdownPop
    <3>2. CASE idle = <<>>
      BY <1>2, <3>2 DEF ShutdownPop, TypeOK
    <3> QED
      BY <3>1, <3>2
  <2> QED
    BY <1>2, <2>1 DEF ShutdownPop, TypeOK, poolState
<1> QED
  BY <1>1, <1>2

-----------------------------------------------------------------------------
(* The gauge                                                               *)

\* The gauge moves exactly when a thread becomes counted, stops being counted,
\* or unwinds.
LEMMA RunGauge ==
    ASSUME TypeOK, InFlightGauge, NEW t \in Threads, Run(t) PROVE InFlightGauge'
<1>0. Counted \subseteq Threads /\ Cardinality(Counted) \in Nat /\ in_flight \in Nat
      /\ lost \in Nat /\ in_flight = Cardinality(Counted) + lost
  BY ThreadsFinite DEF Counted, TypeOK, InFlightGauge
<1>1. CASE \/ RunCheck(t) \/ ResolveSource(t) \/ AcquirePop(t) \/ EngineRun(t)
           \/ ReleaseCheck(t) \/ ReleaseSeq(t) \/ ReleaseGc(t) \/ ReleasePush(t)
  <2>1. Counted' = Counted
    BY <1>1, SMTT(30) DEF RunCheck, ResolveSource, AcquirePop, EngineRun, ReleaseCheck, ReleaseSeq,
                ReleaseGc, ReleasePush, Goto, Counted, TypeOK
  <2>2. UNCHANGED <<in_flight, lost>>
    BY <1>1 DEF RunCheck, ResolveSource, AcquirePop, EngineRun, ReleaseCheck, ReleaseSeq,
                ReleaseGc, ReleasePush, poolState
  <2> QED
    BY <2>1, <2>2, ZenonT(30) DEF InFlightGauge
<1>2. CASE AcquireCount(t)
  <2>1. Counted' = Counted \cup {t} /\ t \notin Counted
    BY <1>2 DEF AcquireCount, Goto, Counted, TypeOK
  <2>2. Cardinality(Counted') = Cardinality(Counted) + 1
    BY <1>0, <2>1, CountIn
  <2> QED
    BY <1>0, <1>2, <2>2 DEF AcquireCount, InFlightGauge
<1>3. CASE ReleaseCount(t)
  <2>1. Counted' = Counted \ {t} /\ t \in Counted
    BY <1>3 DEF ReleaseCount, Goto, Counted, TypeOK
  <2>2. Cardinality(Counted') = Cardinality(Counted) - 1
    BY <1>0, <2>1, CountOut
  <2> QED
    BY <1>0, <1>3, <2>2 DEF ReleaseCount, InFlightGauge
<1>4. CASE EngineUnwinds(t)
  <2>1. Counted' = Counted \ {t} /\ t \in Counted
    BY <1>4 DEF EngineUnwinds, Goto, Counted, TypeOK
  <2>2. Cardinality(Counted') = Cardinality(Counted) - 1
    BY <1>0, <2>1, CountOut
  <2> QED
    BY <1>0, <1>4, <2>2, SMTT(30) DEF EngineUnwinds, poolState, InFlightGauge
<1> QED
  BY <1>1, <1>2, <1>3, <1>4, SMTT(30) DEF Run

PoolInv == TypeOK /\ InFlightGauge

\* Nobody is counted initially.
LEMMA InitInv == Init => PoolInv
<1> SUFFICES ASSUME Init PROVE PoolInv
  OBVIOUS
<1>1. Counted = {}
  BY DEF Init, Counted
<1> QED
  BY <1>1, InitType, FS_EmptySet DEF Init, PoolInv, InFlightGauge

\* Every step preserves the types and the gauge.
LEMMA NextInv == PoolInv /\ [Next]_vars => PoolInv'
<1> SUFFICES ASSUME PoolInv, [Next]_vars PROVE PoolInv'
  OBVIOUS
<1>1. CASE \E t \in Threads : Run(t)
  BY <1>1, RunType, RunGauge DEF PoolInv
<1>2. CASE ShutdownStore \/ ShutdownPop
  <2>1. UNCHANGED <<in_flight, lost, pc>>
    BY <1>2, Zenon DEF ShutdownStore, ShutdownPop, poolState
  <2> QED
    BY <1>2, <2>1, ShutdownType DEF PoolInv, InFlightGauge, Counted
<1>3. CASE UNCHANGED vars
  BY <1>3 DEF vars, PoolInv, TypeOK, InFlightGauge, Counted
<1> QED
  BY <1>1, <1>2, <1>3 DEF Next

\* The pool is well formed and its in-flight gauge is exact, plus one for every
\* execution that unwound, at every instant of any interleaving.
THEOREM PoolGaugeExact == Spec => [](TypeOK /\ InFlightGauge)
<1>1. PoolInv => TypeOK /\ InFlightGauge
  BY DEF PoolInv
<1> QED
  BY <1>1, InitInv, NextInv, PTL DEF Spec

-----------------------------------------------------------------------------
(* The warm set                                                            *)

\* Up to shutdown, a slot moves between the queue and a thread or is lost by
\* unwinding; only a runtime created on an empty queue adds to the sum, and
\* only a runtime pushed onto a full queue takes from it.
LEMMA RunWarm ==
    ASSUME TypeOK, WarmSetConserved, NEW t \in Threads, Run(t)
    PROVE  WarmSetConserved'
<1> SUFFICES ASSUME stopper' = "up"
             PROVE  Len(idle') + Cardinality(Holding') + lost' >= PoolSize
  BY DEF WarmSetConserved
<1>0. /\ Holding \subseteq Threads /\ Cardinality(Holding) \in Nat
      /\ Len(idle) \in Nat /\ lost \in Nat /\ PoolSize \in Nat
      /\ runtime \in [Threads -> Runtimes \cup {"none"}]
  BY ThreadsFinite, PoolAssumption, SMTT(30) DEF Holding, TypeOK, PoolAssumption
<1>u. stopper = "up" /\ accepting
  BY DEF Run, RunCheck, ResolveSource, AcquirePop, AcquireCount, EngineRun, EngineUnwinds,
         ReleaseCount, ReleaseCheck, ReleaseSeq, ReleaseGc, ReleasePush, TypeOK
<1>h. Len(idle) + Cardinality(Holding) + lost >= PoolSize
  BY <1>u DEF WarmSetConserved
<1>1. CASE \/ RunCheck(t) \/ ResolveSource(t) \/ AcquireCount(t) \/ EngineRun(t)
           \/ ReleaseCount(t) \/ ReleaseCheck(t) \/ ReleaseSeq(t) \/ ReleaseGc(t)
  <2>1. Holding' = Holding
    BY <1>0, <1>1, <1>u, ZenonT(30)
       DEF RunCheck, ResolveSource, AcquireCount, EngineRun, ReleaseCount,
       ReleaseCheck, ReleaseSeq, ReleaseGc, Holding, TypeOK
  <2>2. UNCHANGED <<idle, lost>>
    BY <1>1 DEF RunCheck, ResolveSource, AcquireCount, EngineRun, ReleaseCount,
       ReleaseCheck, ReleaseSeq, ReleaseGc
  <2> QED
    BY <1>h, <2>1, <2>2
<1>2. CASE AcquirePop(t)
  <2>0. t \notin Holding /\ lost' = lost
    BY <1>2 DEF AcquirePop, Holding, TypeOK
  <2>1. CASE idle # <<>>
    <3>1. Holding' = Holding \cup {t}
      BY <1>0, <1>2, <2>1, PopFacts DEF AcquirePop, Holding, Runtimes
    <3>2. Cardinality(Holding') = Cardinality(Holding) + 1
      BY <1>0, <2>0, <3>1, CountIn
    <3>3. Len(idle') = Len(idle) - 1
      BY <1>2, <2>1, PopFacts, Zenon DEF AcquirePop
    <3> QED
      BY <1>0, <1>h, <2>0, <3>2, <3>3, SMTT(30)
  <2>2. CASE idle = <<>>
    <3>1. idle' = idle
      BY <1>2, <2>2 DEF AcquirePop
    <3>2. Holding' = Holding \cup {t} \/ Holding' = Holding
      BY <1>0, <1>2, <2>2 DEF AcquirePop, Holding
    <3>3. Cardinality(Holding') \in {Cardinality(Holding), Cardinality(Holding) + 1}
      BY <1>0, <2>0, <3>2, CountIn
    <3> QED
      BY <1>0, <1>h, <2>0, <3>1, <3>3
  <2> QED
    BY <2>1, <2>2, Zenon
<1>3. CASE EngineUnwinds(t)
  <2>1. t \in Holding /\ Holding' = Holding \ {t}
    BY <1>0, <1>3 DEF EngineUnwinds, Holding, TypeOK
  <2>2. Cardinality(Holding') = Cardinality(Holding) - 1
    BY <1>0, <2>1, CountOut
  <2> QED
    BY <1>0, <1>3, <1>h, <2>2, SMTT(30) DEF EngineUnwinds
<1>4. CASE ReleasePush(t)
  <2>1. t \in Holding /\ Holding' = Holding \ {t}
    BY <1>0, <1>4, Zenon DEF ReleasePush, Holding, TypeOK
  <2>2. Cardinality(Holding') = Cardinality(Holding) - 1
        /\ Cardinality(Holding') \in Nat
    BY <1>0, <2>1, CountOut, ThreadsFinite
  <2>3. CASE Len(idle) < PoolSize
    <3>1. Len(idle') = Len(idle) + 1
      BY <1>4, <2>3, SMTT(30) DEF ReleasePush, TypeOK, Runtimes
    <3> QED
      BY <1>0, <1>4, <1>h, <2>2, <3>1, SMTT(30) DEF ReleasePush
  <2>4. CASE ~(Len(idle) < PoolSize)
    BY <1>0, <1>4, <2>2, <2>4 DEF ReleasePush
  <2> QED
    BY <2>3, <2>4
<1> QED
  BY <1>1, <1>2, <1>3, <1>4 DEF Run

\* The pool starts full.
LEMMA InitWarm == Init => WarmSetConserved
<1> SUFFICES ASSUME Init PROVE WarmSetConserved
  OBVIOUS
<1>1. Len(idle) = PoolSize /\ lost = 0 /\ PoolSize \in Nat
  BY PoolAssumption DEF Init, PoolAssumption
<1>2. Cardinality(Holding) \in Nat
  BY ThreadsFinite DEF Holding
<1> QED
  BY <1>1, <1>2 DEF WarmSetConserved

\* Before shutdown no interleaving of acquires and releases loses a warm slot
\* other than by an unwinding execution.
THEOREM PoolWarmSet == Spec => []WarmSetConserved
<1>1. TypeOK /\ WarmSetConserved /\ [Next]_vars => WarmSetConserved'
  <2> SUFFICES ASSUME TypeOK, WarmSetConserved, [Next]_vars PROVE WarmSetConserved'
    OBVIOUS
  <2>1. CASE \E t \in Threads : Run(t)
    BY <2>1, RunWarm
  <2>2. CASE ShutdownStore \/ ShutdownPop
    <3>1. stopper' # "up"
      BY <2>2 DEF ShutdownStore, ShutdownPop
    <3> QED
      BY <3>1 DEF WarmSetConserved
  <2>3. CASE UNCHANGED vars
    BY <2>3 DEF vars, WarmSetConserved, Holding
  <2> QED
    BY <2>1, <2>2, <2>3 DEF Next
<1> QED
  BY <1>1, InitWarm, PoolGaugeExact, PTL DEF Spec

\* The gauge and the warm set are exact for every number of threads and runtimes.
THEOREM PoolExact == Spec => []PoolAccounted
  BY PoolGaugeExact, PoolWarmSet, PTL DEF PoolAccounted

-----------------------------------------------------------------------------
(* The keys a contract is verified with                                    *)

\* What was fetched while the endpoint had never served an empty set is not empty, and
\* neither is the cache once it was loaded.
KeysInv ==
    /\ KeysTypeOK /\ LastGoodKept
    /\ ~emptied => published # {}
    /\ \A r \in Verifications :
          stage[r] = "received" /\ fetched[r] # Failed =>
              fetched[r] \subseteq Kids /\ (~emptied => fetched[r] # {})

\* Types, the history and each fetch on its own.
KeysBase ==
    /\ published \subseteq Kids /\ emptied \in BOOLEAN /\ loaded \in BOOLEAN

\* The clock of the last refresh stops at min_refresh.
LEMMA Ticked ==
    ASSUME MinRefresh \in Nat, since = Unset \/ since \in 0..MinRefresh, Tick
    PROVE  since' \in 0..MinRefresh
    BY DEF Tick

\* Every step of a verification, of the endpoint and of time keeps it.
LEMMA KeysStep ==
    ASSUME KeysInv, KeysBase, [KeysNext]_keysVars PROVE KeysInv' /\ KeysBase'
<1> USE KeysAssumption DEF KeysInv, KeysBase, KeysTypeOK, LastGoodKept, Stages, Enter
<1>1. ASSUME NEW r \in Verifications, DecodeHeader(r) PROVE KeysInv' /\ KeysBase'
    <2>1. kid' \in [Verifications -> Kids \cup {Foreign, Unset}]
        BY <1>1, Zenon DEF DecodeHeader
    <2>2. stage' \in [Verifications -> Stages] /\ stage'[r] \in {"malformed", "lookup"}
        BY <1>1, Zenon DEF DecodeHeader
    <2>3. \A q \in Verifications : q # r => stage'[q] = stage[q] /\ kid'[q] = kid[q]
        BY <1>1, Zenon DEF DecodeHeader
    <2> QED BY <1>1, <2>1, <2>2, <2>3, Zenon DEF DecodeHeader
<1>2. ASSUME NEW r \in Verifications, Lookup(r) PROVE KeysInv' /\ KeysBase'
    BY <1>2, Zenon DEF Lookup
<1>3. ASSUME NEW r \in Verifications, CheckRefresh(r) PROVE KeysInv' /\ KeysBase'
    BY <1>3, Zenon DEF CheckRefresh
<1>4. ASSUME NEW r \in Verifications, Answer(r) PROVE KeysInv' /\ KeysBase'
    <2>1. fetched' \in [Verifications -> {Unset, Failed} \cup SUBSET Kids]
        BY <1>4, Zenon DEF Answer
    <2>2. fetched'[r] # Failed => fetched'[r] \subseteq Kids /\ (~emptied' => fetched'[r] # {})
        BY <1>4, Zenon DEF Answer
    <2> QED BY <1>4, <2>1, <2>2, Zenon DEF Answer
<1>5. ASSUME NEW r \in Verifications, Store(r) PROVE KeysInv' /\ KeysBase'
    <2>1. keys' \subseteq Kids
        BY <1>5, Zenon DEF Store
    <2> QED BY <1>5, <2>1 DEF Store
<1>6. ASSUME NEW r \in Verifications, LookupAgain(r) PROVE KeysInv' /\ KeysBase'
    BY <1>6, Zenon DEF LookupAgain
<1>7. ASSUME NEW r \in Verifications, Decode(r) PROVE KeysInv' /\ KeysBase'
    BY <1>7, Zenon DEF Decode
<1>8. ASSUME NEW r \in Verifications, Leave(r) PROVE KeysInv' /\ KeysBase'
    BY <1>8, Zenon DEF Leave, Over
<1>9. ASSUME NEW r \in Verifications, Cancel(r) PROVE KeysInv' /\ KeysBase'
    BY <1>9, Zenon DEF Cancel, Over
<1>10. CASE Tick
    BY <1>10, Ticked, Zenon DEF Tick
<1>11. CASE Rotate
    BY <1>11, Zenon DEF Rotate
<1>12. CASE Flip
    BY <1>12, Zenon DEF Flip
<1>13. CASE UNCHANGED keysVars
    BY <1>13, Zenon DEF keysVars
<1> QED BY <1>1, <1>2, <1>3, <1>4, <1>5, <1>6, <1>7, <1>8, <1>9, <1>10, <1>11, <1>12, <1>13, Zenon
        DEF KeysNext, Verify

\* For every set of requests and of keys and every min_refresh: once a fetch has succeeded
\* the cache has keys, in whatever order fetches end or fail, unless the endpoint served
\* none (refresh_keys and fetch_keys of ContractVerifier).
THEOREM KeysLastGood == KeysSpec => []LastGoodKept
<1>1. KeysInit => KeysInv /\ KeysBase
    BY KeysAssumption, Zenon DEF KeysInit, KeysInv, KeysBase, KeysTypeOK, LastGoodKept, Stages
<1>2. KeysInv /\ KeysBase /\ [KeysNext]_keysVars => (KeysInv /\ KeysBase)'
    BY KeysStep
<1>3. KeysInv => LastGoodKept
    BY DEF KeysInv
<1> QED BY <1>1, <1>2, <1>3, PTL DEF KeysSpec
=============================================================================
