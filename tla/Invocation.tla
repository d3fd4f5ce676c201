----------------------------- MODULE Invocation -----------------------------
(***************************************************************************)
(* One invocation inside the engine, from the injected surface to the HTTP *)
(* response (engine/mod.rs run, engine/classify.rs, engine/channels.rs,    *)
(* capability.rs, handler/response.rs).                                    *)
(*                                                                         *)
(* The script is the environment: while its code runs it may emit, log,    *)
(* call io, read the clock, throw, catch, run out of memory or be          *)
(* interrupted, in any order. Its code runs in three stages: "eval" (the   *)
(* top level), "handler", and "serialize" (the toJSON methods of the value *)
(* the handler returned).                                                  *)
(***************************************************************************)
EXTENDS ErrorContract, Integers, Sequences, FiniteSets

CONSTANTS
    Listed,             \* config.io: the names the request may address
    Names,              \* every name the script tries
    Registered,         \* names with a CapabilityDef
    OwnBackend,         \* registered names with a backend of their own
    Guarded,            \* registered names whose trust is ScriptControlled
    Fallback,           \* a per-request or builder fallback egress is wired
    Kinds,              \* well-formed emit kinds
    MaxOps,             \* max_ops
    MaxEntries, MaxEntryBytes, MaxTotalBytes,  \* the log bounds
    MarkerBytes,        \* length of LOG_TRUNCATED_MARKER
    Sizes,              \* lengths of the parts of a log call
    CapOutput           \* max_output_size # 0

ASSUME InvocationAssumption ==
    /\ OwnBackend \subseteq Registered /\ Guarded \subseteq Registered
    /\ Registered \subseteq Names /\ Listed \subseteq Names
    /\ Fallback \in BOOLEAN /\ CapOutput \in BOOLEAN
    /\ {MaxOps, MaxEntries, MaxEntryBytes, MaxTotalBytes, MarkerBytes} \subseteq Nat
    /\ Sizes \subseteq Nat

VARIABLES
    profile,    \* Profile::Full or Profile::Deterministic
    mode,       \* is_es_module: "module" or "script"
    runStage,   \* how far run has come
    exc,        \* the pending exception: NoExc, or [kind, tag]
    late,       \* start.elapsed() > timeout
    timedOut,   \* the flag of setup_timeout
    used,       \* the mux's operation counter
    effects,    \* the emit buffer: the kinds accepted, in order
    logs,       \* the log buffer: the size of each captured entry
    logBytes,   \* total_bytes of the log buffer
    value,      \* what the handler returned
    outcome,    \* ExecOutcome, once decided: "none", "success" or an engine error
    response,   \* the HTTP response, once built
    \* History of the run, for the properties.
    reached,    \* names whose backend was called
    calls,      \* backend calls
    keptDate,   \* the script holds a reference to the real Date
    clockRead   \* the script has read the wall clock

execution == <<profile, mode, runStage, exc, late, timedOut, used, effects, logs, logBytes,
           value, outcome, response>>
history == <<reached, calls, keptDate, clockRead>>
invocationVars == <<execution, history>>

-----------------------------------------------------------------------------

RunStages == {"inject", "eval", "resolve", "freeze", "parse", "handler", "serialize", "ended",
           "answered"}
ScriptStages == {"eval", "handler", "serialize"}

NoExc == [kind |-> "none", tag |-> NoTag]
Exc(kind) == [kind |-> kind, tag |-> NoTag]
CapabilityExc(tag) == [kind |-> "capability", tag |-> tag]

\* QuickJS unwinds an interrupt through every handler; the others can be caught.
Catchable(e) == e.kind \in {"script", "capability", "memory"}

\* What a handler returns: a string taken verbatim or a value to stringify, and
\* in it an envelope with an error field, no envelope, or undefined.
Values == [direct : BOOLEAN, body : HandlerErrors \union {"malformed", "huge"}]
            \union {[direct |-> FALSE, body |-> "undefined"]}
NoValue == [direct |-> TRUE, body |-> "none"]

NoOutcome == [kind |-> "none", tag |-> NoTag]
Success == [kind |-> "success", tag |-> NoTag]
NoResponse == [error |-> "none", retryable |-> FALSE, status |-> 0, retryAfter |-> FALSE,
               effects |-> <<>>]

InvocationInit ==
    /\ profile \in {"full", "deterministic"} /\ mode \in {"module", "script"}
    /\ runStage = "inject" /\ exc = NoExc
    /\ late = FALSE /\ timedOut = FALSE
    /\ used = 0 /\ effects = <<>> /\ logs = <<>> /\ logBytes = 0
    /\ value = NoValue /\ outcome = NoOutcome /\ response = NoResponse
    /\ reached = {} /\ calls = 0 /\ keptDate = FALSE /\ clockRead = FALSE

-----------------------------------------------------------------------------
(* The run                                                                 *)

GotoStage(s) == runStage' = s /\ UNCHANGED outcome
Ends(o) == runStage' = "ended" /\ outcome' = o

buffers == <<used, effects, logs, logBytes>>

RunUnchanged == UNCHANGED <<profile, mode, exc, late, timedOut, buffers, response, history>>

\* The framework's own JS runs under the limits too: whatever stops it is internal.
Inject == runStage = "inject" /\ GotoStage("eval") /\ UNCHANGED value /\ RunUnchanged

\* The steps of the framework that can only fail for want of memory or time.
FrameworkFails ==
    /\ runStage \in {"inject", "freeze"}
    /\ Ends(EngineError("Internal"))
    /\ timedOut' = (timedOut \/ late) \/ UNCHANGED timedOut
    /\ UNCHANGED <<value, profile, mode, exc, late, buffers, response, history>>

\* resolve_handler: the source was evaluated; harden, then look the handler up.
Evaluated ==
    /\ runStage = "eval" /\ exc = NoExc
    /\ \/ GotoStage("freeze")
       \/ Ends(EngineError("HandlerNotDefined"))
    /\ UNCHANGED value /\ RunUnchanged

\* classify_eval_error, classify_module_error: the pending exception's message decides.
EvalFails ==
    /\ runStage = "eval" /\ exc # NoExc
    /\ Ends(EngineError(IF mode = "module" /\ exc.kind = "unresolved"
                          THEN "ModuleNotFound" ELSE "Syntax"))
    /\ UNCHANGED value /\ RunUnchanged

\* freeze_std
Freeze == runStage = "freeze" /\ GotoStage("parse") /\ UNCHANGED value /\ RunUnchanged

\* invoke_handler: the context is parsed, or does not fit.
ParseContext ==
    /\ runStage = "parse"
    /\ GotoStage("handler") \/ Ends(EngineError("MemoryLimit"))
    /\ UNCHANGED value /\ RunUnchanged

HandlerReturns(v) ==
    /\ runStage = "handler" /\ exc = NoExc
    /\ GotoStage("serialize") /\ value' = v
    /\ RunUnchanged

\* Mutant: a tag's retry hint is lost on the way.
ClassifyThrowForgets(e, flag) ==
    IF flag THEN EngineError("Timeout")
    ELSE IF e.kind = "capability" /\ TagIsRead(e.tag)
      THEN TagError([e.tag EXCEPT !.retryable = FALSE]) ELSE EngineError("Script")

\* classify_throw: the timeout flag, then the tag, then a script error.
ClassifyThrow(e, flag) ==
    IF flag THEN EngineError("Timeout")
    ELSE IF e.kind = "capability" /\ TagIsRead(e.tag) THEN TagError(e.tag)
    ELSE EngineError("Script")

HandlerThrows ==
    /\ runStage = "handler" /\ exc # NoExc
    /\ Ends(ClassifyThrow(exc, timedOut))
    /\ UNCHANGED value /\ RunUnchanged

\* extract_json_string: whatever stops JSON.stringify is internal.
SerializeFails ==
    /\ runStage = "serialize" /\ exc # NoExc
    /\ Ends(EngineError("Internal"))
    /\ UNCHANGED value /\ RunUnchanged

\* enforce_output_cap
CapsOutput(v) == IF CapOutput /\ v.body = "huge" THEN EngineError("OutputTooLarge") ELSE Success

Serialized ==
    /\ runStage = "serialize" /\ exc = NoExc
    /\ Ends(CapsOutput(value))
    /\ UNCHANGED value /\ RunUnchanged

-----------------------------------------------------------------------------
(* The script                                                              *)

\* A string is returned verbatim: no code of the script runs on it.
ScriptRuns == runStage \in ScriptStages /\ exc = NoExc /\ ~ (runStage = "serialize" /\ value.direct)

ScriptUnchanged == UNCHANGED <<profile, mode, runStage, late, value, outcome, response>>

Throws(e) == exc' = e
Continues == UNCHANGED exc

\* $std.emit over __emit: a malformed kind, or a full buffer, throws.
Emit(kind) ==
    /\ ScriptRuns
    /\ IF kind \notin Kinds \/ Len(effects) >= MaxOps
         THEN Throws(Exc("script")) /\ UNCHANGED effects
         ELSE effects' = Append(effects, kind) /\ Continues
    /\ ScriptUnchanged /\ UNCHANGED <<timedOut, used, logs, logBytes, history>>

\* saturating_sub
Minus(a, b) == IF a > b THEN a - b ELSE 0

\* The part of capture_log that decides what an entry keeps: an oversize one loses
\* its properties and the end of its message.
EntryBytes(template, props, message) ==
    IF template + props + message > MaxEntryBytes
      THEN LET budget == Minus(Minus(MaxEntryBytes, template), MarkerBytes)
           IN  template + MarkerBytes + (IF message <= budget THEN message ELSE budget)
      ELSE template + props + message

Captured(template, props, message) ==
    LET bytes == EntryBytes(template, props, message)
    IN  IF Len(logs) >= MaxEntries \/ logBytes + bytes > MaxTotalBytes
          THEN UNCHANGED <<logs, logBytes>>
          ELSE logs' = Append(logs, bytes) /\ logBytes' = logBytes + bytes

\* __log, capture_log: the count cap, the entry bound, then the total cap.
Log(template, props, message) ==
    /\ ScriptRuns
    /\ Captured(template, props, message)
    /\ Continues
    /\ ScriptUnchanged /\ UNCHANGED <<timedOut, used, effects, history>>

\* dispatch_inner: who serves a name.
Served(name) == name \in OwnBackend \/ Fallback

\* What a dispatched call may come to: the answer of the backend, an error of it,
\* or a fault of the mux itself.
BackendFaults == [source : Names, code : {"BACKEND"}, retryable : BOOLEAN,
                  owner : {"operator", "developer"}]
MuxFaults(name) ==
    {Fault(name, "IO_ENFORCEMENT_FAILED", FALSE, "operator")}
      \union (IF name \in Guarded THEN {Fault(name, "IO_SSRF_BLOCKED", FALSE, "developer")}
                                  ELSE {})

Dispatch(name) ==
    \/ /\ Served(name)
       /\ reached' = reached \union {name} /\ calls' = calls + 1
       /\ Continues \/ \E f \in BackendFaults : Throws(CapabilityExc(f))
    \/ /\ ~ Served(name)
       /\ Throws(CapabilityExc(Fault(name, "EGRESS_UNAVAILABLE", TRUE, "operator")))
       /\ UNCHANGED <<reached, calls>>
    \/ /\ \E f \in MuxFaults(name) : Throws(CapabilityExc(f))
       /\ UNCHANGED <<reached, calls>>

\* inject_registry: the io global exists under the full profile, when there is anything to route.
IoInjected == profile = "full" /\ (Registered # {} \/ Fallback)

BudgetSpent == used >= MaxOps

\* Mutant: the operation is counted once it has succeeded.
IoCallCountsSuccess(name) ==
    /\ ScriptRuns /\ IoInjected
    /\ CASE name \notin Listed ->
              /\ Throws(CapabilityExc(Fault(name, "RESOURCE_NOT_FOUND", FALSE, "developer")))
              /\ UNCHANGED <<used, reached, calls>>
         [] name \in Listed /\ BudgetSpent ->
              /\ Throws(CapabilityExc(Fault("engine", "IO_OP_LIMIT", FALSE, "developer")))
              /\ UNCHANGED <<used, reached, calls>>
         [] OTHER -> Dispatch(name) /\ used' = IF exc' = NoExc THEN used + 1 ELSE used
    /\ ScriptUnchanged /\ UNCHANGED <<timedOut, effects, logs, logBytes, keptDate, clockRead>>

\* __io: the allowlist, the budget, then the call.
IoCall(name) ==
    /\ ScriptRuns /\ IoInjected
    /\ CASE name \notin Listed ->
              /\ Throws(CapabilityExc(Fault(name, "RESOURCE_NOT_FOUND", FALSE, "developer")))
              /\ UNCHANGED <<used, reached, calls>>
         [] name \in Listed /\ BudgetSpent ->
              /\ Throws(CapabilityExc(Fault("engine", "IO_OP_LIMIT", FALSE, "developer")))
              /\ UNCHANGED <<used, reached, calls>>
         [] OTHER -> Dispatch(name) /\ used' = used + 1
    /\ ScriptUnchanged /\ UNCHANGED <<timedOut, effects, logs, logBytes, keptDate, clockRead>>

\* The real Date is a global until harden replaces it; the replacement shares its
\* prototype, whose constructor is the real one.
KeepDate ==
    /\ ScriptRuns /\ keptDate' = TRUE /\ Continues
    /\ ScriptUnchanged /\ UNCHANGED <<timedOut, buffers, reached, calls, clockRead>>

\* Date.now, new Date(): there under the full profile, at the top level, or by a kept reference.
ReadClock ==
    /\ ScriptRuns
    /\ profile = "full" \/ runStage = "eval" \/ keptDate
    /\ clockRead' = TRUE /\ Continues
    /\ ScriptUnchanged /\ UNCHANGED <<timedOut, buffers, reached, calls, keptDate>>

ExcUnchanged == ScriptUnchanged /\ UNCHANGED <<buffers, history>>

\* The script throws, or the source does not parse or names a module that is not there.
Throw ==
    /\ ScriptRuns
    /\ \/ exc' \in {Exc("script"), Exc("memory")}
       \/ runStage = "eval" /\ exc' \in {Exc("syntax"), Exc("unresolved")}
    /\ UNCHANGED timedOut /\ ExcUnchanged

Catch ==
    /\ Catchable(exc) /\ runStage \in ScriptStages
    /\ exc' = NoExc /\ UNCHANGED timedOut /\ ExcUnchanged

\* setup_timeout: polled while code runs; it sets the flag and interrupts.
Interrupt == ScriptRuns /\ late /\ timedOut' = TRUE /\ exc' = Exc("interrupt") /\ ExcUnchanged

\* The deadline passes.
DeadlinePasses ==
    /\ ~ late /\ runStage \notin {"ended", "answered"} /\ late' = TRUE
    /\ UNCHANGED <<profile, mode, runStage, exc, timedOut, buffers, value, outcome, response, history>>

-----------------------------------------------------------------------------
(* The response                                                            *)

ErrorResponse(envelope) ==
    LET p == Project(envelope.retryable, envelope.owner, envelope.code)
    IN  [error |-> envelope.code, retryable |-> envelope.retryable, status |-> p.status,
         retryAfter |-> p.retryAfter, effects |-> effects]

\* handler_envelope_response
HandlerResponse(error) ==
    LET p == HandlerStatus(error)
    IN  [error |-> IF error = "null" THEN "null" ELSE "handler",
         retryable |-> error = "retryable", status |-> p.status,
         retryAfter |-> p.retryAfter, effects |-> effects]

\* build_response, success_response, engine_error_response: an undefined value was
\* stringified as the empty envelope, a huge one as an envelope with a null error.
BuildResponse(o, v) ==
    CASE o.kind # "success" -> ErrorResponse(IntoEnvelope(o))
      [] o.kind = "success" /\ v.body = "malformed" ->
           ErrorResponse(IntoEnvelope(EngineError("Malformed")))
      [] OTHER -> HandlerResponse(IF v.body \in HandlerErrors THEN v.body ELSE "null")

BuildsResponse ==
    /\ runStage = "ended"
    /\ runStage' = "answered" /\ response' = BuildResponse(outcome, value)
    /\ UNCHANGED <<profile, mode, exc, late, timedOut, buffers, value, outcome, history>>

-----------------------------------------------------------------------------

InvocationNext ==
    \/ Inject \/ FrameworkFails \/ Evaluated \/ EvalFails \/ Freeze \/ ParseContext
    \/ \E v \in Values : HandlerReturns(v)
    \/ HandlerThrows \/ SerializeFails \/ Serialized \/ BuildsResponse
    \/ \E kind \in Kinds \union {"malformed"} : Emit(kind)
    \/ \E t, p, m \in Sizes : Log(t, p, m)
    \/ \E name \in Names : IoCall(name)
    \/ KeepDate \/ ReadClock \/ Throw \/ Catch \/ Interrupt \/ DeadlinePasses

InvocationSpec == InvocationInit /\ [][InvocationNext]_invocationVars

-----------------------------------------------------------------------------
(* Properties                                                              *)

Codes == {"BACKEND", "IO_ENFORCEMENT_FAILED", "IO_SSRF_BLOCKED", "EGRESS_UNAVAILABLE",
          "RESOURCE_NOT_FOUND", "IO_OP_LIMIT"}

Exceptions == [kind : {"none", "script", "syntax", "unresolved", "memory", "interrupt"},
               tag : {NoTag}]
                \union [kind : {"capability"},
                        tag : [source : Names \union {"engine"}, code : Codes,
                               retryable : BOOLEAN, owner : Owners]]

\* The types, and run's bookkeeping: an exception is pending only while code of the
\* script runs or where it was classified, an outcome is known from the end of the
\* run on, and no answer leaves before it (engine/mod.rs run).
InvocationTypeOK ==
    /\ profile \in {"full", "deterministic"} /\ mode \in {"module", "script"}
    /\ runStage \in RunStages /\ exc \in Exceptions
    /\ late \in BOOLEAN /\ timedOut \in BOOLEAN /\ (timedOut => late)
    /\ used \in 0 .. MaxOps
    /\ effects \in Seq(Kinds) /\ logs \in Seq(Nat) /\ logBytes \in Nat
    /\ value \in Values \union {NoValue}
    /\ (outcome = NoOutcome) = (runStage \notin {"ended", "answered"})
    /\ (response = NoResponse) = (runStage # "answered")
    /\ reached \subseteq Names /\ calls \in Nat
    /\ {keptDate, clockRead} \subseteq BOOLEAN

\* The budgets of one execution hold whatever the script calls, catches and retries:
\* no more than max_ops backend calls, max_ops effects, max_log_entries entries and
\* max_log_total_bytes of them (channels.rs inject_mux, inject_emit, capture_log).
BudgetsHold ==
    /\ calls <= MaxOps
    /\ Len(effects) <= MaxOps
    /\ Len(logs) <= MaxEntries
    /\ logBytes <= MaxTotalBytes

\* A backend is called only for a name the request listed, and never in a deterministic
\* run (channels.rs inject_mux, engine/mod.rs run).
OnlyListedReached == reached \subseteq Listed /\ (profile = "deterministic" => reached = {})

\* The status line agrees with the body: 200 exactly for a null error, 5xx with
\* Retry-After exactly for a retryable one, 4xx without it for the rest (status.rs
\* project, response.rs handler_status).
StatusAgrees ==
    runStage = "answered" =>
        /\ response.status = 200 <=> response.error = "null"
        /\ response.status \in {500, 503} <=> response.retryable
        /\ response.retryAfter <=> response.retryable
        /\ response.status = 200 \/ response.status \in 400 .. 499 \/ response.retryable

\* Every effect the script was told is recorded is in the answer, in order, on the
\* success and on the error path (engine/mod.rs run, drain_effects).
EffectsSurvive == runStage = "answered" => response.effects = effects

\* An uncaught capability error of a source the box knows keeps its code and its retry
\* hint all the way to the response (read_capability_tag, into_envelope), unless the
\* run timed out.
KnownErrorsRoundTrip ==
    (runStage = "answered" /\ outcome.kind \notin {"success", "Syntax", "Internal"}
       /\ exc.kind = "capability" /\ exc.tag.source \in KnownSources)
      => response.error = exc.tag.code /\ response.retryable = exc.tag.retryable

\* A handler the deadline interrupts answers TIMEOUT with the operator's retry hint
\* (classify_throw, into_envelope): the exception it died of does not matter.
InterruptedHandlerTimesOut ==
    (runStage = "answered" /\ timedOut /\ outcome.kind \notin {"Syntax", "Internal"})
      => response.error = "TIMEOUT" /\ response.retryable = TimeoutRetryable

\* What went wrong reaches the caller: a timeout as a timeout, a capability's error with its
\* code and retry hint, and the status line and headers agree with the error either way
\* (classify_throw, read_capability_tag, into_envelope, status_for).
CauseReachesCaller == StatusAgrees /\ KnownErrorsRoundTrip /\ InterruptedHandlerTimesOut

-----------------------------------------------------------------------------
(* Claims of comments and specifications that the code does not meet; the   *)
(* README describes the counterexamples                                     *)

\* openspec/specs/capability-registry/spec.md:104-105: a registered backend's retryable
\* error is in the response's envelope as a retryable one (read_capability_tag knows a
\* fixed set of sources, and drops the tags of all others).
BackendErrorsRoundTrip ==
    (runStage = "answered" /\ outcome.kind = "Script" /\ exc.kind = "capability")
      => (exc.tag.retryable => response.retryable)

\* openspec/specs/execution/spec.md:121-122: code of the script that runs past timeout_ms
\* is interrupted and the answer is TIMEOUT (only classify_throw looks at the flag, not
\* the top level and not extract_json_string).
TimeoutsReported ==
    (runStage = "answered" /\ exc.kind = "interrupt") => response.error = "TIMEOUT"

\* openspec/specs/execution/spec.md:105-108: the memory limit is deterministic for a
\* given script and input, so hitting it is not retryable (extract_json_string turns it
\* into INTERNAL).
MemoryLimitParks == (runStage = "answered" /\ exc.kind = "memory") => ~ response.retryable

\* channels.rs:208-211: an entry over max_entry_bytes is truncated to the budget
\* (the template and the marker are kept whole).
LogEntriesBounded == \A i \in 1 .. Len(logs) : logs[i] <= MaxEntryBytes

\* js/determinism.js:2-3: the same code and context always produce the same result
\* (harden runs after the top level).
DeterministicReadsNoClock == profile = "deterministic" => ~ clockRead
=============================================================================
