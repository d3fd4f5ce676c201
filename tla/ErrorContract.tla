---------------------------- MODULE ErrorContract ----------------------------
(***************************************************************************)
(* The error vocabulary and what becomes of it on the status line: the     *)
(* envelope of an engine error (engine/classify.rs), the tag a capability  *)
(* error carries through the script (errors.rs), and the projection onto   *)
(* HTTP (runlet/src/status.rs, handler/response.rs).                       *)
(*                                                                         *)
(* An engine error is [kind, tag]: the variant of EngineError, and for the *)
(* Capability variant the fault it was read from.                          *)
(***************************************************************************)
EXTENDS Naturals

CONSTANT TimeoutRetryable    \* config.timeout_retryable

ASSUME TimeoutRetryableAssumption == TimeoutRetryable \in BOOLEAN

Owners == {"caller", "developer", "operator"}

\* ErrorSource::parse knows these.
KnownSources == {"request", "engine", "handler", "db", "mongo", "mail", "s3", "api",
                 "redis", "amq", "auth"}

NoTag == [source |-> "", code |-> "", retryable |-> FALSE, owner |-> ""]

Fault(source, code, retryable, owner) ==
    [source |-> source, code |-> code, retryable |-> retryable, owner |-> owner]

EngineError(kind) == [kind |-> kind, tag |-> NoTag]

Envelope(type, source, code, retryable, owner) ==
    [type |-> type, source |-> source, code |-> code, retryable |-> retryable, owner |-> owner]

-----------------------------------------------------------------------------

\* read_capability_tag: an unknown source is no tag; an unknown owner is the operator.
TagIsRead(tag) == tag.source \in KnownSources
TagError(tag) ==
    [kind |-> "Capability",
     tag  |-> [tag EXCEPT !.owner = IF @ \in Owners THEN @ ELSE "operator"]]

\* EngineError::into_envelope
RuntimeEnvelope(code, retryable, owner) == Envelope("runtime", "engine", code, retryable, owner)

IntoEnvelope(err) ==
    CASE err.kind = "Syntax" -> RuntimeEnvelope("SYNTAX_ERROR", FALSE, "developer")
      [] err.kind = "ScriptNotFound" ->
           Envelope("request", "request", "SCRIPT_NOT_FOUND", FALSE, "caller")
      [] err.kind = "ModuleNotFound" -> RuntimeEnvelope("MODULE_NOT_FOUND", FALSE, "developer")
      [] err.kind = "HandlerNotDefined" ->
           RuntimeEnvelope("HANDLER_NOT_DEFINED", FALSE, "developer")
      [] err.kind = "Timeout" -> RuntimeEnvelope("TIMEOUT", TimeoutRetryable, "developer")
      [] err.kind = "MemoryLimit" -> RuntimeEnvelope("MEMORY_LIMIT", FALSE, "developer")
      [] err.kind = "Malformed" -> RuntimeEnvelope("MALFORMED_RESPONSE", FALSE, "developer")
      [] err.kind = "OutputTooLarge" -> RuntimeEnvelope("OUTPUT_TOO_LARGE", FALSE, "developer")
      [] err.kind = "Internal" -> RuntimeEnvelope("INTERNAL", TRUE, "operator")
      [] err.kind = "ShuttingDown" -> RuntimeEnvelope("SHUTTING_DOWN", TRUE, "operator")
      [] err.kind = "Script" -> Envelope("script", "handler", "SCRIPT_ERROR", FALSE, "developer")
      [] err.kind = "Capability" ->
           Envelope("capability", err.tag.source, err.tag.code, err.tag.retryable, err.tag.owner)

-----------------------------------------------------------------------------

Projected(status, retryAfter) == [status |-> status, retryAfter |-> retryAfter]

\* park_status
ParkStatus(owner, code) ==
    IF code \in {"SCRIPT_TOO_LARGE", "CONTEXT_TOO_LARGE"} THEN 413
    ELSE CASE owner = "caller" -> IF code = "SCRIPT_NOT_FOUND" THEN 404 ELSE 400
           [] owner = "operator" -> 409
           [] owner = "developer" -> 422

\* project
Project(retryable, owner, code) ==
    IF retryable
      THEN Projected(IF code = "INTERNAL" THEN 500 ELSE 503, TRUE)
      ELSE Projected(ParkStatus(owner, code), FALSE)

\* handler_status: what the handler returned as its error: "null", an object
\* with retryable set to true or to false, or anything else.
HandlerErrors == {"null", "retryable", "not_retryable", "other"}
HandlerStatus(error) ==
    IF error = "null" THEN Projected(200, FALSE)
    ELSE IF error = "retryable" THEN Projected(503, TRUE) ELSE Projected(422, FALSE)
=============================================================================
