------------------------------- MODULE Tenancy -------------------------------
(***************************************************************************)
(* Whose request it is, from the headers to the record it leaves: the      *)
(* identity gates of run_execute (runlet/src/handler/mod.rs, gates.rs),    *)
(* the broker session and the bytecode cache it uses (runlet-core          *)
(* bytecode.rs, engine/classify.rs) and the events it emits                *)
(* (handler/telemetry.rs).                                                 *)
(*                                                                         *)
(* Requests meet in the bytecode cache, which they read and fill without a *)
(* lock around the compile.  A client may leave whenever its handler       *)
(* awaits, a send of an event included; the script goes on without it.     *)
(* Capacity (quota, bulkhead) is modelled by Execute, and whether the sink *)
(* has room by EventPipeline; here a gate may refuse any request.          *)
(***************************************************************************)
EXTENDS Identity, Sequences, Integers

CONSTANTS
    Requests,      \* the requests to /execute
    Files, Envs,   \* what the configuration file and the environment may say
    Inputs,        \* request -> what its client and the edge may send
    Texts, Bytes,  \* the partitions and the sources, and the bytes of each
    Broken,        \* the sources with a syntax error
    MinSourceBytes \* the size floor of the bytecode cache

ASSUME TenancyAssumption ==
    /\ Bytes \in [Texts -> Seq(Nat)]
    /\ None \notin Texts
    /\ \A r \in Requests : \A i \in Inputs[r] :
          /\ i.body.source \in Texts
          /\ i.body.oversize \in {None, "SCRIPT_TOO_LARGE", "CONTEXT_TOO_LARGE"}

VARIABLES
    box,        \* the configuration the box booted with
    input,      \* request -> what was sent
    pc,         \* request -> the step its handler is at
    gate,       \* request -> what resolve_identity answered
    partition,  \* request -> the fairness and cache key
    session,    \* request -> the sessions opened for it: none or one
    code,       \* request -> the code it was refused with, or None
    ran,        \* request -> the modules it evaluated: none or one
    mirrored,   \* request -> whether the response carries a list of logs
    events,     \* request -> the events the sink was given under its trace id, in order
    owed,       \* request -> the events its handler has yet to send
    left,       \* the requests whose handler was dropped
    cache       \* source hash -> the bytecode stored under it

vars == <<box, input, pc, gate, partition, session, code, ran, mirrored, events, owed, left,
          cache>>

\* A request before it arrives.
Blank == [bearer |-> None]

Init ==
    /\ \E file \in Files, env \in Envs : box = Load(file, env) /\ CheckExposure(box)
    /\ input = [r \in Requests |-> Blank]
    /\ pc = [r \in Requests |-> "new"]
    /\ gate = [r \in Requests |-> Accept(Nobody)]
    /\ partition = [r \in Requests |-> None]
    /\ session = [r \in Requests |-> <<>>]
    /\ code = [r \in Requests |-> None]
    /\ ran = [r \in Requests |-> <<>>]
    /\ mirrored = [r \in Requests |-> FALSE]
    /\ events = [r \in Requests |-> <<>>]
    /\ owed = [r \in Requests |-> <<>>]
    /\ left = {}
    /\ cache = {}

\* Event::new with identity_fields: the principal is the identity's, or nobody.
Event(kind, reason, who) ==
    [kind |-> kind, reason |-> reason, tenant |-> who.tenant, user |-> who.user,
     plan |-> who.plan]

\* What there is to send, when the box has a sink.
ToSink(new) == IF box.events THEN new ELSE <<>>

\* The handler of r is at a step, and is still there.
At(r, step) == pc[r] = step /\ r \notin left

Goto(r, step) == pc' = [pc EXCEPT ![r] = step]

\* A gate refuses r with response code c; emit_denied is to record the reason.
Deny(r, c, reason, who) ==
    /\ Goto(r, "emit")
    /\ code' = [code EXCEPT ![r] = c]
    /\ owed' = [owed EXCEPT ![r] = ToSink(<<Event("denied", reason, who)>>)]

-----------------------------------------------------------------------------

\* The request arrives: enforce_auth answers 401 at once and leaves no event.
Arrive(r) ==
    /\ pc[r] = "new"
    /\ \E i \in Inputs[r] :
          /\ input' = [input EXCEPT ![r] = i]
          /\ \/ Authorized(box, i.bearer) /\ Goto(r, "identity") /\ UNCHANGED code
             \/ /\ ~Authorized(box, i.bearer)
                /\ Goto(r, "done")
                /\ code' = [code EXCEPT ![r] = "UNAUTHORIZED"]
    /\ UNCHANGED <<box, gate, partition, session, ran, mirrored, events, owed, left, cache>>

\* resolve_identity, after the await of verify.
Resolve(r) ==
    /\ At(r, "identity")
    /\ \E verdict \in Verdicts :
          LET answer == ResolveIdentity(box, input[r].headers, input[r].token, verdict)
          IN /\ gate' = [gate EXCEPT ![r] = answer]
             /\ IF answer.code = None
                THEN Goto(r, "body") /\ UNCHANGED <<code, owed>>
                ELSE Deny(r, answer.code, answer.code, answer.who)
    /\ UNCHANGED <<box, input, partition, session, ran, mirrored, events, left, cache>>

\* The gates that look at the body: the response code and the audit reason of the first
\* one that refuses it, or None.
BodyGate(r) ==
    LET body == input[r].body
    IN CASE ~body.parses -> <<"MALFORMED_REQUEST", "MALFORMED_REQUEST">>
         [] ~Authorize(box, RequestedCapabilities(body), gate[r].identity)
              -> <<"ENTITLEMENT_REQUIRED", "ENTITLEMENT_REQUIRED">>
         [] body.names = "neither_or_both" -> <<"SCRIPT_XOR_KEY", "SCRIPT_NOT_FOUND">>
         [] body.names = "unknown_key" -> <<"SCRIPT_NOT_FOUND", "SCRIPT_NOT_FOUND">>
         [] body.oversize # None -> <<body.oversize, "INPUT_TOO_LARGE">>
         [] OTHER -> <<None, None>>

\* From the payload to enforce_quota, which may refuse in trusted mode.
ReadBody(r) ==
    /\ At(r, "body")
    /\ partition' = [partition EXCEPT ![r] =
          IF input[r].body.parses
          THEN ResolvePartition(box, gate[r].identity, Asserted(input[r].headers, input[r].body))
          ELSE @]
    /\ LET refusal == BodyGate(r)
       IN IF refusal[1] # None
          THEN Deny(r, refusal[1], refusal[2], gate[r].identity)
          ELSE \/ Goto(r, "session") /\ UNCHANGED <<code, owed>>
               \/ box.trusted /\ Deny(r, "QUOTA_EXCEEDED", "QUOTA_EXCEEDED", gate[r].identity)
    /\ UNCHANGED <<box, input, gate, session, ran, mirrored, events, left, cache>>

\* connect_session, when a name is left for the broker; any failure is audited alike.
OpenSession(r) ==
    /\ At(r, "session")
    /\ LET names == BrokerNames(box, input[r].body)
       IN IF names = {}
          THEN Goto(r, "admit") /\ UNCHANGED <<session, code, owed>>
          ELSE \/ /\ session' = [session EXCEPT ![r] = <<WireInit(names, gate[r].identity)>>]
                  /\ Goto(r, "admit")
                  /\ UNCHANGED <<code, owed>>
               \/ /\ \E c \in {"RESOURCE_NOT_FOUND", "EGRESS_UNAVAILABLE", "EGRESS_PROTOCOL"} :
                        Deny(r, c, "EGRESS_UNAVAILABLE", gate[r].identity)
                  /\ UNCHANGED session
    /\ UNCHANGED <<box, input, gate, partition, ran, mirrored, events, left, cache>>

\* admit: the partition's share or the bulkhead may be used up.
Admit(r) ==
    /\ At(r, "admit")
    /\ \/ Goto(r, "load") /\ UNCHANGED <<code, owed>>
       \/ \E c \in {"PARTITION_OVERLOADED", "OVERLOADED"} :
             Deny(r, c, "OVERLOADED", gate[r].identity)
    /\ UNCHANGED <<box, input, gate, partition, session, ran, mirrored, events, left, cache>>

-----------------------------------------------------------------------------

\* Mutant: the namespace is hashed without its length.
DigestUnprefixed(namespace, source) == namespace \o source

\* digest: the length of the namespace comes first (SHA-256 itself is injective here).
Digest(namespace, source) == <<Len(namespace)>> \o namespace \o source

\* What r's script is hashed as: no partition is the empty namespace.
Namespace(r) == IF partition[r] \in Texts THEN Bytes[partition[r]] ELSE <<>>
Source(r) == Bytes[input[r].body.source]
SourceHash(r) == Digest(Namespace(r), Source(r))

\* obtain_declared up to the lookup, in the blocking task: a hit loads the bytecode and never parses.
LoadModule(r) ==
    /\ pc[r] = "load"
    /\ \/ \E entry \in cache :
             /\ entry.key = SourceHash(r)
             /\ ran' = [ran EXCEPT ![r] = <<entry.module>>]
             /\ Goto(r, "respond")
       \/ /\ \A entry \in cache : entry.key # SourceHash(r)
          /\ Goto(r, "declare")
          /\ UNCHANGED ran
    /\ UNCHANGED <<box, input, gate, partition, session, code, mirrored, events, owed, left,
                   cache>>

\* should_store; the bytecode of a large source may still fail to serialize.
MayStore(source) == Len(source) >= MinSourceBytes

\* obtain_declared after a miss: the compile, then the store; a source that does not
\* compile is not stored.  Two misses on one key may both store.
Declare(r) ==
    /\ pc[r] = "declare"
    /\ LET module == [source |-> Source(r), namespace |-> Namespace(r)]
       IN \/ input[r].body.source \in Broken /\ UNCHANGED <<ran, cache>>
          \/ /\ input[r].body.source \notin Broken
             /\ ran' = [ran EXCEPT ![r] = <<module>>]
             /\ \/ UNCHANGED cache
                \/ /\ MayStore(Source(r))
                   /\ cache' = {entry \in cache : entry.key # SourceHash(r)}
                                 \cup {[key |-> SourceHash(r), module |-> module]}
    /\ Goto(r, "respond")
    /\ UNCHANGED <<box, input, gate, partition, session, code, mirrored, events, owed, left>>

\* The cache evicts an entry (external).
Evict ==
    /\ \E entry \in cache : cache' = cache \ {entry}
    /\ UNCHANGED <<box, input, pc, gate, partition, session, code, ran, mirrored, events, owed,
                   left>>

\* LogPolicy::resolve
LogPolicy(c, id) == IF c.trusted THEN [capture |-> id.capture, mode |-> id.mode]
                    ELSE [capture |-> FALSE, mode |-> "live"]

\* stream_logs: what a run logged, unless it is a test.
StreamLogs(policy, logs, who) ==
    IF policy.mode = "test" \/ ~logs THEN <<>> ELSE <<Event("log", None, who)>>

\* emit_executed: two events, in this order, whatever the outcome.
EmitExecuted(who) == <<Event("usage", None, who), Event("allowed", None, who)>>

\* build_response: the run ended with an outcome, whose logs are at hand and are streamed
\* without an await; with an engine error or a panic there are none.
Respond(r) ==
    /\ At(r, "respond")
    /\ LET who == gate[r].identity
           policy == LogPolicy(box, who)
           logs == StreamLogs(policy, ran[r] # <<>> /\ input[r].body.logs, who)
       IN /\ events' = [events EXCEPT ![r] = ToSink(logs)] \/ UNCHANGED events
          /\ owed' = [owed EXCEPT ![r] = ToSink(EmitExecuted(who))]
          /\ mirrored' = [mirrored EXCEPT ![r] = policy.capture]
    /\ Goto(r, "emit")
    /\ UNCHANGED <<box, input, gate, partition, session, code, ran, left, cache>>

\* sink.record(..).await of the next event.
Emit(r) ==
    /\ At(r, "emit") /\ owed[r] # <<>>
    /\ events' = [events EXCEPT ![r] = Append(@, Head(owed[r]))]
    /\ owed' = [owed EXCEPT ![r] = Tail(@)]
    /\ UNCHANGED <<box, input, pc, gate, partition, session, code, ran, mirrored, left, cache>>

\* All is sent: the response goes out.
Answer(r) ==
    /\ At(r, "emit") /\ owed[r] = <<>>
    /\ Goto(r, "done")
    /\ UNCHANGED <<box, input, gate, partition, session, code, ran, mirrored, events, owed,
                   left, cache>>

\* The handler awaits the keys, the broker, the task or the sink.
Awaits(r) ==
    \/ pc[r] = "identity" /\ box.trusted /\ box.contract
    \/ pc[r] = "session" /\ BrokerNames(box, input[r].body) # {}
    \/ pc[r] \in {"load", "declare", "respond"}
    \/ pc[r] = "emit" /\ owed[r] # <<>>

\* The client leaves, and the handler is dropped at its await; a script that runs goes on.
Disconnect(r) ==
    /\ r \notin left /\ Awaits(r)
    /\ left' = left \cup {r}
    /\ UNCHANGED <<box, input, pc, gate, partition, session, code, ran, mirrored, events, owed,
                   cache>>

Next ==
    \/ \E r \in Requests :
          \/ Arrive(r) \/ Resolve(r) \/ ReadBody(r) \/ OpenSession(r) \/ Admit(r)
          \/ LoadModule(r) \/ Declare(r) \/ Respond(r) \/ Emit(r) \/ Answer(r)
          \/ Disconnect(r)
    \/ Evict

Spec == Init /\ [][Next]_vars

-----------------------------------------------------------------------------
(* Properties                                                              *)

\* Each request is at a step of its handler, and the cache holds one entry per key.
TypeOK ==
    /\ pc \in [Requests -> {"new", "identity", "body", "session", "admit", "load", "declare",
                            "respond", "emit", "done"}]
    /\ \A r \in Requests : input[r] \in Inputs[r] \cup {Blank}
    /\ partition \in [Requests -> Texts \cup {None}]
    /\ mirrored \in [Requests -> BOOLEAN]
    /\ \A r \in Requests : Len(session[r]) <= 1 /\ Len(ran[r]) <= 1 /\ Len(events[r] \o owed[r]) <= 3
    /\ left \subseteq Requests
    /\ \A e, f \in cache : e.key = f.key => e = f

\* r's contract was verified: what follows is decided by its claims.
Verified(r) ==
    /\ box.trusted /\ box.contract
    /\ pc[r] \notin {"new", "identity"}
    /\ code[r] # "UNAUTHORIZED"
    /\ input[r].token.is # "missing"
    /\ gate[r].code \notin ContractCodes

\* What a contract asserts of the principal; mode and capture are the edge's.
Sensitive(id) ==
    <<id.tenant, id.user, id.grants, id.plan, id.kind, id.behalf, id.suspended, id.anonymous>>

\* Two requests with the same contract get the same answer and act as the same principal,
\* whatever their plain headers say (resolve_identity_contract, apply_contract).
ContractDecides ==
    \A r, s \in Requests :
        Verified(r) /\ Verified(s) /\ input[r].token.claims = input[s].token.claims
        => /\ gate[r].code = gate[s].code
           /\ Sensitive(gate[r].who) = Sensitive(gate[s].who)

\* The script of r got as far as the engine.
Executes(r) ==
    \/ pc[r] \in {"load", "declare", "respond"}
    \/ pc[r] \in {"emit", "done"} /\ code[r] = None

\* A request that executes came through every guard the operator set up: on a reachable
\* box it held the token or the operator waived it, headers are trusted only behind an
\* isolated edge, its principal is of an admitted kind, is not suspended, and holds the
\* entitlement of each gated capability it asked for (check_exposure, run_execute).
ExecutedIsEntitled ==
    \A r \in Requests : Executes(r) =>
        LET id == gate[r].identity
        IN /\ box.exposed => box.allow_unauthenticated \/ input[r].bearer = box.access_token
           /\ box.trusted =>
                /\ box.exposed => box.assert_network_isolation
                /\ ~id.suspended /\ ~id.anonymous
                /\ box.allowed_principal_kinds # {} => id.kind \in box.allowed_principal_kinds
                /\ \A name \in RequestedCapabilities(input[r].body) :
                      name \in DOMAIN box.entitlements => box.entitlements[name] \in id.grants

\* In trusted mode one tenant is behind all a request uses: it is charged to the tenant's
\* partition, its session resolves names for that tenant and user, and its events are
\* booked on them, whatever the caller asserts; a refusal before the contract is verified
\* is booked on nobody (resolve_partition, wire_init, identity_fields).
TenantThroughout ==
    box.trusted =>
        \A r \in Requests :
            /\ Executes(r) =>
                  /\ gate[r].identity.tenant # None
                  /\ partition[r] = gate[r].identity.tenant
            /\ \A i \in DOMAIN session[r] :
                  /\ session[r][i].tenant = partition[r]
                  /\ session[r][i].actor = gate[r].identity.user
            /\ \A i \in DOMAIN events[r] :
                  LET who == IF gate[r].code = None THEN gate[r].identity ELSE gate[r].who
                  IN /\ events[r][i].tenant = who.tenant
                     /\ events[r][i].user = who.user
                     /\ ~Verified(r) /\ box.contract => who = Nobody

\* The module a request evaluates was compiled from its own source, by a request of its
\* own namespace: no entry of the cache is shared across tenants (digest).
ModuleIsOwn ==
    \A r \in Requests : \A i \in DOMAIN ran[r] :
        ran[r][i] = [source |-> Source(r), namespace |-> Namespace(r)]

\* The events of r's decision: none for a 401, one denial for a refusal, and for a run a
\* usage and an allowed event, after the logs unless the edge asked for a test.
Decision(r) ==
    CASE code[r] = "UNAUTHORIZED" \/ ~box.events -> {<<>>}
      [] box.events /\ code[r] \notin {None, "UNAUTHORIZED"} -> {<<"denied">>}
      [] OTHER -> {<<"usage", "allowed">>}
                    \cup (IF box.trusted /\ HeaderMode(input[r].headers.mode) = "test"
                          THEN {} ELSE {<<"log", "usage", "allowed">>})

\* What a request leaves in the record is its decision: all of it once it is answered, a
\* beginning of it when its client leaves, so that nothing is allowed that was not metered
\* before and nothing denied is metered; the response mirrors logs only when the edge
\* asked for them (emit_denied, emit_executed, stream_logs).
RecordsMatch ==
    \A r \in Requests :
        LET kinds == [i \in DOMAIN events[r] |-> events[r][i].kind]
        IN /\ pc[r] \notin {"emit", "done"} => kinds = <<>>
           /\ pc[r] \in {"emit", "done"} =>
                 \E whole \in Decision(r) :
                    /\ Len(kinds) <= Len(whole)
                    /\ \A i \in DOMAIN kinds : kinds[i] = whole[i]
                    /\ pc[r] = "done" => kinds = whole
           /\ mirrored[r] => box.trusted /\ HeaderFlag(input[r].headers.capture)

\* What a request used and what it left in the record are those of one tenant and one
\* decision (resolve_partition, wire_init, emit_denied, emit_executed).
RecordedForTenant == TenantThroughout /\ RecordsMatch
=============================================================================
